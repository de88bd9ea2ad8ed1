----------------------------- MODULE MCSlotRun ------------------------------
(* Slots of every shape: plain and booted, nested podman and not, with phases *)
(* that provide a capability, are tolerated, or are left out by the scope.    *)
EXTENDS SlotRun

Commands(tolerate, adds) ==
  [run |-> "commands", scope |-> "none", tolerate |-> tolerate, adds |-> adds]
Suite(scope, adds) == [run |-> "pytest", scope |-> scope, tolerate |-> FALSE, adds |-> adds]

HooksFirst == <<Commands(FALSE, {"hooks"}), Suite("unit", {}), Suite("integ", {})>>
SuiteFirst == <<Suite("unit", {"hooks"}), Commands(TRUE, {}), Suite("integ", {})>>

Case(kind, flavor, krun, requiresBoot, nonSystemd, scope, phases) ==
  [kind |-> kind, flavor |-> flavor, krun |-> krun, requiresBoot |-> requiresBoot,
   nonSystemd |-> nonSystemd, scope |-> scope,
   expect |-> IF flavor = "podman" /\ kind = "container" THEN {"podman"} ELSE {},
   phases |-> phases]

SlotCases ==
  {Case("container", "podman", krun, FALSE, FALSE, "all", phases) :
     krun \in BOOLEAN, phases \in {HooksFirst, SuiteFirst}}
  \union {Case("container", "podman", TRUE, FALSE, TRUE, "all", HooksFirst),
          Case("container", "dbus", TRUE, FALSE, FALSE, "unit", HooksFirst),
          Case("container", "dbus", TRUE, TRUE, FALSE, "integ", SuiteFirst),
          Case("nix", "podman", FALSE, FALSE, FALSE, "unit", SuiteFirst)}

=============================================================================
