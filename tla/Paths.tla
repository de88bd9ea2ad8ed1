------------------------------- MODULE Paths --------------------------------
(***************************************************************************)
(* paths.py: what a process takes for its state, config and runtime         *)
(* directories, from its place in the user namespaces, its environment and  *)
(* the layered config.yml.                                                  *)
(*                                                                         *)
(* A process is a record: euid and uidMap, the rows <<inner, outer, length>> *)
(* of /proc/self/uid_map; env, the variables that are set; files, the data  *)
(* of each config.yml, "corrupt" where it does not load.                    *)
(***************************************************************************)
EXTENDS ConfigStack

CONSTANT UidMax   \* length of the initial namespace's identity map

ASSUME UidMaxAssumption == UidMax \in Nat \ {0}

\* host_uid: the parent namespace's name for euid, from the first row that has it.
Covers(row, uid) == row[1] <= uid /\ uid < row[1] + row[3]
HostUid(p) ==
  LET rows == {i \in DOMAIN p.uidMap : Covers(p.uidMap[i], p.euid)}
      row == p.uidMap[Min(rows)]
  IN IF rows = {} THEN p.euid ELSE row[2] + (p.euid - row[1])

InInitialUserns(p) == p.uidMap \in {<<>>, <<<<0, 0, UidMax>>>>}

\* Mutant: the uid that a peer outside sees decides.
IsRootOutside(p) == HostUid(p) = 0
IsRoot(p) == p.euid = 0 /\ InInitialUserns(p)

Set(p, variable) == variable \in p.env

\* config_file_paths, lowest priority first.
ConfigFilePaths(p) ==
  IF Set(p, "TEROK_CONFIG_FILE") THEN <<"override">>
  ELSE IF IsRoot(p) THEN <<"system">> ELSE <<"system", "user">>

\* read_config_section: one file that does not load empties the section.
ReadConfigSection(p, section) ==
  LET paths == ConfigFilePaths(p)
      Loads(path) == p.files[path] # [kind |-> "corrupt"]
  IN IF \A i \in DOMAIN paths : Loads(paths[i])
     THEN LET merged == ResolveSection([i \in DOMAIN paths |-> p.files[paths[i]].of], section)
          IN [k \in {k \in DOMAIN merged : merged[k] # Null} |-> merged[k]]
     ELSE Nothing

\* _namespace_root, "unset" for the platform's default; an empty value does not count.
NamespaceRoot(p) ==
  LET section == ReadConfigSection(p, "paths")
  IN IF Set(p, "TEROK_ROOT") THEN "TEROK_ROOT"
     ELSE IF "root" \in DOMAIN section /\ section["root"] # Scalar("") THEN "paths.root"
     ELSE "unset"

PlatformStateBase(p) ==
  IF IsRoot(p) THEN "/var/lib" ELSE IF Set(p, "XDG_DATA_HOME") THEN "XDG_DATA_HOME" ELSE "~/.local/share"

\* namespace_state_dir, namespace_config_dir and namespace_runtime_dir by where the
\* directory comes from; the package's own variable first.
StateDir(p) ==
  IF Set(p, "STATE_DIR") THEN "STATE_DIR"
  ELSE IF NamespaceRoot(p) # "unset" THEN NamespaceRoot(p) ELSE PlatformStateBase(p)
ConfigDir(p) ==
  IF Set(p, "CONFIG_DIR") THEN "CONFIG_DIR"
  ELSE IF IsRoot(p) THEN "/etc"
  ELSE IF Set(p, "XDG_CONFIG_HOME") THEN "XDG_CONFIG_HOME" ELSE "~/.config"
RuntimeDir(p) ==
  IF Set(p, "RUNTIME_DIR") THEN "RUNTIME_DIR"
  ELSE IF IsRoot(p) THEN "/run"
  ELSE IF Set(p, "XDG_RUNTIME_DIR") THEN "XDG_RUNTIME_DIR"
  ELSE IF Set(p, "XDG_STATE_HOME") THEN "XDG_STATE_HOME" ELSE "~/.local/state"

Directories(p) == <<ConfigFilePaths(p), StateDir(p), ConfigDir(p), RuntimeDir(p)>>

-----------------------------------------------------------------------------
(* The processes of one operator                                           *)

\* The operator's own process, an OCI hook of rootless podman, and an agent in a
\* container with --userns=keep-id.
Operator(uid) == [euid |-> uid, uidMap |-> <<<<0, 0, UidMax>>>>]
Hook(uid) == [euid |-> 0, uidMap |-> <<<<0, uid, 1>>, <<1, 100, 50>>>>]
Agent(uid) == [euid |-> uid, uidMap |-> <<<<0, 1, uid>>, <<uid, 0, 1>>, <<uid + 1, uid + 1, 50>>>>]
Root == [euid |-> 0, uidMap |-> <<<<0, 0, UidMax>>>>]
In(place, env, files) ==
  [euid |-> place.euid, uidMap |-> place.uidMap, env |-> env, files |-> files]

=============================================================================
