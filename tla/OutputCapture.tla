--------------------------- MODULE OutputCapture ----------------------------
(***************************************************************************)
(* output_capture.py and the writer of journal.py: tee_output() redirects   *)
(* the descriptors of the process to a pipe (a pty on a terminal), and a    *)
(* pump thread copies what arrives there to the terminal and to a sink, the *)
(* journal or a file.                                                       *)
(*                                                                         *)
(* Bytes: "before" and "after" are printed around the block, "text", "cr"   *)
(* and "nl" in it, "child" is written by a child that the block starts.     *)
(***************************************************************************)
EXTENDS Integers, Sequences, SequencesExt

CONSTANTS
  Room,        \* bytes the pipe holds
  MaxPrints,   \* bound: bytes the block prints
  MaxChild,    \* bound: bytes the child writes
  MaxFaults    \* bound: failures of the sink, of the terminal and of a flush

ASSUME BoundsAssumption == Room \in Nat \ {0} /\ {MaxPrints, MaxChild, MaxFaults} \subseteq Nat

VARIABLES
  sink,        \* "journal", "file", or "none": the block runs un-teed
  pc,          \* the caller, in tee_output() and _capture(); "refused" if an
               \* exception keeps the block from running, "raised" if one cuts
               \* the teardown short
  printed,     \* what the caller has printed, in order: a history variable
  buffer,      \* of it, what sys.stdout has not flushed
  out,         \* where descriptors 1 and 2 lead: "terminal" or "pipe"
  slaveOpen,   \* this process's own descriptor of the writing end
  pipe,        \* bytes in the pipe or pty
  child,       \* "none", "running", "ended"
  childOut,    \* where the child's descriptors lead
  childWrote,  \* how many bytes the child has written
  terminal,    \* what the terminal has received
  terminalOk,  \* it takes writes
  pump,        \* "off", "reading", "saving", "ended", "dead"
  data,        \* what the pump has read and not saved
  tail,        \* the journal sink's buffer
  saved,       \* bytes of the log file, or entries of the journal
  faults,
  sinkOk       \* no write of the sink has failed: a history variable

callerVars == <<sink, pc, printed, buffer, out, slaveOpen>>
childVars == <<child, childOut, childWrote>>
pumpVars == <<pump, data, tail, saved, sinkOk>>
vars == <<callerVars, pipe, childVars, terminal, terminalOk, pumpVars, faults>>

Init ==
  /\ sink = "none" /\ pc = "begin" /\ printed = <<>> /\ buffer = <<>>
  /\ out = "terminal" /\ slaveOpen = FALSE /\ pipe = <<>>
  /\ child = "none" /\ childOut = "terminal" /\ childWrote = 0
  /\ terminal = <<>> /\ terminalOk = TRUE
  /\ pump = "off" /\ data = <<>> /\ tail = <<>> /\ saved = <<>>
  /\ faults = 0 /\ sinkOk = TRUE

Goto(from, to) == pc = from /\ pc' = to

\* A write to descriptor 1 or 2; it waits while the pipe is full.
WriteTo(where, bytes) ==
  \/ /\ where = "terminal"
     /\ terminal' = (IF terminalOk THEN terminal \o bytes ELSE terminal)
     /\ UNCHANGED pipe
  \/ /\ where = "pipe" /\ Len(pipe) + Len(bytes) <= Room
     /\ pipe' = pipe \o bytes /\ UNCHANGED terminal

-----------------------------------------------------------------------------
(* The sinks                                                               *)

\* _JournalStreamSink._emit: the last rendering of a line that \r redraws.
Rendered(line) ==
  LET NotCR(b) == b # "cr"
      IsCR(b) == b = "cr"
      shown == SubSeq(line, 1, SelectLastInSeq(line, NotCR))
  IN SubSeq(shown, SelectLastInSeq(shown, IsCR) + 1, Len(shown))

\* The lines that are complete, as they are shown, and the bytes behind them.
Split(bytes) ==
  LET split[n \in 0..Len(bytes)] ==
        IF n = 0 THEN [lines |-> <<>>, rest |-> <<>>]
        ELSE IF bytes[n] = "nl"
        THEN [lines |-> Append(split[n - 1].lines, Rendered(split[n - 1].rest)), rest |-> <<>>]
        ELSE [split[n - 1] EXCEPT !.rest = Append(@, bytes[n])]
  IN split[Len(bytes)]
Lines(bytes) == Split(bytes).lines
Rest(bytes) == Split(bytes).rest

\* Mutant: the chunk ends the line.
JournalWritePerChunk(bytes) ==
  /\ sink = "journal" /\ tail' = <<>>
  /\ saved' = saved \o Lines(bytes) \o (IF Rest(bytes) = <<>> THEN <<>> ELSE <<Rendered(Rest(bytes))>>)
  /\ UNCHANGED <<faults, sinkOk>>

\* One entry per line completed; a send that fails drops its entry.
JournalWrite(bytes) ==
  LET complete == Lines(tail \o bytes)
  IN /\ sink = "journal" /\ tail' = Rest(tail \o bytes)
     /\ \/ saved' = saved \o complete /\ UNCHANGED <<faults, sinkOk>>
        \/ /\ faults < MaxFaults /\ faults' = faults + 1 /\ sinkOk' = FALSE
           /\ \E k \in DOMAIN complete : saved' = saved \o RemoveAt(complete, k)

\* _write_all to the log file; an OSError leaves a part of the bytes.
FileWrite(bytes) ==
  /\ sink = "file" /\ UNCHANGED tail
  /\ \/ saved' = saved \o bytes /\ UNCHANGED <<faults, sinkOk>>
     \/ /\ faults < MaxFaults /\ faults' = faults + 1 /\ sinkOk' = FALSE
        /\ \E n \in 0..Len(bytes) - 1 : saved' = saved \o SubSeq(bytes, 1, n)

\* close(): the journal gets the line that no newline ended.
CloseSink ==
  /\ tail' = <<>>
  /\ saved' = IF sink = "journal" /\ tail # <<>> THEN Append(saved, Rendered(tail)) ELSE saved

-----------------------------------------------------------------------------
(* The caller                                                              *)

\* Of these bytes the ones of this kind, in their order.
Kept(bytes, kind) ==
  LET kept[n \in 0..Len(bytes)] ==
        IF n = 0 THEN <<>>
        ELSE IF bytes[n] \in kind THEN Append(kept[n - 1], bytes[n]) ELSE kept[n - 1]
  IN kept[Len(bytes)]
Inside(bytes) == Kept(bytes, {"text", "cr", "nl", "child"})

\* tee_output() is over; what the caller prints then is followed where no exception
\* has ended it.
Left == {"done", "raised", "refused"}

Prints(byte) ==
  /\ printed' = Append(printed, byte) /\ buffer' = Append(buffer, byte)
  /\ UNCHANGED <<sink, pc, out, slaveOpen, pipe, childVars, terminal, terminalOk, pumpVars, faults>>

PrintBefore == pc = "begin" /\ printed = <<>> /\ Prints("before")
PrintInside ==
  /\ pc = "body" /\ Len(Inside(printed)) < MaxPrints
  /\ \E byte \in {"text", "cr", "nl"} : Prints(byte)
PrintAfter == pc = "done" /\ ~Contains(printed, "after") /\ Prints("after")

\* One byte of the buffer goes where descriptor 1 leads.
Flush ==
  /\ buffer # <<>> /\ WriteTo(out, <<Head(buffer)>>)
  /\ buffer' = Tail(buffer)
  /\ UNCHANGED <<sink, pc, printed, out, slaveOpen, childVars, terminalOk, pumpVars, faults>>

\* sys.stdout writes what it has buffered when it likes.
FlushByItself == pc \in {"begin", "body"} \union Left /\ Flush

\* tee_output(): journald_available() looks for a socket, and where connecting to it
\* is refused the exception is the caller's; a log file that cannot be opened is done
\* without.
ChooseSink ==
  /\ \/ sink' \in {"journal", "file"} /\ Goto("begin", "start")
     \/ sink' = "journal" /\ Goto("begin", "refused")
     \/ sink' = "none" /\ Goto("begin", "body")
  /\ UNCHANGED <<printed, buffer, out, slaveOpen, pipe, childVars, terminal, terminalOk, pumpVars, faults>>

\* _capture(): flush first, then save the descriptors, redirect and start the pump.
FlushFirst == pc = "start" /\ Flush
Redirect ==
  /\ buffer = <<>> /\ Goto("start", "body")
  /\ out' = "pipe" /\ slaveOpen' = TRUE /\ pump' = "reading"
  /\ UNCHANGED <<sink, printed, buffer, pipe, childVars, terminal, terminalOk, data, tail, saved, faults, sinkOk>>

\* The block returns or raises.
EndBody ==
  /\ Goto("body", IF sink = "none" THEN "done" ELSE "flushing")
  /\ UNCHANGED <<sink, printed, buffer, out, slaveOpen, pipe, childVars, terminal, terminalOk, pumpVars, faults>>

\* Mutant: the slave stays open.
RestoreOnly ==
  /\ buffer = <<>> /\ Goto("flushing", "joining")
  /\ out' = "terminal" /\ UNCHANGED slaveOpen
  /\ UNCHANGED <<sink, printed, buffer, pipe, childVars, terminal, terminalOk, pumpVars, faults>>

\* finally: flush, restore the descriptors, close the slave, join the pump.
FlushLast == pc = "flushing" /\ Flush
Restore ==
  /\ buffer = <<>> /\ Goto("flushing", "joining")
  /\ out' = "terminal" /\ slaveOpen' = FALSE
  /\ UNCHANGED <<sink, printed, buffer, pipe, childVars, terminal, terminalOk, pumpVars, faults>>
Join ==
  /\ pump \in {"ended", "dead"} /\ Goto("joining", "done")
  /\ CloseSink
  /\ UNCHANGED <<sink, printed, buffer, out, slaveOpen, pipe, childVars, terminal, terminalOk, pump, data, faults, sinkOk>>

\* A flush that raises: the first one keeps the block from running, the one in
\* `finally` skips all that follows it there, the descriptors and the pump stay as
\* they are.  tee_output() closes the sink either way.
FlushFails ==
  /\ \/ Goto("start", "refused") \/ Goto("flushing", "raised")
  /\ faults < MaxFaults /\ faults' = faults + 1
  /\ CloseSink
  /\ UNCHANGED <<sink, printed, buffer, out, slaveOpen, pipe, childVars, terminal, terminalOk, pump, data, sinkOk>>

-----------------------------------------------------------------------------
(* The pump                                                                *)

\* One os.read(): any part of what is there.
PumpRead ==
  /\ pump = "reading" /\ pump' = "forwarding"
  /\ \E n \in 1..Len(pipe) :
       /\ data' = SubSeq(pipe, 1, n)
       /\ pipe' = SubSeq(pipe, n + 1, Len(pipe))
  /\ UNCHANGED <<callerVars, childVars, terminal, terminalOk, tail, saved, faults, sinkOk>>

\* Mutant: the pump ends when there is nothing to read.
PumpEndsDry ==
  /\ pump = "reading" /\ pipe = <<>> /\ ~slaveOpen
  /\ pump' = "ended"
  /\ UNCHANGED <<callerVars, pipe, childVars, terminal, terminalOk, data, tail, saved, faults, sinkOk>>

\* End of file, or EIO: every descriptor of the writing end is closed.
PumpEnds ==
  /\ pump = "reading" /\ pipe = <<>>
  /\ ~slaveOpen /\ out = "terminal" /\ ~(child = "running" /\ childOut = "pipe")
  /\ pump' = "ended"
  /\ UNCHANGED <<callerVars, pipe, childVars, terminal, terminalOk, data, tail, saved, faults, sinkOk>>

\* The terminal first; if it fails, the exception ends the thread.
PumpForward ==
  /\ pump = "forwarding"
  /\ \/ terminalOk /\ pump' = "saving" /\ terminal' = terminal \o data
     \/ ~terminalOk /\ pump' = "dead" /\ UNCHANGED terminal
  /\ UNCHANGED <<callerVars, pipe, childVars, terminalOk, data, tail, saved, faults, sinkOk>>

\* Whatever the sink does, the pump goes on; a sink that is closed saves nothing.
PumpSave ==
  /\ pump = "saving" /\ pump' = "reading" /\ data' = <<>>
  /\ IF pc = "raised" THEN sinkOk' = FALSE /\ UNCHANGED <<tail, saved, faults>>
     ELSE JournalWrite(data) \/ FileWrite(data)
  /\ UNCHANGED <<callerVars, pipe, childVars, terminal, terminalOk>>

-----------------------------------------------------------------------------
(* The child and the terminal                                              *)

StartChild ==
  /\ pc = "body" /\ child = "none"
  /\ child' = "running" /\ childOut' = out
  /\ UNCHANGED <<callerVars, pipe, childWrote, terminal, terminalOk, pumpVars, faults>>

ChildWrites ==
  /\ child = "running" /\ childWrote < MaxChild
  /\ childWrote' = childWrote + 1 /\ WriteTo(childOut, <<"child">>)
  /\ UNCHANGED <<callerVars, child, childOut, terminalOk, pumpVars, faults>>

\* It may well outlive the block.
ChildEnds ==
  /\ child = "running" /\ child' = "ended"
  /\ UNCHANGED <<callerVars, pipe, childOut, childWrote, terminal, terminalOk, pumpVars, faults>>

TerminalBreaks ==
  /\ pump \in {"reading", "forwarding"} /\ terminalOk
  /\ faults < MaxFaults /\ faults' = faults + 1 /\ terminalOk' = FALSE
  /\ UNCHANGED <<callerVars, pipe, childVars, terminal, pumpVars>>

Caller ==
  ChooseSink \/ FlushFirst \/ Redirect \/ EndBody \/ FlushLast \/ Restore \/ Join
Pump == PumpRead \/ PumpEnds \/ PumpForward \/ PumpSave
Environment ==
  PrintBefore \/ PrintInside \/ PrintAfter \/ FlushByItself
    \/ FlushFails \/ StartChild \/ ChildWrites \/ ChildEnds \/ TerminalBreaks

Next == Caller \/ Pump \/ Environment

\* The block ends, and the threads run; a child need not end.
Fairness == WF_vars(Caller) /\ WF_vars(Pump)
Spec == Init /\ [][Next]_vars
FairSpec == Spec /\ Fairness

-----------------------------------------------------------------------------
(* Properties                                                              *)

\* _pump() and the sinks: however the stream is cut into reads, and whatever is
\* buffered at the two redirections, the sink has the bytes of the block, in the
\* terminal's order and no others; the journal has them line by line, as the
\* terminal shows a line, with the unfinished one when the block is left.
SinkIsFaithful ==
  LET shown == Inside(terminal)
      unfinished == IF pc \in Left /\ Rest(shown) # <<>> THEN <<Rendered(Rest(shown))>> ELSE <<>>
  IN sinkOk /\ pump \notin {"off", "saving"} =>
       saved = IF sink = "file" THEN shown ELSE Lines(shown) \o unfinished

\* _capture()'s finally: when the block is left, nothing that the caller or its
\* child wrote is still in the pipe or behind it, whether or not the sink failed:
\* it is on the terminal, the caller's in the order printed.
NothingIsLost ==
  pc = "done" /\ terminalOk =>
    /\ out = "terminal" /\ pipe = <<>>
    /\ Kept(terminal, {"before", "after", "text", "cr", "nl"}) \o buffer = printed
    /\ Len(terminal) + Len(buffer) = Len(printed) + childWrote

\* reader.join(): a block that has begun is left, failing sink or full pipe, as long
\* as the terminal takes its output and a child it has started does not stay for
\* ever.
BlockIsLeft ==
  ([]terminalOk /\ <>[](child # "running") /\ [](pc # "refused"))
    => <>(pc \in {"done", "raised"})

=============================================================================
