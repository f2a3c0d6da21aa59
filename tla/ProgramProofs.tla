---------------------------- MODULE ProgramProofs ----------------------------
(***************************************************************************)
(* What a step of a child, and each of the operators that the tools build  *)
(* their steps from, does to the file system and to the process table.     *)
(* The proofs about diag-fix, diag-times, diag-cycle and diag-root cite    *)
(* these lemmas and need not look into the steps again.                    *)
(***************************************************************************)
EXTENDS Program, TLAPS

Statuses == {"none", "forked", "reading", "writing", "running", "exited", "killed"}
Events   == {"none", "stopped", "continued"}

ChildRecord ==
  [st : Statuses, in : Path, stdin : Data, code : 0..255, stopped : BOOLEAN,
   event : Events]

ProgramTypeOK ==
  /\ command \in [Data -> Data]
  /\ fs \in [Path -> Data \cup {Absent}]
  /\ child \in [Pid -> ChildRecord]

-----------------------------------------------------------------------------
\* The names that diag gives to files differ from each other and from the user's.
LEMMA Names ==
  /\ Tmp \in Created
  /\ Created \subseteq Path
  /\ \A i \in Inputs : In(i) \in Path \ Created
  /\ \A p \in Pid : {Out(p), Err(p)} \subseteq Created \ {Tmp}
  /\ \A p \in Pid : Out(p) \in {"out"} \X Pid
  /\ \A p1, p2 \in Pid : /\ Out(p1) # Err(p2)
                         /\ Out(p1) = Out(p2) => p1 = p2
                         /\ Err(p1) = Err(p2) => p1 = p2
  /\ \A q \in {"out"} \X Pid : q \in Created \ {Tmp} /\ \E p \in Pid : q = Out(p)
  BY DEF Tmp, Created, Path, In, Out, Err

\* The names of distinct inputs differ.
LEMMA InputNames == \A i, j : In(i) = In(j) => i = j
  BY DEF In

LEMMA NoChildType == NoChild \in ChildRecord
  BY Names, DataAssumption DEF NoChild, ChildRecord, Statuses, Events

LEMMA PartialType == \A d \in Data : Partial[d] \subseteq Data
  BY DataAssumption

LEMMA TransferredType == \A d \in Data : Transferred(d) \subseteq Data
  BY PartialType DEF Transferred

-----------------------------------------------------------------------------
(***************************************************************************)
(* A child changes itself and its own two output files; only one that is   *)
(* about to open them can make a file, and none leaves the process table.  *)
(***************************************************************************)
ChildEffect(p) ==
  /\ child' \in [Pid -> ChildRecord]
  /\ child'[p].st # "none"
  /\ \A p1 \in Pid \ {p} : child'[p1] = child[p1]

FilesEffect(p) ==
  /\ fs' \in [Path -> Data \cup {Absent}]
  /\ \A q \in Path \ {Out(p), Err(p)} : fs'[q] = fs[q]
  /\ \A q \in Path : Exists(q) => Exists(q)'

LEMMA RecordChanges ==
  ASSUME ProgramTypeOK, NEW p \in Pid, NEW record \in ChildRecord, record.st # "none",
         child' = [child EXCEPT ![p] = record]
  PROVE  ChildEffect(p) /\ child'[p] = record
  BY DEF ProgramTypeOK, ChildEffect

LEMMA WritesSome ==
  ASSUME ProgramTypeOK, NEW p \in Pid, WriteSome(p) \/ Write(p, Result(p))
  PROVE  /\ FilesEffect(p)
         /\ \A q \in Path : Exists(q) <=> Exists(q)'
<1>1. {Out(p), Err(p)} \subseteq Path /\ Result(p) \in Data /\ Partial[Result(p)] \subseteq Data
  BY Names, PartialType DEF ProgramTypeOK, ChildRecord, Result
<1>2. CASE \E d \in Data : Write(p, d)
  BY <1>1, <1>2, DataAssumption DEF Write, FilesEffect, ProgramTypeOK, Exists
<1>3. CASE UNCHANGED fs
  BY <1>3 DEF FilesEffect, ProgramTypeOK, Exists
<1> QED
  BY <1>1, <1>2, <1>3 DEF WriteSome

\* One of the two calls that open an output makes the file, or empties it.
LEMMA MakesFile ==
  ASSUME ProgramTypeOK, NEW p \in Pid, NEW q \in {Out(p), Err(p)}, fs' = [fs EXCEPT ![q] = Empty]
  PROVE  FilesEffect(p) /\ Exists(q)'
<1>1. {Out(p), Err(p)} \subseteq Path
  BY Names
<1> QED
  BY <1>1, DataAssumption DEF FilesEffect, ProgramTypeOK, Exists

LEMMA OpenedChanges ==
  ASSUME ProgramTypeOK, NEW p \in Pid, child[p].st # "none", FilesEffect(p),
         NEW st, st \in Statuses \ {"none", "forked"}, Opened(p, st), child[p].stopped = FALSE
  PROVE  /\ ChildEffect(p)
         /\ child'[p].st = st /\ child'[p].in = child[p].in
         /\ child'[p].stdin = IF fs'[child[p].in] = Absent THEN child[p].stdin ELSE fs'[child[p].in]
         /\ child'[p].stopped = FALSE /\ child'[p].event = child[p].event
<1> DEFINE d == IF fs'[child[p].in] = Absent THEN child[p].stdin ELSE fs'[child[p].in]
           record == [child[p] EXCEPT !.st = st, !.stdin = d]
<1>1. child[p] \in ChildRecord /\ d \in Data
  BY DEF ProgramTypeOK, ChildRecord, FilesEffect
<1>2. child' = [child EXCEPT ![p] = record]
  BY <1>1 DEF Opened, ChildRecord, ProgramTypeOK
<1>3. record \in ChildRecord
  BY <1>1 DEF ChildRecord
<1>4. /\ record.st = st /\ record.stdin = d /\ record.in = child[p].in
      /\ record.stopped = FALSE /\ record.event = child[p].event
  BY <1>1 DEF ChildRecord
<1>5. ChildEffect(p) /\ child'[p] = record
  <2> HIDE DEF record
  <2> QED
    BY <1>2, <1>3, <1>4, RecordChanges
<1> HIDE DEF record
<1> QED
  BY <1>4, <1>5

\* A child comes to its end, in one way or the other.
Ends(p, st, code) == child' = [child EXCEPT ![p].st = st, ![p].code = code]

\* What the steps that end a child leave in its record.
LEMMA EndChanges ==
  ASSUME ProgramTypeOK, NEW p \in Pid, Live(p),
         NEW st, st \in {"exited", "killed"}, NEW code, code \in 0..255,
         Ends(p, st, code)
  PROVE  /\ ChildEffect(p)
         /\ child'[p].st = st /\ child'[p].in = child[p].in /\ child'[p].code = code
         /\ child'[p].stopped = child[p].stopped /\ child'[p].event = child[p].event
<1>1. child[p] \in ChildRecord
  BY DEF ProgramTypeOK
<1> DEFINE record == [child[p] EXCEPT !.st = st, !.code = code]
<1>2. child' = [child EXCEPT ![p] = record]
  BY <1>1 DEF Ends, ProgramTypeOK, ChildRecord
<1>3. /\ record \in ChildRecord /\ record.st = st /\ record.in = child[p].in /\ record.code = code
      /\ record.stopped = child[p].stopped /\ record.event = child[p].event
  BY <1>1 DEF ChildRecord, Statuses
<1> HIDE DEF record
<1>4. ChildEffect(p) /\ child'[p] = record
  BY <1>2, <1>3, RecordChanges
<1> QED
  BY <1>3, <1>4

LEMMA ExitCodes ==
  FailCodes \subseteq 0..255 /\ EXIT_SUCCESS \in 0..255 /\ EXIT_FAILURE \in 0..255
  BY ProcessAssumption DEF EXIT_SUCCESS, EXIT_FAILURE

LEMMA StepEffect ==
  ASSUME ProgramTypeOK, NEW p \in Pid, ChildStep(p)
  PROVE  ChildEffect(p) /\ FilesEffect(p)
<1>1. child[p] \in ChildRecord
  BY DEF ProgramTypeOK
<1>2. CASE OpenStdin(p)
  <2>1. FilesEffect(p)
    BY <1>2 DEF OpenStdin, FilesEffect, ProgramTypeOK, Exists
  <2>2. /\ child[p].st # "none" /\ child[p].stopped = FALSE /\ Opened(p, "reading")
        /\ "reading" \in Statuses \ {"none", "forked"}
    BY <1>1, <1>2 DEF OpenStdin, At, Statuses, ChildRecord
  <2> QED
    BY <2>1, <2>2, OpenedChanges
<1>3. CASE OpenStdout(p)
  <2>1. FilesEffect(p)
    BY <1>3, MakesFile DEF OpenStdout
  <2>2. /\ child[p].st # "none" /\ child[p].stopped = FALSE /\ Opened(p, "writing")
        /\ "writing" \in Statuses \ {"none", "forked"}
    BY <1>1, <1>3 DEF OpenStdout, At, Statuses, ChildRecord
  <2> QED
    BY <2>1, <2>2, OpenedChanges
<1>4. CASE OpenStderr(p)
  <2>1. FilesEffect(p)
    BY <1>4, MakesFile DEF OpenStderr
  <2>2. /\ child[p].st # "none" /\ child[p].stopped = FALSE /\ Opened(p, "running")
        /\ "running" \in Statuses \ {"none", "forked"}
    BY <1>1, <1>4 DEF OpenStderr, At, Statuses, ChildRecord
  <2> QED
    BY <2>1, <2>2, OpenedChanges
<1>5. CASE OpenFails(p)
  <2>1. FilesEffect(p) /\ Live(p)
    BY <1>5 DEF OpenFails, FilesEffect, ProgramTypeOK, Exists, At, Live
  <2>2. Ends(p, "exited", EXIT_FAILURE)
    BY <1>5 DEF OpenFails, Ends
  <2> QED
    BY <2>1, <2>2, ExitCodes, EndChanges
<1>6. CASE ChildSucceeds(p)
  <2>1. FilesEffect(p) /\ Live(p)
    BY <1>6, WritesSome DEF ChildSucceeds, At, Live
  <2>2. Ends(p, "exited", EXIT_SUCCESS)
    BY <1>6 DEF ChildSucceeds, Ends
  <2> QED
    BY <2>1, <2>2, ExitCodes, EndChanges
<1>7. CASE ChildFails(p)
  <2>1. FilesEffect(p) /\ Live(p)
    BY <1>7, WritesSome DEF ChildFails, At, Live
  <2>2. PICK c \in FailCodes : Ends(p, "exited", c)
    BY <1>7 DEF ChildFails, Ends
  <2> QED
    BY <2>1, <2>2, ExitCodes, EndChanges
<1> QED
  BY <1>2, <1>3, <1>4, <1>5, <1>6, <1>7 DEF ChildStep

LEMMA KilledChanges ==
  ASSUME ProgramTypeOK, NEW p \in Pid, ChildKilled(p)
  PROVE  /\ ChildEffect(p)
         /\ child'[p].st = "killed" /\ child'[p].in = child[p].in
         /\ child'[p].stopped = child[p].stopped /\ child'[p].event = child[p].event
<1>1. child[p] \in ChildRecord /\ Live(p)
  BY DEF ProgramTypeOK, ChildKilled
<1>2. Ends(p, "killed", child[p].code) /\ child[p].code \in 0..255
  BY <1>1 DEF ChildKilled, Ends, ProgramTypeOK, ChildRecord
<1> QED
  BY <1>1, <1>2, EndChanges

LEMMA SignalEffect ==
  ASSUME ProgramTypeOK, NEW p \in Pid, ChildSignal(p)
  PROVE  ChildEffect(p) /\ FilesEffect(p)
<1>1. child[p] \in ChildRecord
  BY DEF ProgramTypeOK
<1>2. CASE ChildKilled(p)
  BY <1>2, KilledChanges, WritesSome DEF ChildKilled
<1>3. ASSUME NEW stopped \in BOOLEAN, NEW event \in Events, Live(p),
             child' = [child EXCEPT ![p].stopped = stopped, ![p].event = event]
      PROVE  ChildEffect(p)
  <2> DEFINE record == [child[p] EXCEPT !.stopped = stopped, !.event = event]
  <2>1. child' = [child EXCEPT ![p] = record]
    BY <1>1, <1>3 DEF ProgramTypeOK, ChildRecord
  <2>2. record \in ChildRecord /\ record.st # "none"
    BY <1>1, <1>3 DEF ChildRecord, Live
  <2> HIDE DEF record
  <2> QED
    BY <2>1, <2>2, RecordChanges
<1>4. CASE ChildStops(p)
  BY <1>3, <1>4, WritesSome DEF ChildStops, Events
<1>5. CASE ChildContinues(p)
  <2>1. FilesEffect(p)
    BY <1>5 DEF ChildContinues, FilesEffect, ProgramTypeOK, Exists
  <2> QED
    BY <1>3, <1>5, <2>1 DEF ChildContinues, Events
<1> QED
  BY <1>2, <1>4, <1>5 DEF ChildSignal

LEMMA ChildChanges ==
  ASSUME ProgramTypeOK, NEW p \in Pid, ChildStep(p) \/ ChildSignal(p)
  PROVE  /\ ProgramTypeOK'
         /\ command' = command
         /\ child[p].st # "none" /\ child'[p].st # "none"
         /\ \A p1 \in Pid \ {p} : child'[p1] = child[p1]
         /\ \A q \in Path \ {Out(p), Err(p)} : fs'[q] = fs[q]
         /\ \A q \in Path : Exists(q) => Exists(q)'
<1>1. ChildEffect(p) /\ FilesEffect(p)
  BY StepEffect, SignalEffect
<1>2. command' = command /\ child[p].st # "none"
  BY DEF ChildStep, ChildSignal, OpenStdin, OpenStdout, OpenStderr, OpenFails, ChildSucceeds,
         ChildFails, ChildKilled, ChildStops, ChildContinues, At, Live
<1> QED
  BY <1>1, <1>2 DEF ChildEffect, FilesEffect, ProgramTypeOK

\* Without stops there is never any news of a child but that it has ended.
LEMMA ChildWithoutStops ==
  ASSUME ProgramTypeOK, ~Stops, NEW p \in Pid, ChildStep(p) \/ ChildSignal(p),
         ~child[p].stopped, child[p].event = "none"
  PROVE  ~child'[p].stopped /\ child'[p].event = "none"
<1>1. child[p] \in ChildRecord /\ child[p].stopped = FALSE
  BY DEF ProgramTypeOK, ChildRecord
<1>2. CASE OpenStdin(p) \/ OpenStdout(p) \/ OpenStderr(p)
  BY <1>1, <1>2 DEF OpenStdin, OpenStdout, OpenStderr, Opened, ProgramTypeOK, ChildRecord
<1>3. CASE OpenFails(p) \/ ChildSucceeds(p) \/ ChildFails(p) \/ ChildKilled(p)
  BY <1>1, <1>3 DEF OpenFails, ChildSucceeds, ChildFails, ChildKilled, ProgramTypeOK, ChildRecord
<1>4. ~ChildStops(p) /\ ~ChildContinues(p)
  BY DEF ChildStops, ChildContinues
<1> QED
  BY <1>2, <1>3, <1>4 DEF ChildStep, ChildSignal

-----------------------------------------------------------------------------
(***************************************************************************)
(* What the parent's calls do.                                             *)
(***************************************************************************)
LEMMA ForkChanges ==
  ASSUME ProgramTypeOK, NEW p \in Pid, NEW file \in Path, Fork(p, file),
         UNCHANGED <<command, fs>>
  PROVE  /\ ProgramTypeOK'
         /\ child[p].st = "none"
         /\ child'[p].st = "forked"
         /\ child'[p].in = file
         /\ child'[p].event = "none"
         /\ \A p1 \in Pid \ {p} : child'[p1] = child[p1]
<1>1. child' = [child EXCEPT ![p] = [NoChild EXCEPT !.st = "forked", !.in = file]]
  BY DEF Fork
<1>2. NoChild \in ChildRecord /\ NoChild.event = "none"
  BY NoChildType DEF NoChild
<1>3. /\ [NoChild EXCEPT !.st = "forked", !.in = file] \in ChildRecord
      /\ [NoChild EXCEPT !.st = "forked", !.in = file].st = "forked"
      /\ [NoChild EXCEPT !.st = "forked", !.in = file].in = file
      /\ [NoChild EXCEPT !.st = "forked", !.in = file].event = "none"
  BY <1>2 DEF ChildRecord, Statuses
<1> QED
  BY <1>1, <1>3 DEF Fork, ProgramTypeOK

\* An ended child leaves the process table; another one has no news any more.
LEMMA ReapChanges ==
  ASSUME ProgramTypeOK, NEW p \in Pid, Reap(p)
  PROVE  /\ child' \in [Pid -> ChildRecord]
         /\ child'[p].st = IF Ended(p) THEN "none" ELSE child[p].st
         /\ \A p1 \in Pid \ {p} : child'[p1] = child[p1]
<1>1. child' = [child EXCEPT ![p] = IF Ended(p) THEN NoChild
                                    ELSE [child[p] EXCEPT !.event = "none"]]
  BY DEF Reap
<1>2. child[p] \in ChildRecord /\ NoChild \in ChildRecord /\ NoChild.st = "none"
  BY NoChildType DEF ProgramTypeOK, NoChild
<1>3. /\ [child[p] EXCEPT !.event = "none"] \in ChildRecord
      /\ [child[p] EXCEPT !.event = "none"].st = child[p].st
  BY <1>2 DEF ChildRecord, Events
<1> QED
  BY <1>1, <1>2, <1>3 DEF ProgramTypeOK

\* A child that has not been waited for to its end stays so, unless it is this.
LEMMA ReapKeepsOthers ==
  ASSUME ProgramTypeOK, NEW p \in Pid, Reap(p), NEW q, Unreaped(q)
  PROVE  Unreaped(q)' \/ q \in {Out(p), Err(p)}
  BY ReapChanges DEF Unreaped

\* The copy of stdin is nobody's output.
LEMMA TmpIsNoOutput == ~Unreaped(Tmp)
  BY Names DEF Unreaped

LEMMA RemovedChanges ==
  ASSUME ProgramTypeOK, NEW S, fs' = Removed(S)
  PROVE  /\ fs' \in [Path -> Data \cup {Absent}]
         /\ \A q \in Path : fs'[q] = IF q \in S THEN Absent ELSE fs[q]
  BY DEF ProgramTypeOK, Removed

LEMMA ProgramInitType ==
  ASSUME NEW given, \A i \in Inputs : given[i] \in Data \cup {Absent},
         ProgramInit(given)
  PROVE  /\ ProgramTypeOK
         /\ \A p \in Pid : child[p].st = "none"
         /\ \A q \in Created : ~Exists(q)
         /\ \A i \in Inputs : fs[In(i)] = given[i]
<1>1. \A q \in Path \ Created : \E i \in Inputs : q = In(i) /\ q[2] = i
  BY DEF Path, Created, In
<1>2. \A q \in Path \ Created : given[q[2]] \in Data \cup {Absent}
  BY <1>1
<1>3. fs \in [Path -> Data \cup {Absent}]
  BY <1>2 DEF ProgramInit
<1>4. \A i \in Inputs : fs[In(i)] = given[i]
  BY Names DEF ProgramInit, In
<1>5. \A q \in Created : ~Exists(q)
  BY Names DEF ProgramInit, Exists
<1> QED
  BY <1>3, <1>4, <1>5, NoChildType DEF ProgramInit, ProgramTypeOK, NoChild

-----------------------------------------------------------------------------
(***************************************************************************)
(* A run under way, as far as its record and the files have it: the input  *)
(* is neither of the outputs, what a running command has read is still     *)
(* there, and so is the output file; one that succeeded left exactly what  *)
(* the command makes of the input.                                         *)
(***************************************************************************)
RunOf(p) ==
  LET input == child[p].in
  IN  /\ child[p].st # "none" /\ ~child[p].stopped
      /\ child[p].event = "none"
      /\ input \in Path \ {Out(p), Err(p)}
      /\ child[p].st \in {"reading", "writing", "running"} =>
            fs[input] \in Data /\ child[p].stdin = fs[input]
      /\ child[p].st \in {"writing", "running"} => Exists(Out(p))
      /\ child[p].st = "exited" /\ child[p].code = EXIT_SUCCESS =>
            fs[input] \in Data /\ fs[Out(p)] = command[fs[input]]

\* Without stops a child takes its own run from one such state to the next.
LEMMA ChildKeepsRun ==
  ASSUME ProgramTypeOK, ~Stops, NEW p \in Pid, ChildStep(p) \/ ChildSignal(p),
         RunOf(p)
  PROVE  RunOf(p)' /\ child'[p].in = child[p].in
<1> DEFINE input == child[p].in
<1>1. /\ child[p] \in ChildRecord /\ child[p].st # "none"
      /\ child[p].stopped = FALSE /\ child[p].event = "none"
      /\ input \in Path \ {Out(p), Err(p)}
      /\ {Out(p), Err(p)} \subseteq Path
      /\ Out(p) # Err(p)
  BY Names DEF RunOf, ProgramTypeOK, ChildRecord
<1>2. fs'[input] = fs[input] /\ child'[p].st # "none" /\ FilesEffect(p)
  BY <1>1, ChildChanges, StepEffect, SignalEffect
<1>3. fs[input] \in Data \cup {Absent}
  BY <1>1 DEF ProgramTypeOK
<1>4. ASSUME NEW st, st \in {"reading", "writing", "running"}, Opened(p, st), fs[input] # Absent,
             st # "reading" => fs'[Out(p)] # Absent
      PROVE  RunOf(p)' /\ child'[p].in = child[p].in
  <2>1. st \in Statuses \ {"none", "forked"}
    BY <1>4 DEF Statuses
  <2>2. /\ child'[p].st = st /\ child'[p].in = input
        /\ child'[p].stdin = fs[input]
        /\ child'[p].stopped = FALSE /\ child'[p].event = "none"
    BY <1>1, <1>2, <1>4, <2>1, OpenedChanges
  <2> QED
    BY <1>1, <1>2, <1>3, <1>4, <2>2 DEF RunOf, Exists
<1>5. CASE OpenStdin(p)
  <2>1. Opened(p, "reading") /\ fs[input] # Absent
    BY <1>5 DEF OpenStdin
  <2> QED
    BY <1>4, <2>1
<1>6. CASE OpenStdout(p)
  <2>1. fs[input] \in Data /\ fs'[Out(p)] # Absent
    BY <1>1, <1>6, MakesFile DEF OpenStdout, At, RunOf, Exists
  <2>2. Opened(p, "writing") /\ fs[input] # Absent
    BY <1>6, <2>1, DataAssumption DEF OpenStdout
  <2> QED
    BY <1>4, <2>1, <2>2
<1>7. CASE OpenStderr(p)
  <2>1. fs[input] \in Data /\ fs'[Out(p)] # Absent
    BY <1>1, <1>2, <1>7 DEF OpenStderr, At, RunOf, Exists, FilesEffect
  <2>2. Opened(p, "running") /\ fs[input] # Absent
    BY <1>7, <2>1, DataAssumption DEF OpenStderr
  <2> QED
    BY <1>4, <2>1, <2>2
<1>8. CASE OpenFails(p)
  <2>1. Live(p) /\ Ends(p, "exited", EXIT_FAILURE)
    BY <1>8 DEF OpenFails, Ends, At, Live
  <2>2. /\ child'[p].st = "exited" /\ child'[p].in = input /\ child'[p].code = EXIT_FAILURE
        /\ child'[p].stopped = FALSE /\ child'[p].event = "none"
    BY <1>1, <2>1, ExitCodes, EndChanges
  <2> QED
    BY <1>1, <2>2 DEF RunOf, EXIT_FAILURE, EXIT_SUCCESS
<1>9. CASE ChildSucceeds(p)
  <2>1. /\ child'[p].st = "exited" /\ child'[p].in = input
        /\ child'[p].stopped = FALSE /\ child'[p].event = "none"
    <3>1. Live(p) /\ Ends(p, "exited", EXIT_SUCCESS)
      BY <1>9 DEF ChildSucceeds, Ends, At, Live
    <3> QED
      BY <1>1, <3>1, ExitCodes, EndChanges
  <2>2. fs[input] \in Data /\ fs'[Out(p)] = command[fs[input]]
    BY <1>1, <1>9 DEF ChildSucceeds, Write, RunOf, Result, At, ProgramTypeOK, Exists
  <2> QED
    BY <1>1, <1>2, <1>9, <2>1, <2>2 DEF RunOf, ChildSucceeds
<1>10. CASE ChildFails(p)
  <2>1. PICK c \in FailCodes :
          Live(p) /\ Ends(p, "exited", c)
    BY <1>10 DEF ChildFails, Ends, At, Live
  <2>2. /\ child'[p].st = "exited" /\ child'[p].in = input /\ child'[p].code = c
        /\ child'[p].stopped = FALSE /\ child'[p].event = "none"
    BY <1>1, <2>1, ExitCodes, EndChanges
  <2>3. c # EXIT_SUCCESS
    BY ProcessAssumption DEF EXIT_SUCCESS
  <2> QED
    BY <1>1, <2>2, <2>3 DEF RunOf
<1>11. CASE ChildKilled(p)
  <2>1. /\ child'[p].st = "killed" /\ child'[p].in = input
        /\ child'[p].stopped = FALSE /\ child'[p].event = "none"
    BY <1>1, <1>11, KilledChanges
  <2> QED
    BY <1>1, <2>1 DEF RunOf
<1>12. ~ChildStops(p) /\ ~ChildContinues(p)
  BY <1>1 DEF ChildStops, ChildContinues
<1> QED
  BY <1>5, <1>6, <1>7, <1>8, <1>9, <1>10, <1>11, <1>12 DEF ChildStep, ChildSignal

\* When such a run is waited for it is over, and status 0 means success.
LEMMA WaitedFor ==
  ASSUME ProgramTypeOK, NEW p \in Pid, RunOf(p), Waitable(p)
  PROVE  /\ Ended(p)
         /\ WaitStatus(p) = 0 =>
              /\ fs[child[p].in] \in Data
              /\ fs[Out(p)] = command[fs[child[p].in]]
  BY DEF RunOf, Waitable, Ended, WaitStatus, EXIT_SUCCESS

\* A run just forked, with an input other than the files it will make.
LEMMA ForkStartsRun ==
  ASSUME ProgramTypeOK, NEW p \in Pid, NEW file \in Path \ {Out(p), Err(p)},
         Fork(p, file), UNCHANGED <<command, fs>>
  PROVE  RunOf(p)'
<1>1. child'[p].st = "forked" /\ child'[p].in = file /\ child'[p].event = "none"
  BY ForkChanges
<1>2. child'[p].stopped = FALSE
  BY DEF Fork, NoChild, ProgramTypeOK
<1> QED
  BY <1>1, <1>2 DEF RunOf

\* Fork takes a process id whose files are gone, unless ids may collide.
LEMMA FreshOutputs ==
  ASSUME ~PidsCollide, NEW p \in Pid, NEW file, Fork(p, file)
  PROVE  ~Exists(Out(p)) /\ ~Exists(Err(p))
  BY DEF Fork, Exists
=============================================================================
