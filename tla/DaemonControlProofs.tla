------------------------ MODULE DaemonControlProofs ------------------------
(***************************************************************************)
(* Proofs about the daemon manager and the settings page: for any number   *)
(* of spawned daemons, commands under way and relaunches, no daemon gets   *)
(* out of the manager's hands, the page's pending action is a real one,    *)
(* and page and storage agree on the launch settings.                      *)
(***************************************************************************)
EXTENDS DaemonControl, SequenceTheorems, TLAPS

\* The commands wait in line: only the first has begun, and none is on its way
\* to spawn a daemon while the manager has one.
QueueInv ==
  /\ \A i \in DOMAIN calls : i # 1 => calls[i].pc = "start"
  /\ \A i \in DOMAIN calls : calls[i].pc # "start" => calls[i].kind \in {"ensure", "restart"}
  /\ \A i \in DOMAIN calls : calls[i].pc \in {"spawn", "store"} => child = None

-----------------------------------------------------------------------------
(***************************************************************************)
(* Queues.                                                                 *)
(***************************************************************************)
\* What is left of a line when its first element has gone.
LEMMA RestOf ==
  ASSUME NEW S, NEW q \in Seq(S), q # <<>>
  PROVE  /\ Tail(q) \in Seq(S) /\ Len(Tail(q)) = Len(q) - 1 /\ Head(q) = q[1] /\ Head(q) \in S
         /\ \A i \in 1..(Len(q) - 1) : Tail(q)[i] = q[i + 1]
  OBVIOUS

\* What is left when the first has returned.
LEMMA FirstRemoved ==
  ASSUME NEW S, NEW q \in Seq(S), q # <<>>
  PROVE  RemoveAt(q, 1) = Tail(q)
<1>1. SubSeq(q, 1, 0) = <<>>
  BY SubSeqEmpty
<1>2. SubSeq(q, 2, Len(q)) = Tail(q)
  BY TailIsSubSeq
<1>3. RemoveAt(q, 1) = SubSeq(q, 1, 0) \o SubSeq(q, 2, Len(q))
  BY DEF RemoveAt
<1>4. <<>> \o Tail(q) = Tail(q)
  BY RestOf, ConcatEmptySeq
<1>5. QED
  BY <1>1, <1>2, <1>3, <1>4

\* A line with one more element at its end.
LEMMA Added ==
  ASSUME NEW S, NEW q \in Seq(S), NEW e \in S
  PROVE  /\ Append(q, e) \in Seq(S) /\ Len(Append(q, e)) = Len(q) + 1
         /\ \A i \in 1..Len(q) : Append(q, e)[i] = q[i]
         /\ Append(q, e)[Len(q) + 1] = e
  OBVIOUS

\* Two lines, one after the other.
LEMMA Concatenated ==
  ASSUME NEW S, NEW q \in Seq(S), NEW r \in Seq(S)
  PROVE  /\ q \o r \in Seq(S) /\ Len(q \o r) = Len(q) + Len(r)
         /\ \A i \in 1..Len(q) : (q \o r)[i] = q[i]
         /\ \A i \in 1..(Len(q) + Len(r)) : i > Len(q) => (q \o r)[i] = r[i - Len(q)]
  OBVIOUS

\* A new command waits at the end of the line.
LEMMA Invoked ==
  ASSUME NEW k \in Kind, NEW by \in Caller
  PROVE  /\ Invoke(k, by) \in Call
         /\ Invoke(k, by).kind = k /\ Invoke(k, by).by = by /\ Invoke(k, by).pc = "start"
  BY DEF Invoke, Call

\* The two lines of commands and answers, element by element.
LEMMA Lines ==
  ASSUME TypeOK
  PROVE  /\ calls \in Seq(Call) /\ answers \in Seq(Answer)
         /\ DOMAIN calls = 1..Len(calls) /\ DOMAIN answers = 1..Len(answers)
         /\ Len(calls) \in Nat /\ Len(answers) \in Nat
         /\ \A i \in DOMAIN calls : calls[i] \in Call
         /\ \A i \in DOMAIN answers : answers[i] \in Answer
  BY DEF TypeOK

\* The first command advances to another point.
LEMMA Advance ==
  ASSUME TypeOK, 1 \in DOMAIN calls, NEW pc, NEW pid \in Pid \union {None},
         pc \in {"start", "ensure", "spawn", "store", "waitChild", "waitSpawn"},
         calls' = [calls EXCEPT ![1].pc = pc, ![1].pid = pid]
  PROVE  /\ calls' \in Seq(Call) /\ Len(calls') = Len(calls) /\ DOMAIN calls' = DOMAIN calls
         /\ calls'[1].kind = calls[1].kind /\ calls'[1].by = calls[1].by
         /\ calls'[1].pc = pc /\ calls'[1].pid = pid
         /\ \A i \in DOMAIN calls : i # 1 => calls'[i] = calls[i]
<1> DEFINE new == [calls[1] EXCEPT !.pc = pc, !.pid = pid]
<1>1. calls[1] \in Call
  BY Lines
<1>2. /\ new \in Call /\ new.kind = calls[1].kind /\ new.by = calls[1].by
      /\ new.pc = pc /\ new.pid = pid
  BY <1>1 DEF Call
<1>3. calls' = [calls EXCEPT ![1] = new]
  OBVIOUS
<1> HIDE DEF new
<1>4. QED
  BY <1>2, <1>3, Lines

\* What a command that goes on to its next point leaves alone.
LEMMA Went ==
  ASSUME TypeOK, 1 \in DOMAIN calls, NEW pc,
         pc \in {"start", "ensure", "spawn", "store", "waitChild", "waitSpawn"}, Goto(1, pc)
  PROVE  /\ calls' \in Seq(Call) /\ Len(calls') = Len(calls) /\ DOMAIN calls' = DOMAIN calls
         /\ calls'[1].kind = calls[1].kind /\ calls'[1].by = calls[1].by
         /\ calls'[1].pc = pc /\ calls'[1].pid = calls[1].pid
         /\ \A i \in DOMAIN calls : i # 1 => calls'[i] = calls[i]
         /\ answers' = answers
<1> DEFINE new == [calls[1] EXCEPT !.pc = pc]
<1>1. calls[1] \in Call
  BY Lines
<1>2. /\ new \in Call /\ new.kind = calls[1].kind /\ new.by = calls[1].by
      /\ new.pc = pc /\ new.pid = calls[1].pid
  BY <1>1 DEF Call
<1>3. calls' = [calls EXCEPT ![1] = new] /\ answers' = answers
  BY DEF Goto
<1> HIDE DEF new
<1>4. QED
  BY <1>2, <1>3, Lines

\* The first command returns.
LEMMA Returned ==
  ASSUME TypeOK, 1 \in DOMAIN calls, NEW ok \in BOOLEAN, NEW runtime \in Runtime \union {None},
         Return(1, ok, runtime)
  PROVE  /\ calls' \in Seq(Call) /\ answers' \in Seq(Answer)
         /\ DOMAIN calls' = 1..(Len(calls) - 1) /\ DOMAIN answers' = 1..(Len(answers) + 1)
         /\ \A i \in 1..(Len(calls) - 1) : calls'[i] = calls[i + 1]
         /\ \A i \in 1..Len(answers) : answers'[i] = answers[i]
         /\ answers'[Len(answers) + 1].kind = calls[1].kind
         /\ answers'[Len(answers) + 1].by = calls[1].by
<1> DEFINE a == [kind |-> calls[1].kind, by |-> calls[1].by, ok |-> ok, runtime |-> runtime]
<1>1. calls[1] \in Call /\ calls # <<>>
  BY Lines
<1>2. a \in Answer /\ a.kind = calls[1].kind /\ a.by = calls[1].by
  BY <1>1 DEF Call, Answer, Button
<1>3. calls' = RemoveAt(calls, 1) /\ answers' = Append(answers, a)
  BY DEF Return
<1> HIDE DEF a
<1>4. /\ calls' \in Seq(Call) /\ Len(calls') = Len(calls) - 1
      /\ \A i \in 1..(Len(calls) - 1) : calls'[i] = calls[i + 1]
  <2>1. calls' = Tail(calls)
    BY <1>1, <1>3, Lines, FirstRemoved
  <2>2. QED
    BY <1>1, <2>1, Lines, RestOf
<1>5. /\ answers' \in Seq(Answer) /\ Len(answers') = Len(answers) + 1
      /\ \A i \in 1..Len(answers) : answers'[i] = answers[i]
      /\ answers'[Len(answers) + 1] = a
  BY <1>2, <1>3, Lines, Added
<1>6. QED
  BY <1>2, <1>4, <1>5

\* build_runtime_payload answers with a status, whatever it finds.
LEMMA PayloadType ==
  ASSUME NEW q, NEW c PROVE build_runtime_payload(q, c) \in Runtime
<1>1. (\E p \in DOMAIN q : q[p] = "ready") \in BOOLEAN /\ (c # None) \in BOOLEAN
  BY Zenon
<1>2. QED
  BY <1>1 DEF build_runtime_payload, Runtime

\* What the manager looks at and what it kills have their types.
LEMMA ManagerTypes ==
  ASSUME TypeOK
  PROVE  /\ refresh_managed_daemon \in Pid \union {None}
         /\ \A c : KillChild(c) \in [Pid \union {Operator} -> {"none", "starting", "ready", "dead"}]
  BY DEF TypeOK, refresh_managed_daemon, KillChild

\* Commands are added behind those in line.
LineGrows ==
  /\ calls' \in Seq(Call) /\ Len(calls) <= Len(calls')
  /\ \A i \in 1..Len(calls) : calls'[i] = calls[i]
  /\ \A i \in 1..Len(calls') : i > Len(calls) => calls'[i].pc = "start"

\* An invoked command waits at the end of the line.
LEMMA OneMore ==
  ASSUME TypeOK, NEW k \in Kind, NEW by \in Caller, calls' = Append(calls, Invoke(k, by))
  PROVE  LineGrows /\ calls'[Len(calls) + 1].kind = k /\ calls'[Len(calls) + 1].by = by
         /\ Len(calls') = Len(calls) + 1
<1> DEFINE c == Invoke(k, by)
<1>1. c \in Call /\ c.kind = k /\ c.by = by /\ c.pc = "start"
  BY Invoked
<1> HIDE DEF c
<1>2. calls' = Append(calls, c)
  BY DEF c
<1>3. /\ calls' \in Seq(Call) /\ Len(calls') = Len(calls) + 1
      /\ \A i \in 1..Len(calls) : calls'[i] = calls[i]
      /\ calls'[Len(calls) + 1] = c
  BY <1>1, <1>2, Added, Lines
<1>4. \A i \in 1..Len(calls') : i > Len(calls) => i = Len(calls) + 1
  BY <1>3, Lines
<1>5. QED
  BY <1>1, <1>3, <1>4, Lines DEF LineGrows

\* A line that stays as it is has grown by nothing.
LEMMA LineStays == ASSUME TypeOK, calls' = calls PROVE LineGrows
  BY Lines DEF LineGrows

\* The autostart effect invokes a command or does nothing.
LEMMA AutostartGrows ==
  ASSUME TypeOK, NEW s \in Settings, AutostartEffect(s)
  PROVE  LineGrows /\ triggered' \in BOOLEAN
<1> DEFINE a == IF shell THEN <<>> ELSE <<Invoke("defaults", "load")>>
           b == IF s.autostart /\ ~triggered THEN <<Invoke("ensure", "auto")>> ELSE <<>>
<1>1. Invoke("defaults", "load") \in Call /\ Invoke("defaults", "load").pc = "start"
  BY Invoked DEF Kind, Caller
<1>2. Invoke("ensure", "auto") \in Call /\ Invoke("ensure", "auto").pc = "start"
  BY Invoked DEF Kind, Caller
<1>3. a \in Seq(Call) /\ \A i \in 1..Len(a) : a[i].pc = "start"
  <2>1. \A c \in Call : <<c>> \in Seq(Call) /\ Len(<<c>>) = 1 /\ <<c>>[1] = c
    OBVIOUS
  <2>2. <<>> \in Seq(Call) /\ Len(<<>>) = 0
    OBVIOUS
  <2>3. QED
    BY <1>1, <2>1, <2>2
<1>4. b \in Seq(Call) /\ \A i \in 1..Len(b) : b[i].pc = "start"
  <2>1. \A c \in Call : <<c>> \in Seq(Call) /\ Len(<<c>>) = 1 /\ <<c>>[1] = c
    OBVIOUS
  <2>2. <<>> \in Seq(Call) /\ Len(<<>>) = 0
    OBVIOUS
  <2>3. QED
    BY <1>2, <2>1, <2>2
<1>5. calls' = (calls \o a) \o b
  BY DEF AutostartEffect
<1> HIDE DEF a, b
<1>6. /\ calls \o a \in Seq(Call) /\ Len(calls \o a) = Len(calls) + Len(a)
      /\ \A i \in 1..Len(calls) : (calls \o a)[i] = calls[i]
      /\ \A i \in 1..(Len(calls) + Len(a)) : i > Len(calls) => (calls \o a)[i] = a[i - Len(calls)]
  BY <1>3, Lines, Concatenated
<1> DEFINE m == calls \o a
<1> HIDE DEF m
<1>7. /\ m \o b \in Seq(Call) /\ Len(m \o b) = Len(m) + Len(b)
      /\ \A i \in 1..Len(m) : (m \o b)[i] = m[i]
      /\ \A i \in 1..(Len(m) + Len(b)) : i > Len(m) => (m \o b)[i] = b[i - Len(m)]
  BY <1>4, <1>6, Concatenated DEF m
<1>8. Len(a) \in Nat /\ Len(b) \in Nat /\ Len(m) \in Nat /\ Len(calls) \in Nat
  BY <1>3, <1>4, <1>6, Lines DEF m
<1>9. \A i \in 1..Len(m) : i > Len(calls) => m[i].pc = "start"
  BY <1>3, <1>6, <1>8 DEF m
<1>10. \A i \in 1..(Len(m) + Len(b)) : i > Len(m) => (m \o b)[i].pc = "start"
  BY <1>4, <1>7, <1>8
<1>11. LineGrows
  <2>1. calls' = m \o b
    BY <1>5 DEF m
  <2>2. Len(m) = Len(calls) + Len(a) /\ \A i \in 1..Len(calls) : m[i] = calls[i]
    BY <1>6 DEF m
  <2>3. calls' \in Seq(Call) /\ Len(calls') = Len(calls) + Len(a) + Len(b)
    BY <1>7, <1>8, <2>1, <2>2
  <2>4. \A i \in 1..Len(calls) : calls'[i] = calls[i]
    BY <1>7, <1>8, <2>1, <2>2
  <2>5. \A i \in 1..Len(calls') : i > Len(calls) => calls'[i].pc = "start"
    BY <1>7, <1>8, <1>9, <1>10, <2>1, <2>2, <2>3
  <2>6. QED
    BY <1>8, <2>3, <2>4, <2>5 DEF LineGrows
<1>12. triggered' \in BOOLEAN
  BY Zenon DEF AutostartEffect
<1>13. QED
  BY <1>11, <1>12

\* A command whose page has gone is the same command.
LEMMA OrphanedCall ==
  ASSUME NEW c \in Call
  PROVE  /\ Orphaned(c) \in Call /\ Orphaned(c).kind = c.kind
         /\ Orphaned(c).pc = c.pc /\ Orphaned(c).pid = c.pid
<1> DEFINE by == CASE c.by = "page" -> "left" [] c.by = "poll" -> "disposed" [] OTHER -> c.by
<1>1. by \in Caller
  BY DEF Call, Caller
<1>2. Orphaned(c) = [c EXCEPT !.by = by]
  BY DEF Orphaned
<1> HIDE DEF by
<1>3. QED
  BY <1>1, <1>2 DEF Call

\* An answer whose page has gone is still an answer.
LEMMA OrphanedAnswer == ASSUME NEW a \in Answer PROVE Orphaned(a) \in Answer
<1> DEFINE by == CASE a.by = "page" -> "left" [] a.by = "poll" -> "disposed" [] OTHER -> a.by
<1>1. by \in Caller
  BY DEF Answer, Caller
<1>2. Orphaned(a) = [a EXCEPT !.by = by]
  BY DEF Orphaned
<1> HIDE DEF by
<1>3. QED
  BY <1>1, <1>2 DEF Answer
-----------------------------------------------------------------------------
(***************************************************************************)
(* Types.                                                                  *)
(***************************************************************************)
\* The launch of the application has the declared types.
LEMMA InitType == Init => TypeOK
<1> SUFFICES ASSUME Init PROVE TypeOK
  OBVIOUS
<1>1. gate \in BOOLEAN /\ shell \in BOOLEAN /\ triggered \in BOOLEAN /\ tab \in BOOLEAN
      /\ wiped \in BOOLEAN
  BY Zenon DEF Init
<1>2. stored \in Settings /\ settings \in Settings
  BY DEF Init, Settings, Path
<1>3. calls \in Seq(Call) /\ answers \in Seq(Answer)
  <2>1. <<>> \in Seq(Call) /\ <<>> \in Seq(Answer)
    OBVIOUS
  <2>2. calls = <<>> /\ answers = <<>>
    BY DEF Init
  <2>3. QED
    BY <2>1, <2>2
<1>4. /\ proc \in [Pid \union {Operator} -> {"none", "starting", "ready", "dead"}]
      /\ child \in Pid \union {None} /\ spawned \subseteq Pid
  BY DEF Init
<1>5. /\ busy \in Button \union {None} /\ feedback \in {"info", "success", "error", None}
      /\ shown \in Runtime \union {None} /\ moves \in 0..MaxMoves
  <2>1. busy = None /\ feedback = None /\ shown = None /\ moves = 0
    BY DEF Init
  <2>2. 0 \in 0..MaxMoves
    BY ControlAssumption
  <2>3. QED
    BY <2>1, <2>2, Zenon
<1>6. QED
  BY <1>1, <1>2, <1>3, <1>4, <1>5 DEF TypeOK

\* What the manager's part of a step keeps.
ManagerType ==
  /\ proc' \in [Pid \union {Operator} -> {"none", "starting", "ready", "dead"}]
  /\ child' \in Pid \union {None} /\ spawned' \subseteq Pid
  /\ calls' \in Seq(Call) /\ answers' \in Seq(Answer)

\* Every step of the command at the head of the line keeps the manager's types.
LEMMA CommandType ==
  ASSUME TypeOK, 1 \in DOMAIN calls,
         \/ daemon_default_paths(1) \/ daemon_runtime_status(1)
         \/ stop_managed_daemon(1) \/ restart_managed_daemon(1)
         \/ EnsureLooks(1) \/ EnsureSpawns(1) \/ EnsureStores(1)
         \/ WaitSucceeds(1) \/ WaitTimesOut(1)
  PROVE  ManagerType
<1> DEFINE Procs == [Pid \union {Operator} -> {"none", "starting", "ready", "dead"}]
<1>1. refresh_managed_daemon \in Pid \union {None} /\ \A c : KillChild(c) \in Procs
  BY ManagerTypes
<1>2. /\ proc \in Procs /\ child \in Pid \union {None} /\ spawned \subseteq Pid
      /\ answers \in Seq(Answer)
  BY DEF TypeOK
<1>3. calls[1] \in Call
  BY Lines
<1>4. \A q, c : build_runtime_payload(q, c) \in Runtime \union {None}
  BY PayloadType
<1>5. ASSUME NEW ok \in BOOLEAN, NEW r \in Runtime \union {None}, Return(1, ok, r)
      PROVE  calls' \in Seq(Call) /\ answers' \in Seq(Answer)
  BY <1>5, Returned
<1>6. CASE daemon_default_paths(1)
  BY <1>2, <1>5, <1>6 DEF daemon_default_paths, manager, ManagerType
<1>7. CASE daemon_runtime_status(1)
  BY <1>1, <1>2, <1>4, <1>5, <1>7 DEF daemon_runtime_status, ManagerType
<1>8. CASE stop_managed_daemon(1)
  BY <1>1, <1>2, <1>4, <1>5, <1>8 DEF stop_managed_daemon, ManagerType
<1>9. CASE restart_managed_daemon(1)
  BY <1>1, <1>2, <1>9, Went DEF restart_managed_daemon, ManagerType
<1>10. CASE EnsureLooks(1)
  <2>1. CASE Reachable
    BY <1>1, <1>2, <1>4, <1>5, <1>10, <2>1 DEF EnsureLooks, ManagerType
  <2>2. CASE ~Reachable
    BY <1>1, <1>2, <1>10, <2>2, Went DEF EnsureLooks, ManagerType
  <2>3. QED
    BY <2>1, <2>2
<1>11. CASE EnsureSpawns(1)
  <2>1. CASE Return(1, FALSE, None) /\ UNCHANGED <<proc, spawned>>
    BY <1>2, <1>5, <1>11, <2>1 DEF EnsureSpawns, ManagerType
  <2>2. ASSUME NEW p \in Pid, proc' = [proc EXCEPT ![p] = "starting"],
               spawned' = spawned \union {p},
               calls' = [calls EXCEPT ![1].pc = "store", ![1].pid = p], UNCHANGED answers
        PROVE  ManagerType
    <3>1. calls' \in Seq(Call)
      BY <2>2, Advance
    <3>2. proc' \in Procs /\ spawned' \subseteq Pid
      BY <1>2, <2>2
    <3>3. QED
      BY <1>2, <1>11, <2>2, <3>1, <3>2 DEF EnsureSpawns, ManagerType
  <2>3. QED
    BY <1>11, <2>1, <2>2 DEF EnsureSpawns
<1>12. CASE EnsureStores(1)
  <2>1. calls[1].pid \in Pid \union {None}
    BY <1>3 DEF Call
  <2>2. QED
    BY <1>2, <1>12, <2>1, Went DEF EnsureStores, ManagerType
<1>13. CASE WaitSucceeds(1)
  BY <1>1, <1>2, <1>4, <1>5, <1>13 DEF WaitSucceeds, ManagerType
<1>14. CASE WaitTimesOut(1)
  BY <1>1, <1>2, <1>5, <1>14 DEF WaitTimesOut, ManagerType
<1>15. QED
  BY <1>6, <1>7, <1>8, <1>9, <1>10, <1>11, <1>12, <1>13, <1>14

\* A daemon process that starts or exits keeps all types.
LEMMA ProcessType ==
  ASSUME TypeOK, Process PROVE TypeOK'
<1>1. proc' \in [Pid \union {Operator} -> {"none", "starting", "ready", "dead"}]
  BY DEF TypeOK, Process, DaemonListens, DaemonExits, OperatorStarts
<1>2. QED
  BY <1>1 DEF TypeOK, Process, windows, page

\* The moves of the operator are counted up to their bound.
LEMMA MoveType == ASSUME TypeOK, Move PROVE moves' \in 0..MaxMoves
  BY ControlAssumption DEF TypeOK, Move

\* Normalised launch settings: the flag stays, the path is sanitised.
LEMMA NormalType ==
  ASSUME NEW s \in Settings
  PROVE  /\ normalizeDaemonSettings(s) \in Settings
         /\ normalizeDaemonSettings(s).autostart = s.autostart
         /\ normalizeDaemonSettings(s).exe = sanitizeDaemonPath(s.exe)
         /\ sanitizeDaemonPath(s.exe) \in Path
<1>1. sanitizeDaemonPath(s.exe) \in Path
  BY DEF sanitizeDaemonPath, Settings, Path
<1>2. normalizeDaemonSettings(s) = [s EXCEPT !.exe = sanitizeDaemonPath(s.exe)]
  BY DEF normalizeDaemonSettings
<1>3. QED
  BY <1>1, <1>2 DEF Settings

\* The launch settings after the detected paths have filled the empty fields.
LEMMA DefaultsType ==
  ASSUME TypeOK, NEW a, UseDefaults(a)
  PROVE  /\ LineGrows /\ settings' \in Settings
         /\ settings'.autostart = settings.autostart
         /\ settings'.exe = settings.exe \/ (settings.exe = "" /\ settings'.exe = Default)
<1>1. settings \in Settings
  BY DEF TypeOK
<1>2. CASE a.kind = "defaults"
  <2> DEFINE exe == IF settings.exe = "" THEN Default ELSE settings.exe
  <2>1. exe \in Path
    BY <1>1, ControlAssumption DEF Settings, Path
  <2>2. settings' = [settings EXCEPT !.exe = exe]
    BY <1>2 DEF UseDefaults
  <2> HIDE DEF exe
  <2>3. settings' \in Settings /\ settings'.autostart = settings.autostart /\ settings'.exe = exe
    BY <1>1, <2>1, <2>2 DEF Settings
  <2>4. LineGrows
    BY <1>2, OneMore DEF UseDefaults, Kind, Caller
  <2>5. QED
    BY <2>3, <2>4 DEF exe
<1>3. CASE a.kind # "defaults"
  BY <1>1, <1>3, LineStays DEF UseDefaults
<1>4. QED
  BY <1>2, <1>3

\* Leaving the settings page changes only who waits for an answer.
LEMMA CloseLines ==
  ASSUME TypeOK, CloseSettings
  PROVE  /\ calls' \in Seq(Call) /\ answers' \in Seq(Answer)
         /\ DOMAIN calls' = DOMAIN calls
         /\ \A i \in DOMAIN calls : /\ calls'[i].kind = calls[i].kind
                                    /\ calls'[i].pc = calls[i].pc /\ calls'[i].pid = calls[i].pid
<1>1. calls' = [i \in DOMAIN calls |-> Orphaned(calls[i])]
  BY DEF CloseSettings
<1>2. answers' = [i \in DOMAIN answers |-> Orphaned(answers[i])]
  BY DEF CloseSettings
<1>3. \A i \in DOMAIN calls : /\ Orphaned(calls[i]) \in Call
                              /\ Orphaned(calls[i]).kind = calls[i].kind
                              /\ Orphaned(calls[i]).pc = calls[i].pc
                              /\ Orphaned(calls[i]).pid = calls[i].pid
  BY Lines, OrphanedCall
<1>4. \A i \in DOMAIN answers : Orphaned(answers[i]) \in Answer
  BY Lines, OrphanedAnswer
<1>5. calls' \in Seq(Call) /\ DOMAIN calls' = DOMAIN calls
  BY <1>1, <1>3, Lines
<1>6. answers' \in Seq(Answer)
  BY <1>2, <1>4, Lines
<1>7. QED
  BY <1>1, <1>3, <1>5, <1>6

\* A button puts its command into the line; a request to the daemon itself is
\* not one of the commands, and its answer is on the way at once.
LEMMA ClickLines ==
  ASSUME TypeOK, NEW b \in Button \ {"defaults"}, Click(b)
  PROVE  /\ LineGrows /\ answers' \in Seq(Answer)
         /\ \A i \in 1..Len(answers) : answers'[i] = answers[i]
         /\ \/ /\ Len(calls) + 1 \in DOMAIN calls'
               /\ calls'[Len(calls) + 1].kind = b /\ calls'[Len(calls) + 1].by = "page"
            \/ /\ Len(answers) + 1 \in DOMAIN answers'
               /\ answers'[Len(answers) + 1].kind = b /\ answers'[Len(answers) + 1].by = "page"
         /\ Len(answers) <= Len(answers')
<1>1. CASE b = "request"
  <2>1. PICK ok \in {FALSE, Reachable} :
          answers' = Append(answers, [kind |-> b, by |-> "page", ok |-> ok, runtime |-> None])
    BY <1>1 DEF Click
  <2> DEFINE a == [kind |-> b, by |-> "page", ok |-> ok, runtime |-> None]
  <2>2. ok \in BOOLEAN
    BY <2>1, Zenon DEF Reachable
  <2>3. a \in Answer /\ a.kind = b /\ a.by = "page"
    BY <2>2 DEF Answer, Caller
  <2>4. answers' = Append(answers, a)
    BY <2>1
  <2> HIDE DEF a
  <2>5. /\ answers' \in Seq(Answer) /\ Len(answers') = Len(answers) + 1
        /\ \A i \in 1..Len(answers) : answers'[i] = answers[i]
        /\ answers'[Len(answers) + 1] = a
    BY <2>3, <2>4, Added, Lines
  <2>6. calls' = calls
    BY <1>1 DEF Click
  <2>7. QED
    BY <2>3, <2>5, <2>6, Lines, LineStays
<1>2. CASE b # "request"
  <2>1. b \in Kind /\ "page" \in Caller
    BY <1>2 DEF Button, Caller
  <2>2. calls' = Append(calls, Invoke(b, "page")) /\ answers' = answers
    BY <1>2 DEF Click
  <2>3. LineGrows /\ calls'[Len(calls) + 1].kind = b /\ calls'[Len(calls) + 1].by = "page"
        /\ Len(calls') = Len(calls) + 1
    BY <2>1, <2>2, OneMore
  <2>4. Len(calls) + 1 \in DOMAIN calls'
    BY <2>3, Lines DEF LineGrows
  <2>5. QED
    BY <2>2, <2>3, <2>4, Lines
<1>3. QED
  BY <1>1, <1>2

\* A script that resumes takes the first answer.
LEMMA ResumeLines ==
  ASSUME TypeOK, Resume
  PROVE  /\ LineGrows /\ settings' \in Settings
         /\ answers' \in Seq(Answer) /\ answers # <<>>
         /\ Len(answers') = Len(answers) - 1
         /\ \A i \in 1..(Len(answers) - 1) : answers'[i] = answers[i + 1]
         /\ Head(answers) = answers[1] /\ answers[1] \in Answer
<1>1. LineGrows /\ settings' \in Settings
  BY DefaultsType DEF Resume
<1>2. answers # <<>> /\ answers' = Tail(answers)
  BY DEF Resume
<1>3. QED
  BY <1>1, <1>2, RestOf, Lines

\* Every step keeps the types: one case per action.
LEMMA StepType == TypeOK /\ [Next]_vars => TypeOK'
<1> SUFFICES ASSUME TypeOK, [Next]_vars PROVE TypeOK'
  OBVIOUS
<1>1. CASE Process
  BY <1>1, ProcessType
<1>2. CASE Command
  <2>1. ManagerType
    BY <1>2, CommandType DEF Command, Turn
  <2>2. QED
    BY <1>2, <2>1 DEF Command, ManagerType, windows, page, TypeOK
<1>3. CASE GateEnsures
  <2>1. calls' \in Seq(Call)
    <3>1. CASE stored.autostart
      BY <1>3, <3>1, OneMore DEF GateEnsures, LineGrows, Kind, Caller
    <3>2. CASE ~stored.autostart
      BY <1>3, <3>2, Lines DEF GateEnsures
    <3>3. QED
      BY <3>1, <3>2
  <2>2. QED
    BY <1>3, <2>1 DEF GateEnsures, manager, page, TypeOK
<1>4. CASE ShellMounts
  <2>1. calls' \in Seq(Call) /\ triggered' \in BOOLEAN
    BY <1>4, AutostartGrows DEF ShellMounts, LineGrows, TypeOK
  <2>2. QED
    BY <1>4, <2>1 DEF ShellMounts, manager, page, TypeOK
<1>5. CASE OpenSettings
  <2>1. calls' \in Seq(Call)
    BY <1>5, OneMore DEF OpenSettings, LineGrows, Kind, Caller
  <2>2. QED
    BY <1>5, <2>1, MoveType DEF OpenSettings, manager, windows, TypeOK
<1>6. CASE CloseSettings
  <2>1. calls' \in Seq(Call) /\ answers' \in Seq(Answer)
    BY <1>6, CloseLines
  <2>2. busy' = None /\ feedback' = None /\ tab' = FALSE
        /\ UNCHANGED <<proc, child, spawned, gate, shell, settings, stored, triggered, wiped,
                       shown, moves>>
    BY <1>6 DEF CloseSettings, manager, windows
  <2>3. busy' \in Button \union {None} /\ feedback' \in {"info", "success", "error", None}
        /\ tab' \in BOOLEAN
    BY <2>2, Zenon
  <2>4. QED
    BY <2>1, <2>2, <2>3 DEF TypeOK
<1>7. ASSUME NEW s \in Settings, SaveSettings(s) PROVE TypeOK'
  <2>1. calls' \in Seq(Call) /\ triggered' \in BOOLEAN
    BY <1>7, AutostartGrows DEF SaveSettings, LineGrows
  <2>2. settings' \in Settings /\ stored' \in Settings
    BY <1>7, NormalType DEF SaveSettings
  <2>3. feedback' \in {"info", "success", "error", None} /\ moves' \in 0..MaxMoves
        /\ wiped' = FALSE
        /\ UNCHANGED <<proc, child, spawned, answers, gate, shell, tab, busy, shown>>
    BY <1>7, MoveType DEF SaveSettings, manager
  <2>4. wiped' \in BOOLEAN
    BY <2>3, Zenon
  <2>5. QED
    BY <2>1, <2>2, <2>3, <2>4 DEF TypeOK
<1>8. ASSUME NEW b \in Button \ {"defaults"}, Click(b) PROVE TypeOK'
  <2>1. calls' \in Seq(Call) /\ answers' \in Seq(Answer)
    BY <1>8, ClickLines DEF LineGrows
  <2>2. busy' \in Button \union {None} /\ feedback' \in {"info", "success", "error", None}
        /\ moves' \in 0..MaxMoves
        /\ UNCHANGED <<proc, child, spawned, gate, shell, settings, stored, triggered, wiped,
                       tab, shown>>
    BY <1>8, MoveType DEF Click, manager, windows
  <2>3. QED
    BY <2>1, <2>2 DEF TypeOK
<1>9. CASE PollTimer
  <2>1. calls' \in Seq(Call)
    BY <1>9, OneMore DEF PollTimer, LineGrows, Kind, Caller
  <2>2. QED
    BY <1>9, <2>1 DEF PollTimer, manager, windows, page, TypeOK
<1>10. CASE Resume
  <2>1. /\ calls' \in Seq(Call) /\ settings' \in Settings /\ answers' \in Seq(Answer)
        /\ Head(answers) \in Answer
    BY <1>10, ResumeLines DEF LineGrows
  <2>2. shown' \in Runtime \union {None}
    BY <1>10, <2>1 DEF Resume, ShowRuntime, TypeOK, Answer
  <2>3. busy' \in Button \union {None} /\ feedback' \in {"info", "success", "error", None}
    BY <1>10 DEF Resume, ShowFeedback, TypeOK
  <2>4. UNCHANGED <<proc, child, spawned, gate, shell, stored, triggered, wiped, tab, moves>>
    BY <1>10 DEF Resume, manager
  <2>5. QED
    BY <2>1, <2>2, <2>3, <2>4 DEF TypeOK
<1>11. CASE Relaunch
  <2>1. child' = None /\ spawned' = {} /\ calls' = <<>> /\ answers' = <<>>
        /\ gate' = FALSE /\ shell' = FALSE /\ triggered' = FALSE /\ tab' = FALSE
        /\ wiped' = FALSE
        /\ busy' = None /\ feedback' = None /\ shown' = None
        /\ UNCHANGED <<proc, stored>>
    BY <1>11 DEF Relaunch
  <2>2. gate' \in BOOLEAN /\ shell' \in BOOLEAN /\ triggered' \in BOOLEAN /\ tab' \in BOOLEAN
        /\ wiped' \in BOOLEAN
    BY <2>1, Zenon
  <2>3. settings' \in Settings
    BY <1>11, NormalType DEF Relaunch, TypeOK
  <2>4. calls' \in Seq(Call) /\ answers' \in Seq(Answer)
    <3>1. <<>> \in Seq(Call) /\ <<>> \in Seq(Answer)
      OBVIOUS
    <3>2. QED
      BY <2>1, <3>1
  <2>5. busy' \in Button \union {None} /\ feedback' \in {"info", "success", "error", None}
        /\ shown' \in Runtime \union {None} /\ child' \in Pid \union {None} /\ spawned' \subseteq Pid
    BY <2>1, Zenon
  <2>6. moves' \in 0..MaxMoves
    BY <1>11, MoveType DEF Relaunch
  <2>7. QED
    BY <2>1, <2>2, <2>3, <2>4, <2>5, <2>6 DEF TypeOK
<1>12. CASE UNCHANGED vars
  BY <1>12 DEF vars, manager, windows, page, TypeOK
<1>13. ASSUME NEW a \in BOOLEAN, NEW e \in {"", "own", settings.exe}
       PROVE  [autostart |-> a, exe |-> e] \in Settings
  BY DEF TypeOK, Settings, Path
<1>14. CASE GateReset
  <2>1. gate' \in BOOLEAN /\ wiped' = TRUE
        /\ UNCHANGED <<proc, child, spawned, calls, answers, shell, settings, triggered, tab,
                       busy, feedback, shown>>
    BY <1>14 DEF GateReset, manager, page
  <2>2. wiped' \in BOOLEAN
    BY <2>1, Zenon
  <2>3. stored' \in Settings
    BY <1>14 DEF GateReset, Unset, Settings, Path
  <2>4. moves' \in 0..MaxMoves
    BY <1>14, MoveType DEF GateReset
  <2>5. QED
    BY <2>1, <2>2, <2>3, <2>4 DEF TypeOK
<1>15. QED
  BY <1>1, <1>2, <1>3, <1>4, <1>5, <1>6, <1>7, <1>8, <1>9, <1>10, <1>11, <1>12, <1>13, <1>14
  DEF Next, Operate

\* Every reachable state of the manager, of the windows and of the settings
\* page has the types of main.rs and SettingsPage.tsx, for any number of
\* daemons, commands and visits.
THEOREM TypeCorrect == Spec => []TypeOK
  BY InitType, StepType, PTL DEF Spec
-----------------------------------------------------------------------------
(***************************************************************************)
(* No daemon is lost.                                                      *)
(***************************************************************************)
DaemonInv == QueueInv /\ NoDaemonLost

\* No process is None.
LEMMA NoneIsNoPid == None \notin Pid
  BY ControlAssumption DEF Pid

\* Invoking a command loses no daemon.
LEMMA GrowsDaemon ==
  ASSUME TypeOK, DaemonInv, LineGrows, UNCHANGED manager PROVE DaemonInv'
<1>1. DOMAIN calls = 1..Len(calls) /\ DOMAIN calls' = 1..Len(calls')
      /\ Len(calls) \in Nat /\ Len(calls') \in Nat
  BY Lines DEF LineGrows
<1>2. \A i \in DOMAIN calls' : calls'[i].pc # "start" => i \in DOMAIN calls /\ calls'[i] = calls[i]
  BY <1>1 DEF LineGrows
<1>3. \A i \in DOMAIN calls : i \in DOMAIN calls' /\ calls'[i] = calls[i]
  BY <1>1 DEF LineGrows
<1>4. QueueInv'
  BY <1>2 DEF DaemonInv, QueueInv, manager
<1>5. NoDaemonLost'
  BY <1>3 DEF DaemonInv, NoDaemonLost, Alive, manager
<1>6. QED
  BY <1>4, <1>5 DEF DaemonInv

\* Unless the first command has a daemon to store, every daemon that runs is
\* the manager's.
LEMMA ChildIsAll ==
  ASSUME TypeOK, DaemonInv, 1 \in DOMAIN calls, calls[1].pc # "store"
  PROVE  \A p \in spawned : Alive(p) => child = p
  BY DEF DaemonInv, QueueInv, NoDaemonLost

\* After a command has returned the line holds only commands yet to begin.
LEMMA ReturnedDaemon ==
  ASSUME TypeOK, DaemonInv, 1 \in DOMAIN calls, NEW ok \in BOOLEAN,
         NEW runtime \in Runtime \union {None}, Return(1, ok, runtime),
         \A p \in spawned' : Alive(p)' => child' = p
  PROVE  DaemonInv'
<1>1. /\ DOMAIN calls' = 1..(Len(calls) - 1)
      /\ \A i \in 1..(Len(calls) - 1) : calls'[i] = calls[i + 1]
  BY Returned
<1>2. \A i \in 1..(Len(calls) - 1) : i + 1 \in DOMAIN calls /\ i + 1 # 1
  BY Lines
<1>3. \A i \in DOMAIN calls' : calls'[i].pc = "start"
  BY <1>1, <1>2 DEF DaemonInv, QueueInv
<1>4. QueueInv'
  BY <1>3 DEF QueueInv
<1>5. NoDaemonLost'
  BY DEF NoDaemonLost
<1>6. QED
  BY <1>4, <1>5 DEF DaemonInv

\* The first command goes on, other than to store a daemon.
LEMMA WentDaemon ==
  ASSUME TypeOK, DaemonInv, 1 \in DOMAIN calls, NEW pc,
         pc \in {"ensure", "spawn", "waitChild", "waitSpawn"}, Goto(1, pc),
         calls[1].kind \in {"ensure", "restart"}, pc = "spawn" => child' = None,
         \A p \in spawned' : Alive(p)' => child' = p
  PROVE  DaemonInv'
<1>1. /\ DOMAIN calls' = DOMAIN calls /\ calls'[1].kind = calls[1].kind /\ calls'[1].pc = pc
      /\ \A i \in DOMAIN calls : i # 1 => calls'[i] = calls[i]
  BY Went
<1>2. \A i \in DOMAIN calls' : i # 1 => calls'[i].pc = "start"
  BY <1>1 DEF DaemonInv, QueueInv
<1>3. QueueInv'
  BY <1>1, <1>2 DEF QueueInv
<1>4. NoDaemonLost'
  BY DEF NoDaemonLost
<1>5. QED
  BY <1>3, <1>4 DEF DaemonInv

\* refresh_managed_daemon keeps a child that is alive.
LEMMA RefreshKeeps ==
  ASSUME TypeOK, NEW p \in Pid, Alive(p), child = p
  PROVE  refresh_managed_daemon = p
  BY DEF Alive, refresh_managed_daemon

\* A daemon that is ended runs no more, the others go on.
LEMMA Killed ==
  ASSUME TypeOK, NEW c, proc' = KillChild(c), NEW p \in Pid, Alive(p)'
  PROVE  p # c /\ Alive(p)
  BY DEF TypeOK, KillChild, Alive

\* No step of a command loses a daemon: a child is replaced only when it is dead
\* or has been killed, and a spawned one is on its way to be stored.
LEMMA CommandDaemon ==
  ASSUME TypeOK, DaemonInv, 1 \in DOMAIN calls,
         \/ daemon_default_paths(1) \/ daemon_runtime_status(1)
         \/ stop_managed_daemon(1) \/ restart_managed_daemon(1)
         \/ EnsureLooks(1) \/ EnsureSpawns(1) \/ EnsureStores(1)
         \/ WaitSucceeds(1) \/ WaitTimesOut(1)
  PROVE  DaemonInv'
<1>1. \A q, c : build_runtime_payload(q, c) \in Runtime \union {None}
  BY PayloadType
<1>2. spawned \subseteq Pid
  BY DEF TypeOK
<1>3. calls[1].pc # "start" => calls[1].kind \in {"ensure", "restart"}
  BY DEF DaemonInv, QueueInv
<1>4. calls[1].pc # "store" => \A p \in spawned : Alive(p) => child = p
  BY ChildIsAll
<1>5. ASSUME calls[1].pc # "store", child' = refresh_managed_daemon, UNCHANGED <<proc, spawned>>
      PROVE  \A p \in spawned' : Alive(p)' => child' = p
  BY <1>2, <1>4, <1>5, RefreshKeeps DEF Alive
<1>6. ASSUME calls[1].pc # "store", proc' = KillChild(refresh_managed_daemon), spawned' = spawned
      PROVE  \A p \in spawned' : ~Alive(p)'
  BY <1>2, <1>4, <1>6, RefreshKeeps, Killed
<1>7. CASE daemon_default_paths(1)
  <2>1. calls[1].pc # "store" /\ UNCHANGED <<proc, child, spawned>> /\ Return(1, TRUE, None)
    BY <1>3, <1>7 DEF daemon_default_paths, manager
  <2>2. \A p \in spawned' : Alive(p)' => child' = p
    BY <1>4, <2>1 DEF Alive
  <2>3. QED
    BY <2>1, <2>2, ReturnedDaemon
<1>8. CASE daemon_runtime_status(1)
  <2>1. calls[1].pc # "store"
    BY <1>3, <1>8 DEF daemon_runtime_status
  <2>2. QED
    BY <1>1, <1>5, <1>8, <2>1, ReturnedDaemon DEF daemon_runtime_status
<1>9. CASE stop_managed_daemon(1)
  <2>1. calls[1].pc # "store"
    BY <1>3, <1>9 DEF stop_managed_daemon
  <2>2. QED
    BY <1>1, <1>6, <1>9, <2>1, ReturnedDaemon DEF stop_managed_daemon
<1>10. CASE restart_managed_daemon(1)
  BY <1>6, <1>10, WentDaemon DEF restart_managed_daemon
<1>11. CASE EnsureLooks(1)
  <2>1. calls[1].pc # "store" /\ calls[1].kind \in {"ensure", "restart"}
    BY <1>3, <1>11 DEF EnsureLooks
  <2>2. \A p \in spawned' : Alive(p)' => child' = p
    BY <1>5, <1>11, <2>1 DEF EnsureLooks
  <2>3. CASE Reachable
    BY <1>1, <1>11, <2>2, <2>3, ReturnedDaemon DEF EnsureLooks
  <2>4. CASE ~Reachable
    BY <1>11, <2>1, <2>2, <2>4, WentDaemon DEF EnsureLooks
  <2>5. QED
    BY <2>3, <2>4
<1>12. CASE EnsureSpawns(1)
  <2>1. child = None /\ child' = None /\ calls[1].pc = "spawn"
    BY <1>12 DEF EnsureSpawns, DaemonInv, QueueInv
  <2>2. \A p \in spawned : ~Alive(p)
    BY <1>2, <1>4, <2>1, NoneIsNoPid
  <2>3. CASE Return(1, FALSE, None) /\ UNCHANGED <<proc, spawned>>
    <3>1. \A p \in spawned' : Alive(p)' => child' = p
      BY <2>2, <2>3 DEF Alive
    <3>2. QED
      BY <2>3, <3>1, ReturnedDaemon
  <2>4. ASSUME NEW p \in Pid, proc' = [proc EXCEPT ![p] = "starting"],
               spawned' = spawned \union {p},
               calls' = [calls EXCEPT ![1].pc = "store", ![1].pid = p], UNCHANGED answers
        PROVE  DaemonInv'
    <3>1. /\ DOMAIN calls' = DOMAIN calls /\ calls'[1].kind = calls[1].kind
          /\ calls'[1].pc = "store" /\ calls'[1].pid = p
          /\ \A i \in DOMAIN calls : i # 1 => calls'[i] = calls[i]
      BY <2>4, Advance
    <3>2. \A i \in DOMAIN calls' : i # 1 => calls'[i].pc = "start"
      BY <3>1 DEF DaemonInv, QueueInv
    <3>3. QueueInv'
      BY <1>3, <2>1, <3>1, <3>2 DEF QueueInv
    <3>4. \A q \in spawned' : Alive(q)' => q = p
      BY <1>2, <2>2, <2>4 DEF Alive, TypeOK
    <3>5. NoDaemonLost'
      BY <3>1, <3>4 DEF NoDaemonLost
    <3>6. QED
      BY <3>3, <3>5 DEF DaemonInv
  <2>5. QED
    BY <1>12, <2>3, <2>4 DEF EnsureSpawns
<1>13. CASE EnsureStores(1)
  <2>1. child = None /\ child' = calls[1].pid /\ calls[1].pc = "store" /\ Goto(1, "waitSpawn")
        /\ UNCHANGED <<proc, spawned>>
    BY <1>13 DEF EnsureStores, DaemonInv, QueueInv
  <2>2. \A p \in spawned : Alive(p) => calls[1].pid = p
    BY <1>2, <2>1, NoneIsNoPid DEF DaemonInv, NoDaemonLost, QueueInv
  <2>3. \A p \in spawned' : Alive(p)' => child' = p
    BY <2>1, <2>2 DEF Alive
  <2>4. QED
    BY <1>3, <2>1, <2>3, WentDaemon
<1>14. CASE WaitSucceeds(1)
  <2>1. calls[1].pc # "store"
    BY <1>14 DEF WaitSucceeds
  <2>2. QED
    BY <1>1, <1>5, <1>14, <2>1, ReturnedDaemon DEF WaitSucceeds
<1>15. CASE WaitTimesOut(1)
  <2>1. calls[1].pc # "store" /\ Return(1, FALSE, None) /\ spawned' = spawned
    BY <1>15 DEF WaitTimesOut
  <2>2. CASE calls[1].pc = "waitSpawn"
    <3>1. proc' = KillChild(child)
      BY <1>15, <2>2 DEF WaitTimesOut
    <3>2. \A p \in spawned' : ~Alive(p)'
      BY <1>2, <1>4, <2>1, <3>1, Killed
    <3>3. QED
      BY <2>1, <3>2, ReturnedDaemon
  <2>3. CASE calls[1].pc # "waitSpawn"
    <3>1. \A p \in spawned' : Alive(p)' => child' = p
      BY <1>4, <1>15, <2>1, <2>3 DEF WaitTimesOut, Alive
    <3>2. QED
      BY <2>1, <3>1, ReturnedDaemon
  <2>4. QED
    BY <2>2, <2>3
<1>16. QED
  BY <1>7, <1>8, <1>9, <1>10, <1>11, <1>12, <1>13, <1>14, <1>15

\* No step loses a daemon.
LEMMA StepDaemon == TypeOK /\ DaemonInv /\ [Next]_vars => DaemonInv'
<1> SUFFICES ASSUME TypeOK, DaemonInv, [Next]_vars PROVE DaemonInv'
  OBVIOUS
<1>1. CASE Process
  <2>1. UNCHANGED <<child, spawned, calls>>
    BY <1>1 DEF Process
  <2>2. \A p \in Pid : Alive(p)' => Alive(p)
    <3>1. Operator \notin Pid
      BY ControlAssumption DEF Operator, Pid
    <3>2. QED
      BY <1>1, <3>1 DEF Process, DaemonListens, DaemonExits, OperatorStarts, Alive, TypeOK
  <2>3. QueueInv'
    BY <2>1 DEF DaemonInv, QueueInv
  <2>4. NoDaemonLost'
    BY <2>1, <2>2 DEF DaemonInv, NoDaemonLost, TypeOK
  <2>5. QED
    BY <2>3, <2>4 DEF DaemonInv
<1>2. CASE Command
  BY <1>2, CommandDaemon DEF Command, Turn
<1>3. CASE GateEnsures
  <2>1. LineGrows
    <3>1. CASE stored.autostart
      BY <1>3, <3>1, OneMore DEF GateEnsures, Kind, Caller
    <3>2. CASE ~stored.autostart
      BY <1>3, <3>2, LineStays DEF GateEnsures
    <3>3. QED
      BY <3>1, <3>2
  <2>2. QED
    BY <1>3, <2>1, GrowsDaemon DEF GateEnsures
<1>4. CASE ShellMounts
  BY <1>4, AutostartGrows, GrowsDaemon DEF ShellMounts, TypeOK
<1>5. CASE OpenSettings
  BY <1>5, OneMore, GrowsDaemon DEF OpenSettings, Kind, Caller
<1>6. CASE CloseSettings
  <2>1. /\ DOMAIN calls' = DOMAIN calls
        /\ \A i \in DOMAIN calls : /\ calls'[i].kind = calls[i].kind
                                   /\ calls'[i].pc = calls[i].pc /\ calls'[i].pid = calls[i].pid
        /\ UNCHANGED <<proc, child, spawned>>
    BY <1>6, CloseLines DEF CloseSettings, manager
  <2>2. QueueInv'
    BY <2>1 DEF DaemonInv, QueueInv
  <2>3. NoDaemonLost'
    BY <2>1 DEF DaemonInv, NoDaemonLost, Alive
  <2>4. QED
    BY <2>2, <2>3 DEF DaemonInv
<1>7. ASSUME NEW s \in Settings, SaveSettings(s) PROVE DaemonInv'
  BY <1>7, AutostartGrows, GrowsDaemon DEF SaveSettings
<1>8. ASSUME NEW b \in Button \ {"defaults"}, Click(b) PROVE DaemonInv'
  BY <1>8, ClickLines, GrowsDaemon DEF Click
<1>9. CASE PollTimer
  BY <1>9, OneMore, GrowsDaemon DEF PollTimer, Kind, Caller
<1>10. CASE Resume
  BY <1>10, ResumeLines, GrowsDaemon DEF Resume
<1>11. CASE Relaunch
  <2>1. DOMAIN calls' = {} /\ spawned' = {}
    BY <1>11 DEF Relaunch
  <2>2. QED
    BY <2>1 DEF DaemonInv, QueueInv, NoDaemonLost
<1>12. CASE UNCHANGED vars
  BY <1>12, LineStays, GrowsDaemon DEF vars
<1>13. ASSUME NEW a \in BOOLEAN, NEW e \in {"", "own", settings.exe}
       PROVE  [autostart |-> a, exe |-> e] \in Settings
  BY DEF TypeOK, Settings, Path
<1>14. CASE GateReset
  BY <1>14, LineStays, GrowsDaemon DEF GateReset
<1>15. QED
  BY <1>1, <1>2, <1>3, <1>4, <1>5, <1>6, <1>7, <1>8, <1>9, <1>10, <1>11, <1>12, <1>13, <1>14
  DEF Next, Operate

\* A daemon this launch has spawned and that still runs is the one the manager
\* can stop, or is about to be (ensure_daemon_running_impl, gate check,
\* autostart effect), for any number of daemons and commands.
THEOREM NoDaemonIsLost == Spec => []NoDaemonLost
<1>1. Init => TypeOK /\ DaemonInv
  <2>1. Init => DaemonInv
    <3>0. DOMAIN <<>> = {}
      OBVIOUS
    <3>1. Init => DOMAIN calls = {} /\ spawned = {}
      BY <3>0, Zenon DEF Init
    <3>2. QED
      BY <3>1 DEF DaemonInv, QueueInv, NoDaemonLost
  <2>2. QED
    BY <2>1, InitType
<1>2. TypeOK /\ DaemonInv /\ [Next]_vars => (TypeOK /\ DaemonInv)'
  BY StepType, StepDaemon
<1>3. DaemonInv => NoDaemonLost
  BY DEF DaemonInv
<1>4. QED
  BY <1>1, <1>2, <1>3, PTL DEF Spec
-----------------------------------------------------------------------------
(***************************************************************************)
(* The launch settings agree.                                              *)
(***************************************************************************)

\* The executable launched for a sanitised path.
Started(p) == IF p = "" THEN Default ELSE p

\* Which daemon settings launch depends on their sanitised path alone.
LEMMA LaunchedPath ==
  ASSUME NEW s \in Settings PROVE Launched(s) = Started(sanitizeDaemonPath(s.exe))
  BY NormalType DEF Launched, Started

\* Sanitising twice is sanitising once, and the detected path stands for none.
LEMMA SameLaunch ==
  ASSUME NEW s \in Settings, NEW t \in Settings,
         \/ t.exe = s.exe \/ t.exe = sanitizeDaemonPath(s.exe)
         \/ (s.exe = "" /\ t.exe = Default)
  PROVE  Launched(t) = Launched(s)
<1>1. /\ Launched(s) = Started(sanitizeDaemonPath(s.exe))
      /\ Launched(t) = Started(sanitizeDaemonPath(t.exe))
  BY LaunchedPath
<1>2. CASE t.exe = s.exe
  BY <1>1, <1>2
<1>3. CASE t.exe = sanitizeDaemonPath(s.exe)
  <2>1. sanitizeDaemonPath(t.exe) = sanitizeDaemonPath(s.exe)
    BY <1>3 DEF sanitizeDaemonPath
  <2>2. QED
    BY <1>1, <2>1
<1>4. CASE s.exe = "" /\ t.exe = Default
  BY <1>1, <1>4, ControlAssumption DEF sanitizeDaemonPath, Started
<1>5. QED
  BY <1>2, <1>3, <1>4

\* Every step keeps page and storage agreed.
LEMMA StepSettings == TypeOK /\ SettingsAgree /\ [Next]_vars => SettingsAgree'
<1> SUFFICES ASSUME TypeOK, SettingsAgree, [Next]_vars PROVE SettingsAgree'
  OBVIOUS
<1>1. settings \in Settings /\ stored \in Settings
  BY DEF TypeOK
<1>2. ASSUME NEW s \in Settings, SaveSettings(s) PROVE SettingsAgree'
  <2>1. settings' = s /\ stored' = normalizeDaemonSettings(s) /\ wiped' = FALSE
    BY <1>2 DEF SaveSettings
  <2>2. /\ normalizeDaemonSettings(s) \in Settings
        /\ normalizeDaemonSettings(s).autostart = s.autostart
        /\ normalizeDaemonSettings(s).exe = sanitizeDaemonPath(s.exe)
    BY NormalType
  <2>3. Launched(normalizeDaemonSettings(s)) = Launched(s)
    BY <2>2, SameLaunch
  <2>4. Launched(settings)' = Launched(s) /\ Launched(stored)' = Launched(normalizeDaemonSettings(s))
    BY <2>1
  <2>5. QED
    BY <2>1, <2>2, <2>3, <2>4 DEF SettingsAgree
<1>3. CASE Relaunch
  <2>1. settings' = normalizeDaemonSettings(stored) /\ stored' = stored /\ wiped' = FALSE
    BY <1>3 DEF Relaunch
  <2>2. /\ normalizeDaemonSettings(stored) \in Settings
        /\ normalizeDaemonSettings(stored).autostart = stored.autostart
        /\ normalizeDaemonSettings(stored).exe = sanitizeDaemonPath(stored.exe)
    BY <1>1, NormalType
  <2>3. Launched(normalizeDaemonSettings(stored)) = Launched(stored)
    BY <1>1, <2>2, SameLaunch
  <2>4. Launched(settings)' = Launched(normalizeDaemonSettings(stored))
        /\ Launched(stored)' = Launched(stored)
    BY <2>1
  <2>5. QED
    BY <2>1, <2>2, <2>3, <2>4 DEF SettingsAgree
<1>4. CASE Resume
  <2>1. stored' = stored /\ wiped' = wiped /\ UseDefaults(Head(answers))
    BY <1>4 DEF Resume
  <2>2. /\ settings' \in Settings /\ settings'.autostart = settings.autostart
        /\ settings'.exe = settings.exe \/ (settings.exe = "" /\ settings'.exe = Default)
    BY <2>1, DefaultsType
  <2>3. Launched(settings') = Launched(settings)
    BY <1>1, <2>2, SameLaunch
  <2>4. Launched(settings)' = Launched(settings') /\ Launched(stored)' = Launched(stored)
    BY <2>1
  <2>5. QED
    BY <2>1, <2>2, <2>3, <2>4 DEF SettingsAgree
<1>5. ASSUME UNCHANGED <<settings, stored, wiped>> PROVE SettingsAgree'
  <2>1. Launched(settings)' = Launched(settings) /\ Launched(stored)' = Launched(stored)
    BY <1>5
  <2>2. QED
    BY <1>5, <2>1 DEF SettingsAgree
<1>6. ASSUME NEW a \in BOOLEAN, NEW e \in {"", "own", settings.exe}
      PROVE  [autostart |-> a, exe |-> e] \in Settings
  BY DEF TypeOK, Settings, Path
<1>7. CASE GateReset
  BY <1>7 DEF GateReset, SettingsAgree
<1>8. QED
  BY <1>2, <1>3, <1>4, <1>5, <1>6, <1>7
  DEF Next, Operate, Process, Command, GateEnsures, ShellMounts, OpenSettings, CloseSettings,
      Click, PollTimer, windows, vars

\* The daemon the running shell would start is the one the next launch of the
\* application would start (updateDaemonSettings, sanitizeDaemonPath), for any
\* number of visits, forms and launches, except from a RESET in the gate to the
\* next save or launch, when the stored settings stay unset (resetAccess).
THEOREM SettingsStayAgreed == Spec => []SettingsAgree
<1>1. Init => TypeOK /\ SettingsAgree
  <2>1. Init => SettingsAgree
    BY DEF Init, SettingsAgree
  <2>2. QED
    BY <2>1, InitType
<1>2. TypeOK /\ SettingsAgree /\ [Next]_vars => (TypeOK /\ SettingsAgree)'
  BY StepType, StepSettings
<1>3. QED
  BY <1>1, <1>2, PTL DEF Spec
-----------------------------------------------------------------------------
(***************************************************************************)
(* Pending actions.                                                        *)
(***************************************************************************)

\* An action k the page waits for, in one of the two lines.
PagePending(k) ==
  \/ \E i \in DOMAIN calls : calls[i].by = "page" /\ calls[i].kind = k
  \/ \E i \in DOMAIN answers : answers[i].by = "page" /\ answers[i].kind = k

PendingInv ==
  /\ busy # None => PagePending(busy)
  /\ feedback = "info" => \E k \in Button : PagePending(k)

\* The invariant, in the words of the property.
LEMMA PendingForm == PendingInv => PendingIsPending
  BY DEF PendingInv, PendingIsPending, PagePending, Range

\* The actions pending before the step are pending after it.
LEMMA StillPending ==
  ASSUME PendingInv, \A k \in Button : PagePending(k) => PagePending(k)',
         busy' = busy, busy \in Button \union {None}, feedback' = feedback \/ feedback' = "success"
  PROVE  PendingInv'
<1>1. busy' # None => PagePending(busy)'
  BY DEF PendingInv
<1>2. feedback' = "info" => \E k \in Button : PagePending(k)'
  BY DEF PendingInv
<1>3. QED
  BY <1>1, <1>2 DEF PendingInv

\* Lines that only grow lose no pending action.
LEMMA GrowsPending ==
  ASSUME TypeOK, LineGrows, Len(answers) <= Len(answers'), answers' \in Seq(Answer),
         \A i \in 1..Len(answers) : answers'[i] = answers[i]
  PROVE  \A k : PagePending(k) => PagePending(k)'
<1>1. \A i \in DOMAIN calls : i \in DOMAIN calls' /\ calls'[i] = calls[i]
  BY Lines DEF LineGrows
<1>2. \A i \in DOMAIN answers : i \in DOMAIN answers' /\ answers'[i] = answers[i]
  BY Lines
<1>3. QED
  BY <1>1, <1>2 DEF PagePending

\* Answers that stay as they are have only grown.
LEMMA SameAnswers ==
  ASSUME TypeOK, answers' = answers
  PROVE  /\ Len(answers) <= Len(answers') /\ answers' \in Seq(Answer)
         /\ \A i \in 1..Len(answers) : answers'[i] = answers[i]
  BY Lines

\* A command that returns is pending as an answer.
LEMMA ReturnPending ==
  ASSUME TypeOK, 1 \in DOMAIN calls, NEW ok \in BOOLEAN, NEW runtime \in Runtime \union {None},
         Return(1, ok, runtime), NEW k, PagePending(k)
  PROVE  PagePending(k)'
<1>1. /\ DOMAIN calls' = 1..(Len(calls) - 1) /\ DOMAIN answers' = 1..(Len(answers) + 1)
      /\ \A i \in 1..(Len(calls) - 1) : calls'[i] = calls[i + 1]
      /\ \A i \in 1..Len(answers) : answers'[i] = answers[i]
      /\ answers'[Len(answers) + 1].kind = calls[1].kind
      /\ answers'[Len(answers) + 1].by = calls[1].by
  BY Returned
<1>2. ASSUME NEW i \in DOMAIN calls, calls[i].by = "page", calls[i].kind = k
      PROVE  PagePending(k)'
  <2>1. CASE i = 1
    <3>1. Len(answers) + 1 \in DOMAIN answers'
      BY <1>1, Lines
    <3>2. QED
      BY <1>1, <1>2, <2>1, <3>1 DEF PagePending
  <2>2. CASE i # 1
    <3>1. i - 1 \in 1..(Len(calls) - 1) /\ (i - 1) + 1 = i
      BY <2>2, Lines
    <3>2. calls'[i - 1] = calls[i] /\ i - 1 \in DOMAIN calls'
      BY <1>1, <3>1
    <3>3. QED
      BY <1>2, <3>2 DEF PagePending
  <2>3. QED
    BY <2>1, <2>2
<1>3. ASSUME NEW i \in DOMAIN answers, answers[i].by = "page", answers[i].kind = k
      PROVE  PagePending(k)'
  <2>1. i \in DOMAIN answers' /\ answers'[i] = answers[i]
    BY <1>1, Lines
  <2>2. QED
    BY <1>3, <2>1 DEF PagePending
<1>4. QED
  BY <1>2, <1>3 DEF PagePending

\* No step of a command loses what the page waits for.
LEMMA CommandPending ==
  ASSUME TypeOK, 1 \in DOMAIN calls,
         \/ daemon_default_paths(1) \/ daemon_runtime_status(1)
         \/ stop_managed_daemon(1) \/ restart_managed_daemon(1)
         \/ EnsureLooks(1) \/ EnsureSpawns(1) \/ EnsureStores(1)
         \/ WaitSucceeds(1) \/ WaitTimesOut(1),
         NEW k, PagePending(k)
  PROVE  PagePending(k)'
<1>1. \A q, c : build_runtime_payload(q, c) \in Runtime \union {None}
  BY PayloadType
<1>2. ASSUME NEW ok \in BOOLEAN, NEW r \in Runtime \union {None}, Return(1, ok, r)
      PROVE  PagePending(k)'
  BY <1>2, ReturnPending
<1>3. ASSUME NEW pc \in {"ensure", "spawn", "waitChild", "waitSpawn"}, Goto(1, pc)
      PROVE  PagePending(k)'
  <2>1. /\ DOMAIN calls' = DOMAIN calls /\ answers' = answers
        /\ calls'[1].kind = calls[1].kind /\ calls'[1].by = calls[1].by
        /\ \A i \in DOMAIN calls : i # 1 => calls'[i] = calls[i]
    BY <1>3, Went
  <2>2. QED
    BY <2>1 DEF PagePending
<1>4. CASE EnsureSpawns(1)
  <2>1. CASE Return(1, FALSE, None)
    BY <1>2, <2>1
  <2>2. ASSUME NEW p \in Pid,
               calls' = [calls EXCEPT ![1].pc = "store", ![1].pid = p], UNCHANGED answers
        PROVE  PagePending(k)'
    <3>1. /\ DOMAIN calls' = DOMAIN calls
          /\ calls'[1].kind = calls[1].kind /\ calls'[1].by = calls[1].by
          /\ \A i \in DOMAIN calls : i # 1 => calls'[i] = calls[i]
      BY <2>2, Advance
    <3>2. QED
      BY <2>2, <3>1 DEF PagePending
  <2>3. QED
    BY <1>4, <2>1, <2>2 DEF EnsureSpawns
<1>5. CASE EnsureLooks(1)
  <2>1. CASE Reachable
    BY <1>1, <1>2, <1>5, <2>1 DEF EnsureLooks
  <2>2. CASE ~Reachable
    BY <1>3, <1>5, <2>2 DEF EnsureLooks
  <2>3. QED
    BY <2>1, <2>2
<1>6. CASE daemon_default_paths(1) \/ daemon_runtime_status(1) \/ stop_managed_daemon(1)
  BY <1>1, <1>2, <1>6 DEF daemon_default_paths, daemon_runtime_status, stop_managed_daemon
<1>7. CASE restart_managed_daemon(1) \/ EnsureStores(1)
  BY <1>3, <1>7 DEF restart_managed_daemon, EnsureStores
<1>8. CASE WaitSucceeds(1) \/ WaitTimesOut(1)
  BY <1>1, <1>2, <1>8 DEF WaitSucceeds, WaitTimesOut
<1>9. QED
  BY <1>4, <1>5, <1>6, <1>7, <1>8

\* Every step keeps pending actions real.
LEMMA StepPending == TypeOK /\ PendingInv /\ [Next]_vars => PendingInv'
<1> SUFFICES ASSUME TypeOK, PendingInv, [Next]_vars PROVE PendingInv'
  OBVIOUS
<1>1. busy \in Button \union {None}
  BY DEF TypeOK
<1>2. ASSUME LineGrows, answers' = answers, busy' = busy,
             feedback' = feedback \/ feedback' = "success"
      PROVE  PendingInv'
  BY <1>1, <1>2, SameAnswers, GrowsPending, StillPending
<1>3. CASE Process
  BY <1>2, <1>3, LineStays DEF Process, page
<1>4. CASE Command
  <2>1. \A k : PagePending(k) => PagePending(k)'
    BY <1>4, CommandPending DEF Command, Turn
  <2>2. QED
    BY <1>1, <1>4, <2>1, StillPending DEF Command, page
<1>5. CASE GateEnsures
  <2>1. LineGrows
    <3>1. CASE stored.autostart
      BY <1>5, <3>1, OneMore DEF GateEnsures, Kind, Caller
    <3>2. CASE ~stored.autostart
      BY <1>5, <3>2, LineStays DEF GateEnsures
    <3>3. QED
      BY <3>1, <3>2
  <2>2. QED
    BY <1>2, <1>5, <2>1 DEF GateEnsures, page
<1>6. CASE ShellMounts
  BY <1>2, <1>6, AutostartGrows DEF ShellMounts, page, TypeOK
<1>7. CASE OpenSettings
  BY <1>2, <1>7, OneMore DEF OpenSettings, Kind, Caller
<1>8. CASE CloseSettings \/ Relaunch
  <2>1. busy' = None /\ feedback' # "info"
    BY <1>8, ControlAssumption DEF CloseSettings, Relaunch
  <2>2. QED
    BY <2>1 DEF PendingInv
<1>9. ASSUME NEW s \in Settings, SaveSettings(s) PROVE PendingInv'
  BY <1>2, <1>9, AutostartGrows DEF SaveSettings
<1>10. ASSUME NEW b \in Button \ {"defaults"}, Click(b) PROVE PendingInv'
  <2>1. PagePending(b)'
    BY <1>10, ClickLines DEF PagePending
  <2>2. busy' = b
    BY <1>10 DEF Click
  <2>3. QED
    BY <2>1, <2>2 DEF PendingInv
<1>11. CASE PollTimer
  BY <1>2, <1>11, OneMore DEF PollTimer, page, Kind, Caller
<1>12. CASE Resume
  <2>1. /\ LineGrows /\ Len(answers') = Len(answers) - 1 /\ answers' \in Seq(Answer)
        /\ \A i \in 1..(Len(answers) - 1) : answers'[i] = answers[i + 1]
        /\ Head(answers) = answers[1]
    BY <1>12, ResumeLines
  <2>2. CASE answers[1].by = "page"
    <3>1. busy' = None /\ feedback' # "info"
      BY <1>12, <2>1, <2>2 DEF Resume, ShowFeedback
    <3>2. QED
      BY <3>1 DEF PendingInv
  <2>3. CASE answers[1].by # "page"
    <3>1. busy' = busy /\ feedback' = feedback
      BY <1>12, <2>1, <2>3 DEF Resume, ShowFeedback
    <3>2. \A i \in DOMAIN calls : i \in DOMAIN calls' /\ calls'[i] = calls[i]
      BY <2>1, Lines DEF LineGrows
    <3>3. ASSUME NEW i \in DOMAIN answers, answers[i].by = "page"
          PROVE  i - 1 \in DOMAIN answers' /\ answers'[i - 1] = answers[i]
      <4>1. i \in 1..Len(answers) /\ i # 1 /\ Len(answers) \in Nat
        BY <2>3, <3>3, Lines
      <4>2. i - 1 \in 1..(Len(answers) - 1) /\ (i - 1) + 1 = i
        BY <4>1
      <4>3. QED
        BY <2>1, <4>2
    <3>4. \A k \in Button : PagePending(k) => PagePending(k)'
      BY <3>2, <3>3 DEF PagePending
    <3>5. QED
      BY <1>1, <3>1, <3>4, StillPending
  <2>4. QED
    BY <2>2, <2>3
<1>13. CASE UNCHANGED vars
  BY <1>2, <1>13, LineStays DEF vars, page
<1>14. ASSUME NEW a \in BOOLEAN, NEW e \in {"", "own", settings.exe}
       PROVE  [autostart |-> a, exe |-> e] \in Settings
  BY DEF TypeOK, Settings, Path
<1>15. CASE GateReset
  BY <1>2, <1>15, LineStays DEF GateReset, page
<1>16. QED
  BY <1>3, <1>4, <1>5, <1>6, <1>7, <1>8, <1>9, <1>10, <1>11, <1>12, <1>13, <1>14, <1>15
  DEF Next, Operate

\* The page shows an action as pending only while the action is
\* (runRuntimeAction): switching tabs, overlapping actions, failures and
\* timeouts included.
THEOREM PendingActionsAreReal == Spec => []PendingIsPending
<1>1. Init => TypeOK /\ PendingInv
  <2>1. Init => PendingInv
    BY ControlAssumption DEF Init, PendingInv
  <2>2. QED
    BY <2>1, InitType
<1>2. TypeOK /\ PendingInv /\ [Next]_vars => (TypeOK /\ PendingInv)'
  BY StepType, StepPending
<1>3. QED
  BY <1>1, <1>2, PendingForm, PTL DEF Spec
=============================================================================
