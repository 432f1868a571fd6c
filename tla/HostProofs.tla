----------------------------- MODULE HostProofs -----------------------------
(***************************************************************************)
(* Proofs about what the agent has from its host, for every value of the   *)
(* constants: child processes (Jobs), the table of name service answers    *)
(* (AddrCache) and connections (ConnectWalk).                              *)
(***************************************************************************)
EXTENDS Jobs, ConnectWalk, Counting, SequenceTheorems, FiniteSetTheorems, TLAPS

-----------------------------------------------------------------------------
(* Jobs: the type invariant and limits, and the five safety invariants the  *)
(* runs check, for every number of jobs, slots and orphans and every size   *)
(* of buffer and terminal.                                                  *)
(*                                                                          *)
(* The inductive invariant adds to them only Anchored: ids not handed out   *)
(* yet are untouched, a registered job has not ended, and a step in the     *)
(* middle is about a registered job.                                        *)

(* Numbers not handed out yet are untouched, no registered job has ended,   *)
(* and a step in the middle is about a registered job.                      *)
Anchored ==
    /\ \A j \in Ids : j >= nextId => j \notin reg /\ ended[j] = "no"
    /\ \A j \in reg : ended[j] = "no"
    /\ loop = "stepping" => call # NoCall /\ call.job \in reg

(* The inductive invariant.                                                 *)
Safe == TypeOK /\ Anchored /\ Accounted /\ Tracked /\ NoLeak /\ EofAfterBody
        /\ EndedIsTold

-----------------------------------------------------------------------------
(* The operators on buffers and terminals.                                  *)

(* What buf_append does to a buffer: it stays within its cap, and no byte   *)
(* leaves the books.                                                        *)
LEMMA AppendKeeps ==
    ASSUME NEW b \in Bytes, NEW n \in Nat
    PROVE  /\ BufAppend(b, n) \in Bytes
           /\ b.total = b.told + b.dropped + b.len =>
                BufAppend(b, n).total = BufAppend(b, n).told + BufAppend(b, n).dropped
                                       + BufAppend(b, n).len
<1> DEFINE lose  == IF n > BufMax THEN n - BufMax ELSE 0
           kept  == n - lose
           evict == IF b.len + kept > BufMax THEN b.len + kept - BufMax ELSE 0
<1>1. BufMax \in Nat  BY ConstantsAssumption
<1>2. /\ b = [len |-> b.len, dropped |-> b.dropped, total |-> b.total,
              told |-> b.told]
      /\ b.len \in 0 .. BufMax /\ b.dropped \in Nat /\ b.total \in Nat
      /\ b.told \in Nat
  BY DEF Bytes
<1>3. lose \in Nat /\ kept \in 0 .. BufMax /\ n = lose + kept  BY <1>1
<1>4. evict \in Nat /\ evict <= b.len /\ b.len - evict + kept \in 0 .. BufMax
  <2> HIDE DEF lose, kept
  <2> QED  BY <1>1, <1>2, <1>3
<1>5. BufAppend(b, n) = [b EXCEPT !.len = b.len - evict + kept,
                               !.dropped = b.dropped + lose + evict,
                               !.total = b.total + n]
  BY DEF BufAppend
<1> HIDE DEF lose, kept, evict
<1>6. BufAppend(b, n) = [len |-> b.len - evict + kept,
                      dropped |-> b.dropped + lose + evict,
                      total |-> b.total + n, told |-> b.told]
  BY <1>5 DEF Bytes
<1> QED  BY <1>2, <1>3, <1>4, <1>6 DEF Bytes

(* What nm_proc_take_output does: the buffer is empty and all of it told.   *)
LEMMA TakeTells ==
    ASSUME NEW b \in Bytes
    PROVE  /\ Take(b) \in Bytes
           /\ b.total = b.told + b.dropped + b.len =>
                /\ Take(b).total = Take(b).told + Take(b).dropped + Take(b).len
                /\ Take(b).told = Take(b).total
<1>1. BufMax \in Nat  BY ConstantsAssumption
<1>2. /\ b = [len |-> b.len, dropped |-> b.dropped, total |-> b.total,
              told |-> b.told]
      /\ b.len \in 0 .. BufMax /\ b.dropped \in Nat /\ b.total \in Nat
      /\ b.told \in Nat
  BY DEF Bytes
<1>3. Take(b) = [len |-> 0, dropped |-> 0, total |-> b.total,
                 told |-> b.told + b.dropped + b.len]
  <2> DEFINE all == b.told + b.dropped + b.len
  <2>1. Take(b) = [b EXCEPT !.len = 0, !.dropped = 0, !.told = all]
    BY DEF Take
  <2> HIDE DEF all
  <2>2. Take(b) = [len |-> 0, dropped |-> 0, total |-> b.total, told |-> all]
    BY <2>1 DEF Bytes
  <2> QED  BY <2>2 DEF all
<1> QED  BY <1>1, <1>2, <1>3 DEF Bytes

(* Reading a terminal and closing its master never open it.                 *)
LEMMA TtyKeeps ==
    ASSUME NEW t \in Tty
    PROVE  /\ Gathered(t) \in Tty /\ (Gathered(t).open => t.open)
           /\ Shut(t) \in Tty /\ ~Shut(t).open
<1>1. TtyCap \in Nat /\ InCap \in Nat  BY ConstantsAssumption
<1>2. ASSUME NEW o \in BOOLEAN
      PROVE  LET u == [t EXCEPT !.out = 0, !.open = o]
             IN u \in Tty /\ u.open = o
  <2> DEFINE u == [t EXCEPT !.out = 0, !.open = o]
  <2>1. 0 \in 0 .. TtyCap  BY <1>1
  <2>2. u \in Tty  BY <2>1 DEF Tty
  <2>3. u.open = o  BY DEF Tty
  <2> QED  BY <2>2, <2>3
<1>3. t.slave \in BOOLEAN  BY DEF Tty
<1>4. Shut(t) \in Tty /\ ~Shut(t).open  BY <1>2 DEF Shut
<1>5. Gathered(t) \in Tty  BY <1>2, <1>3 DEF Gathered
<1>6. Gathered(t).open => t.open  BY DEF Gathered
<1> QED  BY <1>4, <1>5, <1>6

(* The job numbers are finite, and so is every set of them.                 *)
LEMMA IdsFinite == IsFiniteSet(Ids) /\ \A S \in SUBSET Ids : IsFiniteSet(S)
<1>1. 1 \in Int /\ MaxIds \in Int  BY ConstantsAssumption
<1>2. IsFiniteSet(Ids)  BY <1>1, FS_Interval DEF Ids
<1> QED  BY <1>2, FS_Subset

-----------------------------------------------------------------------------
(* Closing and reaping.                                                     *)

(* What nm_proc_close leaves behind.                                        *)
LEMMA CloseKeeps ==
    ASSUME TypeOK, NEW j \in Ids, NEW dies \in BOOLEAN,
           NEW why \in {"exit", "killed", "user", "quit"},
           ProcClose(j, dies, why)
    PROVE  /\ nextId' = nextId /\ reg' = reg \ {j}
           /\ Cardinality(reg') <= MaxJobs
           /\ orphans' \subseteq Ids /\ Cardinality(orphans') <= OrphanCap
           /\ given' \subseteq Ids
           /\ child' \in [Ids -> Alive \cup {"none", "zombie", "reaped"}]
           /\ pty' \in [Ids -> Tty]
           /\ missed' \in [Ids -> Nat]
           /\ ended' = [ended EXCEPT ![j] = why]
<1> DEFINE swept == {o \in orphans : child[o] = "zombie"}
           left  == orphans \ swept
           gone  == child[j] \in {"zombie", "reaped"} \/ dies
           kept  == ~gone /\ Cardinality(left) < OrphanCap
<1>1. /\ nextId' = nextId /\ reg' = reg \ {j}
      /\ orphans' = IF kept THEN left \cup {j} ELSE left
      /\ given' = IF gone \/ kept THEN given ELSE given \cup {j}
      /\ child' = [i \in Ids |-> IF i \in swept \/ (i = j /\ gone) THEN "reaped"
                                 ELSE IF i = j THEN "exiting" ELSE child[i]]
      /\ pty' = [i \in Ids |->
                   IF i \in swept \/ (i = j /\ ~kept) THEN Shut(pty[i])
                   ELSE IF i \in orphans \cup {j} THEN Gathered(pty[i])
                   ELSE pty[i]]
      /\ missed' = [missed EXCEPT ![j] = @ + pty[j].out]
      /\ ended' = [ended EXCEPT ![j] = why]
  BY DEF ProcClose
<1>2. /\ reg \subseteq Ids /\ orphans \subseteq Ids /\ given \subseteq Ids
      /\ Cardinality(reg) <= MaxJobs /\ Cardinality(orphans) <= OrphanCap
      /\ child \in [Ids -> Alive \cup {"none", "zombie", "reaped"}]
      /\ pty \in [Ids -> Tty] /\ missed \in [Ids -> Nat]
  BY DEF TypeOK
<1>3. left \subseteq orphans /\ left \subseteq Ids  BY <1>2
<1>4. IsFiniteSet(reg) /\ IsFiniteSet(orphans) /\ IsFiniteSet(left)
  BY <1>2, <1>3, IdsFinite
<1>5. /\ Cardinality(reg) \in Nat /\ Cardinality(orphans) \in Nat
      /\ Cardinality(left) \in Nat /\ Cardinality(left) <= Cardinality(orphans)
      /\ Cardinality(left \cup {j}) \in Nat
      /\ Cardinality(left \cup {j}) <= Cardinality(left) + 1
  <2>1. Cardinality(left) <= Cardinality(orphans)
    BY <1>3, <1>4, FS_Subset
  <2>2. /\ IsFiniteSet(left \cup {j})
        /\ Cardinality(left \cup {j}) = IF j \in left THEN Cardinality(left)
                                        ELSE Cardinality(left) + 1
    BY <1>4, FS_AddElement
  <2>3. Cardinality(left) \in Nat /\ Cardinality(left \cup {j}) \in Nat
    BY <1>4, <2>2, FS_CardinalityType
  <2> HIDE DEF left
  <2> QED  BY <1>4, <2>1, <2>2, <2>3, FS_CardinalityType
<1>6. Cardinality(reg \ {j}) <= Cardinality(reg) /\ Cardinality(reg \ {j}) \in Nat
  <2>1. IsFiniteSet(reg \ {j})  BY <1>4, FS_RemoveElement
  <2> QED  BY <1>4, <2>1, FS_Subset, FS_CardinalityType
<1>7. OrphanCap \in Nat /\ MaxJobs \in Nat  BY ConstantsAssumption
<1>8. Cardinality(reg') <= MaxJobs  BY <1>1, <1>2, <1>5, <1>6, <1>7
<1>9. orphans' \subseteq Ids /\ Cardinality(orphans') <= OrphanCap
  <2> HIDE DEF left, gone
  <2> QED  BY <1>1, <1>2, <1>3, <1>5, <1>7
<1>10. child' \in [Ids -> Alive \cup {"none", "zombie", "reaped"}]
  <2> HIDE DEF swept, gone
  <2> QED  BY <1>1, <1>2 DEF Alive
<1>11. pty' \in [Ids -> Tty]
  <2> HIDE DEF swept, kept
  <2>1. \A i \in Ids : Shut(pty[i]) \in Tty /\ Gathered(pty[i]) \in Tty
    BY <1>2, TtyKeeps
  <2> QED  BY <1>1, <1>2, <2>1
<1>12. missed' \in [Ids -> Nat]
  <2>1. pty[j].out \in Nat  BY <1>2, ConstantsAssumption DEF Tty
  <2> QED  BY <1>1, <1>2, <2>1
<1>13. given' \subseteq Ids
  <2> HIDE DEF kept, gone
  <2> QED  BY <1>1, <1>2
<1> QED  BY <1>1, <1>8, <1>9, <1>10, <1>11, <1>12, <1>13

(* The safety of the registry survives a close.                             *)
LEMMA CloseSafe ==
    ASSUME TypeOK, Tracked, NoLeak, NEW j \in Ids, NEW dies \in BOOLEAN,
           NEW why \in {"exit", "killed", "user", "quit"},
           ProcClose(j, dies, why)
    PROVE  Tracked' /\ NoLeak'
<1> DEFINE swept == {o \in orphans : child[o] = "zombie"}
           left  == orphans \ swept
           gone  == child[j] \in {"zombie", "reaped"} \/ dies
           kept  == ~gone /\ Cardinality(left) < OrphanCap
<1>1. /\ reg' = reg \ {j}
      /\ orphans' = IF kept THEN left \cup {j} ELSE left
      /\ given' = IF gone \/ kept THEN given ELSE given \cup {j}
      /\ child' = [i \in Ids |-> IF i \in swept \/ (i = j /\ gone) THEN "reaped"
                                 ELSE IF i = j THEN "exiting" ELSE child[i]]
      /\ pty' = [i \in Ids |->
                   IF i \in swept \/ (i = j /\ ~kept) THEN Shut(pty[i])
                   ELSE IF i \in orphans \cup {j} THEN Gathered(pty[i])
                   ELSE pty[i]]
      /\ ended' = [ended EXCEPT ![j] = why]
  BY DEF ProcClose
<1>2. /\ pty \in [Ids -> Tty] /\ child \in [Ids -> Alive \cup {"none", "zombie", "reaped"}]
      /\ ended \in [Ids -> {"no", "exit", "killed", "user", "quit"}]
  BY DEF TypeOK
<1>3. kept => ~gone  OBVIOUS
<1>4. ASSUME NEW i \in Ids
      PROVE  /\ child'[i] \in Alive \cup {"zombie"} => i \in reg' \cup orphans' \cup given'
             /\ child'[i] # "none" => (i \in reg' <=> ended'[i] = "no")
  <2>1. CASE i = j
    <3> HIDE DEF swept, left, kept, gone
    <3> QED  BY <1>1, <1>2, <1>3, <2>1 DEF Alive
  <2>2. CASE i # j
    <3>1. i \in swept => child'[i] = "reaped"  BY <1>1
    <3>2. i \notin swept => child'[i] = child[i]  BY <1>1, <2>2
    <3>3. i \in reg' <=> i \in reg  BY <1>1, <2>2
    <3>4. ended'[i] = ended[i]  BY <1>1, <1>2, <2>2
    <3>5. i \notin swept => (i \in orphans => i \in orphans') /\ (i \in given => i \in given')
      BY <1>1
    <3>6. i \in swept => child[i] = "zombie"  OBVIOUS
    <3> HIDE DEF swept, left, kept, gone
    <3> QED  BY <3>1, <3>2, <3>3, <3>4, <3>5, <3>6 DEF Tracked, Alive
  <2> QED  BY <2>1, <2>2
<1>5. ASSUME NEW i \in Ids, pty'[i].open PROVE i \in reg' \cup orphans'
  <2>1. /\ ~Shut(pty[i]).open /\ (Gathered(pty[i]).open => pty[i].open)
    BY <1>2, TtyKeeps
  <2>2. i \notin swept /\ (i = j => kept)
    <3> HIDE DEF swept, kept
    <3> QED  BY <1>1, <1>5, <2>1
  <2>3. CASE i = j  BY <1>1, <2>2, <2>3
  <2>4. CASE i # j
    <3>1. pty[i].open
      <4> HIDE DEF swept, kept
      <4> QED  BY <1>1, <1>5, <2>1, <2>2, <2>4
    <3>2. i \in reg \cup orphans  BY <3>1 DEF NoLeak
    <3> QED  BY <1>1, <2>2, <2>4, <3>2
  <2> QED  BY <2>3, <2>4
<1> QED  BY <1>4, <1>5 DEF Tracked, NoLeak

(* What try_reap changes.                                                   *)
LEMMA ReapKeeps ==
    ASSUME TypeOK, NEW js \in SUBSET Ids, Reap(js)
    PROVE  /\ child' \in [Ids -> Alive \cup {"none", "zombie", "reaped"}]
           /\ pty' \in [Ids -> Tty] /\ missed' \in [Ids -> Nat]
           /\ \A i \in Ids : /\ child'[i] \in {child[i], "reaped"}
                             /\ child[i] = "none" => child'[i] = "none"
                             /\ pty'[i].open => pty[i].open
           /\ \A i \in js : child[i] = "zombie" => child'[i] = "reaped"
<1> DEFINE dead == {j \in js : child[j] = "zombie"}
<1>1. /\ child'  = [j \in Ids |-> IF j \in dead THEN "reaped" ELSE child[j]]
      /\ pty'    = [j \in Ids |-> IF j \in dead THEN Shut(pty[j]) ELSE pty[j]]
      /\ missed' = [j \in Ids |-> IF j \in dead THEN missed[j] + pty[j].out
                                  ELSE missed[j]]
  BY DEF Reap
<1>2. /\ child \in [Ids -> Alive \cup {"none", "zombie", "reaped"}]
      /\ pty \in [Ids -> Tty] /\ missed \in [Ids -> Nat]
  BY DEF TypeOK
<1>3. \A i \in Ids : /\ Shut(pty[i]) \in Tty /\ ~Shut(pty[i]).open
                     /\ pty[i].out \in Nat
  <2>1. \A t \in Tty : t.out \in Nat  BY ConstantsAssumption DEF Tty
  <2> QED  BY <1>2, <2>1, TtyKeeps
<1>4. \A i \in Ids : i \in dead => child[i] = "zombie"  OBVIOUS
<1>5. \A i \in js : child[i] = "zombie" => i \in Ids /\ i \in dead  OBVIOUS
<1> HIDE DEF dead
<1> QED  BY <1>1, <1>2, <1>3, <1>4, <1>5

-----------------------------------------------------------------------------
(* Type correctness.                                                        *)

(* Every step of the jobs keeps the types.                                  *)
LEMMA TypeStep == TypeOK /\ Anchored /\ [Next]_vars => TypeOK'
<1> SUFFICES ASSUME TypeOK, Anchored, [Next]_vars PROVE TypeOK'
  OBVIOUS
<1> USE DEF procs
<1>c. /\ MaxIds \in Nat /\ MaxJobs \in Nat /\ TtyCap \in Nat \ {0}
      /\ InCap \in Nat \ {0} /\ BufMax \in Nat \ {0}
  BY ConstantsAssumption
<1>t. /\ \A t \in Tty : /\ t.out \in 0 .. TtyCap /\ t.in \in 0 .. InCap
                       /\ t.open \in BOOLEAN /\ t.slave \in BOOLEAN
      /\ \A t \in Tty : t.out \in Nat
  BY <1>c DEF Tty
<1>1. ASSUME NEW j \in Ids, ChildWrites(j) PROVE TypeOK'
  <2>1. pty[j] \in Tty /\ pty[j].out + 1 \in 0 .. TtyCap
    BY <1>1, <1>c, <1>t DEF TypeOK, ChildWrites
  <2>2. [pty[j] EXCEPT !.out = pty[j].out + 1] \in Tty  BY <2>1 DEF Tty
  <2> QED  BY <1>1, <2>2 DEF TypeOK, ChildWrites
<1>2. ASSUME NEW j \in Ids, ChildReads(j) PROVE TypeOK'
  <2>1. pty[j] \in Tty /\ pty[j].in - 1 \in 0 .. InCap
    BY <1>2, <1>c, <1>t DEF TypeOK, ChildReads
  <2>2. [pty[j] EXCEPT !.in = pty[j].in - 1] \in Tty  BY <2>1 DEF Tty
  <2> QED  BY <1>2, <2>2 DEF TypeOK, ChildReads
<1>3. ASSUME NEW j \in Ids, ChildLetsGo(j) PROVE TypeOK'
  <2>1. [pty[j] EXCEPT !.slave = FALSE] \in Tty  BY DEF Tty, TypeOK
  <2> QED  BY <1>3, <2>1 DEF TypeOK, ChildLetsGo
<1>4. ASSUME NEW j \in Ids, ChildExits(j) PROVE TypeOK'
  BY <1>4 DEF TypeOK, ChildExits, Alive
<1>5. ASSUME NEW j \in Ids, ExitCompletes(j) PROVE TypeOK'
  <2>1. [pty[j] EXCEPT !.slave = FALSE] \in Tty  BY DEF Tty, TypeOK
  <2> QED  BY <1>5, <2>1 DEF TypeOK, ExitCompletes
<1>6. ASSUME NEW j \in Ids, Drain(j) PROVE TypeOK'
  <2>1. Gathered(pty[j]) \in Tty /\ BufAppend(buf[j], pty[j].out) \in Bytes
    BY <1>t, TtyKeeps, AppendKeeps DEF TypeOK
  <2> QED  BY <1>6, <2>1 DEF TypeOK, Drain
<1>7. CASE ExecCommand
  <2>1. [pty[nextId] EXCEPT !.open = TRUE, !.slave = TRUE] \in Tty
    BY <1>7 DEF TypeOK, ExecCommand, Tty
  <2>2. pty' \in [Ids -> Tty]
    <3>1. pty' = [pty EXCEPT ![nextId] = [@ EXCEPT !.open = TRUE, !.slave = TRUE]]
      BY <1>7 DEF ExecCommand
    <3> QED  BY <2>1, <3>1 DEF TypeOK
  <2>3. reg' = reg \cup {nextId} /\ nextId \in Ids /\ nextId' = nextId + 1
    BY <1>7 DEF ExecCommand
  <2>4. Cardinality(reg') <= MaxJobs
    <3>1. IsFiniteSet(reg)  BY IdsFinite DEF TypeOK
    <3>2. Cardinality(reg) \in Nat /\ Cardinality(reg) < MaxJobs
      BY <1>7, <3>1, FS_CardinalityType DEF ExecCommand, Room
    <3>3. Cardinality(reg') \in {Cardinality(reg), Cardinality(reg) + 1}
      BY <2>3, <3>1, FS_AddElement
    <3> QED  BY <1>c, <3>2, <3>3
  <2>5. nextId' \in 1 .. MaxIds + 1  BY <1>c, <2>3 DEF Ids
  <2>6. call' \in Calls
    BY <1>7, <2>3 DEF ExecCommand, Calls
  <2> QED  BY <1>7, <2>2, <2>3, <2>4, <2>5, <2>6 DEF TypeOK, ExecCommand, Alive
<1>8. ASSUME NEW j \in Ids, NEW n \in Bodies, NEW c \in BOOLEAN, WriteStdin(j, n, c)
      PROVE  TypeOK'
  <2>1. call' \in Calls
    BY <1>8, ConstantsAssumption DEF WriteStdin, Calls
  <2>2. loop' \in {"idle", "inner"}  BY <1>8 DEF WriteStdin, AfterStep
  <2> QED  BY <1>8, <2>1, <2>2 DEF TypeOK, WriteStdin
<1>9. ASSUME NEW j \in Ids, NEW dies \in BOOLEAN, KillJob(j, dies) PROVE TypeOK'
  <2>1. ProcClose(j, dies, "killed")  BY <1>9 DEF KillJob
  <2>2. Take(buf[j]) \in Bytes  BY TakeTells DEF TypeOK
  <2>3. buf' \in [Ids -> Bytes]  BY <1>9, <2>2 DEF KillJob, TypeOK
  <2> QED  BY <1>9, <2>1, <2>3, CloseKeeps DEF TypeOK, KillJob
<1>10. CASE StepGone
  BY <1>10 DEF TypeOK, StepGone
<1>11. CASE StepPump
  <2> DEFINE j == call.job
             t == pty[j]
  <2>1. call \in Calls /\ j \in Ids /\ t \in Tty /\ buf[j] \in Bytes
    BY <1>11 DEF StepPump, Stepped, TypeOK, Calls
  <2> DEFINE room == InCap - t.in
             sent(broke) == IF broke THEN 0
                            ELSE IF call.left < room THEN call.left ELSE room
             left(broke) == IF broke THEN 0 ELSE call.left - sent(broke)
  <2>2. PICK broke \in BOOLEAN :
          /\ call' = [call EXCEPT !.left = left(broke),
                         !.eof = @ \/ EndsInput(call, left(broke), broke)]
          /\ pty' = [pty EXCEPT ![j] =
                       Gathered([t EXCEPT !.in = @ + sent(broke)])]
          /\ buf' = [buf EXCEPT ![j] = BufAppend(@, t.out)]
    BY <1>11 DEF StepPump
  <2>3. call.left \in Nat /\ call.eof \in BOOLEAN /\ call.close \in BOOLEAN
    BY <2>1 DEF Calls
  <2>4. sent(broke) \in Nat /\ t.in + sent(broke) \in 0 .. InCap /\ left(broke) \in Nat
    BY <1>c, <1>t, <2>1, <2>3
  <2>5. [t EXCEPT !.in = t.in + sent(broke)] \in Tty
    <3> HIDE DEF sent
    <3> QED  BY <2>1, <2>4 DEF Tty
  <2>6. pty' \in [Ids -> Tty]
    <3>1. Gathered([t EXCEPT !.in = t.in + sent(broke)]) \in Tty
      <4> HIDE DEF sent
      <4> QED  BY <2>5, TtyKeeps
    <3> HIDE DEF sent
    <3> QED  BY <2>1, <2>2, <3>1 DEF TypeOK
  <2>7. buf' \in [Ids -> Bytes]
    <3>1. BufAppend(buf[j], t.out) \in Bytes  BY <1>t, <2>1, AppendKeeps
    <3> QED  BY <2>1, <2>2, <3>1 DEF TypeOK
  <2>8. call' \in Calls
    <3> DEFINE e == call.eof \/ EndsInput(call, left(broke), broke)
    <3>1. e \in BOOLEAN  OBVIOUS
    <3>2. call' = [call EXCEPT !.left = left(broke), !.eof = e]  BY <2>2
    <3> HIDE DEF e, left
    <3> QED  BY <2>1, <2>4, <3>1, <3>2 DEF Calls
  <2> QED  BY <1>11, <2>6, <2>7, <2>8 DEF TypeOK, StepPump
<1>12. CASE StepExited
  <2>1. call \in Calls /\ call.job \in Ids
    BY <1>12 DEF StepExited, Anchored, TypeOK, Calls
  <2>2. ProcClose(call.job, FALSE, "exit")  BY <1>12 DEF StepExited
  <2>3. Take(buf[call.job]) \in Bytes  BY <2>1, TakeTells DEF TypeOK
  <2>4. buf' \in [Ids -> Bytes]  BY <1>12, <2>1, <2>3 DEF StepExited, TypeOK
  <2>5. call' = NoCall /\ loop' = "idle" /\ UNCHANGED <<due, drainee, made>>
    BY <1>12 DEF StepExited
  <2>6. /\ nextId' = nextId /\ reg' = reg \ {call.job}
        /\ Cardinality(reg') <= MaxJobs
        /\ orphans' \subseteq Ids /\ Cardinality(orphans') <= OrphanCap
        /\ given' \subseteq Ids
        /\ child' \in [Ids -> Alive \cup {"none", "zombie", "reaped"}]
        /\ pty' \in [Ids -> Tty] /\ missed' \in [Ids -> Nat]
        /\ ended' = [ended EXCEPT ![call.job] = "exit"]
    BY <2>1, <2>2, CloseKeeps
  <2> QED  BY <2>4, <2>5, <2>6 DEF TypeOK
<1>13. CASE StepYields
  <2>1. call \in Calls /\ call.job \in Ids
    BY <1>13 DEF StepYields, Anchored, TypeOK, Calls
  <2>2. Take(buf[call.job]) \in Bytes  BY <2>1, TakeTells DEF TypeOK
  <2> QED  BY <1>13, <2>1, <2>2 DEF TypeOK, StepYields
<1>14. CASE StepWaits
  BY <1>14 DEF TypeOK, StepWaits, AfterStep
<1>15. CASE WindowCloses
  BY <1>15 DEF TypeOK, WindowCloses
<1>16. CASE DrainReaps
  <2>1. Reap({drainee})  BY <1>16 DEF DrainReaps
  <2>2. CASE drainee \in Ids
    BY <1>16, <2>1, <2>2, ReapKeeps DEF TypeOK, DrainReaps
  <2>3. CASE drainee \notin Ids
    <3>1. child' = child /\ pty' = pty /\ missed' = missed
      BY <2>1, <2>3 DEF Reap, TypeOK
    <3> QED  BY <1>16, <3>1 DEF TypeOK, DrainReaps
  <2> QED  BY <2>2, <2>3
<1>17. CASE AskLive
  <2>1. Reap(reg) /\ reg \in SUBSET Ids  BY <1>17 DEF AskLive, TypeOK
  <2> QED  BY <1>17, <2>1, ReapKeeps DEF TypeOK, AskLive
<1>18. CASE Cancel
  BY <1>18 DEF TypeOK, Cancel
<1>19. CASE Quit
  BY <1>19 DEF TypeOK, Quit
<1>20. CASE QuitEnds
  <2>1. Reap(orphans) /\ orphans \in SUBSET Ids  BY <1>20 DEF QuitEnds, TypeOK
  <2>2. orphans' \subseteq orphans  BY <1>20 DEF QuitEnds
  <2>3. Cardinality(orphans') <= OrphanCap
    <3>1. IsFiniteSet(orphans)  BY IdsFinite DEF TypeOK
    <3>2. IsFiniteSet(orphans') /\ Cardinality(orphans') <= Cardinality(orphans)
      BY <2>2, <3>1, FS_Subset
    <3>3. Cardinality(orphans') \in Nat /\ Cardinality(orphans) \in Nat
      BY <3>1, <3>2, FS_CardinalityType
    <3> QED  BY <3>2, <3>3, ConstantsAssumption DEF TypeOK
  <2> QED  BY <1>20, <2>1, <2>2, <2>3, ReapKeeps DEF TypeOK, QuitEnds
<1>21. ASSUME NEW j \in Ids, NEW dies \in BOOLEAN, UserKills(j, dies) PROVE TypeOK'
  <2>1. ProcClose(j, dies, "user")  BY <1>21 DEF UserKills
  <2> QED  BY <1>21, <2>1, CloseKeeps DEF TypeOK, UserKills
<1>22. ASSUME NEW j \in Ids, NEW dies \in BOOLEAN, QuitCloses(j, dies) PROVE TypeOK'
  <2>1. ProcClose(j, dies, "quit")  BY <1>22 DEF QuitCloses
  <2> QED  BY <1>22, <2>1, CloseKeeps DEF TypeOK, QuitCloses
<1>23. CASE UNCHANGED vars
  BY <1>23 DEF TypeOK, vars
<1> QED
  BY <1>1, <1>2, <1>3, <1>4, <1>5, <1>6, <1>7, <1>8, <1>9, <1>10, <1>11, <1>12,
     <1>13, <1>14, <1>15, <1>16, <1>17, <1>18, <1>19, <1>20, <1>21, <1>22, <1>23
  DEF Next, Child, Tools, User, StepEnds

-----------------------------------------------------------------------------
(* The invariant is inductive.                                              *)

(* No step leaves a registered job without its number, its pty or its       *)
(* child.                                                                   *)
LEMMA AnchoredStep == TypeOK /\ Anchored /\ [Next]_vars => Anchored'
<1> SUFFICES ASSUME TypeOK, Anchored, [Next]_vars PROVE Anchored'
  OBVIOUS
<1> USE DEF procs
<1>1. ASSUME NEW j \in Ids, Child(j) PROVE Anchored'
  BY <1>1 DEF Anchored, Child, ChildWrites, ChildReads, ChildLetsGo, ChildExits,
              ExitCompletes
<1>2. ASSUME NEW j \in reg, NEW dies \in BOOLEAN,
             NEW why \in {"exit", "killed", "user", "quit"},
             ProcClose(j, dies, why), loop' # "stepping"
      PROVE  Anchored'
  <2>1. /\ nextId' = nextId /\ reg' = reg \ {j}
        /\ ended' = [ended EXCEPT ![j] = why]
    BY <1>2 DEF ProcClose
  <2> QED  BY <1>2, <2>1 DEF Anchored, TypeOK
<1>3. CASE ExecCommand
  <2>1. \A i \in Ids : i >= nextId + 1 => i >= nextId /\ i # nextId
    BY DEF TypeOK, Ids
  <2>2. /\ nextId' = nextId + 1 /\ reg' = reg \cup {nextId} /\ ended' = ended
        /\ nextId \in Ids /\ loop = "idle" /\ loop' = loop
    BY <1>3 DEF ExecCommand
  <2>3. ended[nextId] = "no"  BY <2>2 DEF Anchored, Ids
  <2>4. \A i \in Ids : i >= nextId' => i \notin reg' /\ ended'[i] = "no"
    BY <2>1, <2>2 DEF Anchored
  <2> QED  BY <2>2, <2>3, <2>4 DEF Anchored
<1>4. CASE StepPump
  <2>1. call \in Calls /\ call.job \in reg  BY <1>4 DEF StepPump, Stepped, TypeOK
  <2>2. \E l \in {call'.left}, e \in {call'.eof} :
          call' = [call EXCEPT !.left = l, !.eof = e]
    BY <1>4, <2>1 DEF StepPump, Calls
  <2>3. call'.job = call.job  BY <2>1, <2>2 DEF Calls
  <2>4. call' # NoCall
    <3>1. call.job # 0  BY <2>1 DEF Calls, Ids
    <3> QED  BY <2>3, <3>1 DEF NoCall
  <2> QED  BY <1>4, <2>1, <2>3, <2>4 DEF Anchored, StepPump
<1>5. ASSUME NEW j \in Ids, NEW dies \in BOOLEAN,
             KillJob(j, dies) \/ UserKills(j, dies) \/ QuitCloses(j, dies)
      PROVE  Anchored'
  <2>1. j \in reg /\ loop' # "stepping"
    BY <1>5 DEF KillJob, UserKills, QuitCloses
  <2>2. CASE KillJob(j, dies)  BY <1>2, <2>1, <2>2 DEF KillJob
  <2>3. CASE UserKills(j, dies)  BY <1>2, <2>1, <2>3 DEF UserKills
  <2>4. CASE QuitCloses(j, dies)  BY <1>2, <2>1, <2>4 DEF QuitCloses
  <2> QED  BY <1>5, <2>2, <2>3, <2>4
<1>6. CASE StepExited
  <2>1. call.job \in reg /\ loop' # "stepping" /\ ProcClose(call.job, FALSE, "exit")
    BY <1>6 DEF StepExited, Anchored
  <2> QED  BY <1>2, <2>1
<1>7. CASE \/ StepGone \/ StepYields \/ StepWaits \/ DrainReaps \/ AskLive
           \/ Cancel \/ Quit \/ QuitEnds
           \/ \E j \in Ids : Drain(j)
           \/ \E j \in Ids, n \in Bodies, c \in BOOLEAN : WriteStdin(j, n, c)
  <2>1. /\ nextId' = nextId /\ reg' = reg /\ ended' = ended
    BY <1>7 DEF StepGone, StepYields, StepWaits, DrainReaps, AskLive, Cancel, Quit,
                QuitEnds, Drain, WriteStdin, Reap
  <2>2. loop' # "stepping"
    BY <1>7 DEF StepGone, StepYields, StepWaits, DrainReaps, AskLive, Cancel, Quit,
                QuitEnds, Drain, WriteStdin, AfterStep
  <2> QED  BY <2>1, <2>2 DEF Anchored
<1>8. CASE WindowCloses
  BY <1>8 DEF Anchored, WindowCloses
<1>9. CASE UNCHANGED vars
  BY <1>9 DEF Anchored, vars
<1> QED
  BY <1>1, <1>3, <1>4, <1>5, <1>6, <1>7, <1>8, <1>9
  DEF Next, Tools, User, StepEnds

(* No step forgets a child of a registered job or leaves a terminal open    *)
(* with nobody to close it.                                                 *)
LEMMA TrackedStep ==
    TypeOK /\ Anchored /\ Tracked /\ NoLeak /\ [Next]_vars => Tracked' /\ NoLeak'
<1> SUFFICES ASSUME TypeOK, Anchored, Tracked, NoLeak, [Next]_vars
             PROVE  Tracked' /\ NoLeak'
  OBVIOUS
<1> USE DEF procs
<1>1. /\ child \in [Ids -> Alive \cup {"none", "zombie", "reaped"}]
      /\ pty \in [Ids -> Tty]
      /\ ended \in [Ids -> {"no", "exit", "killed", "user", "quit"}]
      /\ reg \subseteq Ids /\ orphans \subseteq Ids
  BY DEF TypeOK

(* Steps that open nothing, start nothing and close nothing.                *)
<1>2. ASSUME reg' = reg, orphans \subseteq orphans' \cup {o \in Ids : child'[o] = "reaped"},
             given' = given, ended' = ended,
             \A i \in Ids : /\ child'[i] # "none" => child[i] # "none"
                            /\ child'[i] \in Alive \cup {"zombie"} =>
                                 child[i] \in Alive \cup {"zombie"}
                            /\ pty'[i].open => pty[i].open,
             \A i \in orphans \ orphans' : ~pty'[i].open
      PROVE  Tracked' /\ NoLeak'
  <2>1. ASSUME NEW i \in Ids
        PROVE  /\ child'[i] \in Alive \cup {"zombie"} => i \in reg' \cup orphans' \cup given'
               /\ child'[i] # "none" => (i \in reg' <=> ended'[i] = "no")
               /\ pty'[i].open => i \in reg' \cup orphans'
    <3>1. child'[i] = "reaped" => child'[i] \notin Alive \cup {"zombie"}  BY DEF Alive
    <3> QED  BY <1>2, <3>1 DEF Tracked, NoLeak
  <2> QED  BY <2>1 DEF Tracked, NoLeak
<1>3. ASSUME NEW js \in SUBSET Ids, Reap(js)
      PROVE  \A i \in Ids : /\ child'[i] # "none" => child[i] # "none"
                            /\ child'[i] \in Alive \cup {"zombie"} =>
                                 child[i] \in Alive \cup {"zombie"}
                            /\ pty'[i].open => pty[i].open
  BY <1>3, ReapKeeps DEF Alive
<1>4. ASSUME NEW j \in Ids, Child(j) PROVE Tracked' /\ NoLeak'
  <2>1. /\ reg' = reg /\ orphans' = orphans /\ given' = given /\ ended' = ended
    BY <1>4 DEF Child, ChildWrites, ChildReads, ChildLetsGo, ChildExits, ExitCompletes
  <2>2. \A i \in Ids : /\ child'[i] # "none" => child[i] # "none"
                       /\ child'[i] \in Alive \cup {"zombie"} =>
                            child[i] \in Alive \cup {"zombie"}
    BY <1>1, <1>4 DEF Child, ChildWrites, ChildReads, ChildLetsGo, ChildExits,
                      ExitCompletes, Alive
  <2>3. \A i \in Ids : pty'[i].open => pty[i].open
    <3>1. pty' = pty \/ \E u : /\ pty' = [pty EXCEPT ![j] = u]
                              /\ u.open = pty[j].open
      <4>1. ASSUME NEW n PROVE /\ [pty[j] EXCEPT !.out = n].open = pty[j].open
                               /\ [pty[j] EXCEPT !.in = n].open = pty[j].open
                               /\ [pty[j] EXCEPT !.slave = n].open = pty[j].open
        BY <1>1 DEF Tty
      <4> QED  BY <1>4, <4>1 DEF Child, ChildWrites, ChildReads, ChildLetsGo,
                                ChildExits, ExitCompletes
    <3> QED  BY <1>1, <3>1
  <2> QED  BY <1>2, <2>1, <2>2, <2>3
<1>5. ASSUME NEW j \in Ids, Drain(j) PROVE Tracked' /\ NoLeak'
  <2>1. \A i \in Ids : pty'[i].open => pty[i].open
    <3>1. Gathered(pty[j]).open => pty[j].open  BY <1>1, TtyKeeps
    <3> QED  BY <1>1, <1>5, <3>1 DEF Drain
  <2> QED  BY <1>2, <1>5, <2>1 DEF Drain
<1>6. CASE ExecCommand
  <2>1. /\ nextId \in Ids /\ reg' = reg \cup {nextId} /\ orphans' = orphans
        /\ given' = given /\ ended' = ended /\ ended[nextId] = "no"
        /\ child' = [child EXCEPT ![nextId] = "run"]
    BY <1>6 DEF ExecCommand, Anchored, TypeOK, Ids
  <2>2. \A i \in Ids : i # nextId => pty'[i] = pty[i]
    BY <1>1, <1>6, <2>1 DEF ExecCommand
  <2>3. Tracked'  BY <1>1, <2>1 DEF Tracked
  <2>4. NoLeak'  BY <2>1, <2>2 DEF NoLeak
  <2> QED  BY <2>3, <2>4
<1>7. ASSUME NEW j \in Ids, NEW dies \in BOOLEAN,
             KillJob(j, dies) \/ UserKills(j, dies) \/ QuitCloses(j, dies)
      PROVE  Tracked' /\ NoLeak'
  <2>1. CASE KillJob(j, dies)  BY <2>1, CloseSafe DEF KillJob
  <2>2. CASE UserKills(j, dies)  BY <2>2, CloseSafe DEF UserKills
  <2>3. CASE QuitCloses(j, dies)  BY <2>3, CloseSafe DEF QuitCloses
  <2> QED  BY <1>7, <2>1, <2>2, <2>3
<1>8. CASE StepExited
  <2>1. call.job \in Ids /\ ProcClose(call.job, FALSE, "exit")
    BY <1>1, <1>8 DEF StepExited, Anchored
  <2> QED  BY <2>1, CloseSafe
<1>9. CASE StepPump
  <2>1. \A i \in Ids : pty'[i].open => pty[i].open
    <3>1. call.job \in Ids /\ pty[call.job] \in Tty  BY <1>1, <1>9 DEF StepPump
    <3>2. PICK n : pty' = [pty EXCEPT ![call.job] =
                             Gathered([pty[call.job] EXCEPT !.in = n])]
      BY <1>9 DEF StepPump
    <3>3. [pty[call.job] EXCEPT !.in = n].open = pty[call.job].open
      BY <3>1 DEF Tty
    <3>4. Gathered([pty[call.job] EXCEPT !.in = n]).open => pty[call.job].open
      BY <3>3 DEF Gathered
    <3> QED  BY <1>1, <3>1, <3>2, <3>4
  <2> QED  BY <1>2, <1>9, <2>1 DEF StepPump
<1>10. CASE DrainReaps
  <2>1. Reap({drainee})  BY <1>10 DEF DrainReaps
  <2>2. CASE drainee \in Ids
    BY <1>2, <1>3, <1>10, <2>1, <2>2 DEF DrainReaps
  <2>3. CASE drainee \notin Ids
    <3>1. child' = child /\ pty' = pty
      BY <1>1, <2>1, <2>3 DEF Reap
    <3> QED  BY <1>2, <1>10, <3>1 DEF DrainReaps
  <2> QED  BY <2>2, <2>3
<1>11. CASE AskLive
  <2>1. Reap(reg)  BY <1>11 DEF AskLive
  <2> QED  BY <1>1, <1>2, <1>3, <1>11, <2>1 DEF AskLive
<1>12. CASE QuitEnds
  <2>1. Reap(orphans) /\ orphans' = {o \in orphans : child[o] # "zombie"}
    BY <1>12 DEF QuitEnds
  <2>2. \A o \in orphans \ orphans' : child'[o] = "reaped" /\ ~pty'[o].open
    <3>1. \A o \in orphans \ orphans' : o \in Ids /\ child[o] = "zombie"
      BY <1>1, <2>1
    <3>2. \A o \in orphans \ orphans' : pty'[o] = Shut(pty[o]) /\ child'[o] = "reaped"
      BY <2>1, <3>1 DEF Reap
    <3>3. \A o \in Ids : ~Shut(pty[o]).open  BY <1>1, TtyKeeps
    <3> QED  BY <3>1, <3>2, <3>3
  <2>3. orphans \subseteq orphans' \cup {o \in Ids : child'[o] = "reaped"}
    BY <1>1, <2>2
  <2>4. reg' = reg /\ given' = given /\ ended' = ended  BY <1>12 DEF QuitEnds
  <2>5. \A i \in Ids : /\ child'[i] # "none" => child[i] # "none"
                       /\ child'[i] \in Alive \cup {"zombie"} =>
                            child[i] \in Alive \cup {"zombie"}
                       /\ pty'[i].open => pty[i].open
    BY <1>1, <1>3, <2>1
  <2> QED  BY <1>2, <2>2, <2>3, <2>4, <2>5
<1>13. CASE \/ StepGone \/ StepYields \/ StepWaits \/ WindowCloses
            \/ Cancel \/ Quit \/ UNCHANGED vars
            \/ \E j \in Ids, n \in Bodies, c \in BOOLEAN : WriteStdin(j, n, c)
  <2>1. /\ reg' = reg /\ orphans' = orphans /\ given' = given /\ ended' = ended
        /\ child' = child /\ pty' = pty
    BY <1>13 DEF StepGone, StepYields, StepWaits, WindowCloses, Cancel, Quit,
                 WriteStdin, vars
  <2> QED  BY <1>2, <2>1
<1> QED
  BY <1>4, <1>5, <1>6, <1>7, <1>8, <1>9, <1>10, <1>11, <1>12, <1>13
  DEF Next, Tools, User, StepEnds

(* Every byte of a child is in the terminal, the buffer, the model's hands  *)
(* or the count of those lost; a dropped job was told to the model.         *)
LEMMA BytesStep ==
    /\ TypeOK /\ Anchored /\ Accounted /\ EndedIsTold /\ [Next]_vars
    => Accounted' /\ EndedIsTold'
<1> SUFFICES ASSUME TypeOK, Anchored, Accounted, EndedIsTold, [Next]_vars
             PROVE  Accounted' /\ EndedIsTold'
  OBVIOUS
<1> USE DEF procs
<1>1. /\ pty \in [Ids -> Tty] /\ buf \in [Ids -> Bytes] /\ reg \subseteq Ids
      /\ ended \in [Ids -> {"no", "exit", "killed", "user", "quit"}]
      /\ \A i \in Ids : buf[i].total = buf[i].told + buf[i].dropped + buf[i].len
      /\ \A i \in Ids : pty[i].out \in Nat
      /\ \A i \in reg : ended[i] = "no"
  <2>1. \A t \in Tty : t.out \in Nat  BY ConstantsAssumption DEF Tty
  <2> QED  BY <2>1 DEF TypeOK, Accounted, Anchored

(* The buffer of a registered job grows; the job has not ended.             *)
<1>2. ASSUME NEW j \in reg, buf' = [buf EXCEPT ![j] = BufAppend(@, pty[j].out)],
             ended' = ended
      PROVE  Accounted' /\ EndedIsTold'
  <2>1. LET b == BufAppend(buf[j], pty[j].out) IN b.total = b.told + b.dropped + b.len
    BY <1>1, AppendKeeps
  <2>2. \A i \in Ids : i # j => buf'[i] = buf[i]  BY <1>1, <1>2
  <2>3. buf'[j] = BufAppend(buf[j], pty[j].out)  BY <1>1, <1>2
  <2>4. Accounted'  BY <1>1, <2>1, <2>2, <2>3 DEF Accounted
  <2>5. EndedIsTold'  BY <1>1, <1>2, <2>2 DEF EndedIsTold
  <2> QED  BY <2>4, <2>5

(* The buffer of a registered job is handed out; the job may end with it.   *)
<1>3. ASSUME NEW j \in reg, buf' = [buf EXCEPT ![j] = Take(@)],
             \A i \in Ids : i # j => ended'[i] = ended[i]
      PROVE  Accounted' /\ EndedIsTold'
  <2>1. LET b == Take(buf[j]) IN /\ b.total = b.told + b.dropped + b.len
                                 /\ b.told = b.total
    BY <1>1, TakeTells
  <2>2. \A i \in Ids : i # j => buf'[i] = buf[i]  BY <1>1, <1>3
  <2>3. buf'[j] = Take(buf[j])  BY <1>1, <1>3
  <2>4. Accounted'  BY <1>1, <2>1, <2>2, <2>3 DEF Accounted
  <2>5. EndedIsTold'  BY <1>1, <1>3, <2>1, <2>2, <2>3 DEF EndedIsTold
  <2> QED  BY <2>4, <2>5

(* No buffer changes, and no job ends in the model's sight.                 *)
<1>4. ASSUME buf' = buf,
             \A i \in Ids : ended'[i] = ended[i] \/ ended'[i] \in {"user", "quit"}
      PROVE  Accounted' /\ EndedIsTold'
  BY <1>4 DEF Accounted, EndedIsTold
<1>5. ASSUME NEW j \in Ids, Drain(j) PROVE Accounted' /\ EndedIsTold'
  BY <1>2, <1>5 DEF Drain, Subscribed
<1>6. CASE StepPump
  BY <1>2, <1>6 DEF StepPump
<1>7. ASSUME NEW j \in Ids, NEW dies \in BOOLEAN, KillJob(j, dies)
      PROVE  Accounted' /\ EndedIsTold'
  <2>1. \A i \in Ids : i # j => ended'[i] = ended[i]
    BY <1>1, <1>7 DEF KillJob, ProcClose
  <2> QED  BY <1>3, <1>7, <2>1 DEF KillJob
<1>8. CASE StepExited
  <2>1. call.job \in reg  BY <1>8 DEF StepExited, Anchored
  <2>2. \A i \in Ids : i # call.job => ended'[i] = ended[i]
    BY <1>1, <1>8 DEF StepExited, ProcClose
  <2> QED  BY <1>3, <1>8, <2>1, <2>2 DEF StepExited
<1>9. CASE StepYields
  <2>1. call.job \in reg  BY <1>9 DEF StepYields, Anchored
  <2> QED  BY <1>3, <1>9, <2>1 DEF StepYields
<1>10. ASSUME NEW j \in Ids, NEW dies \in BOOLEAN,
              UserKills(j, dies) \/ QuitCloses(j, dies)
       PROVE  Accounted' /\ EndedIsTold'
  <2>1. \A i \in Ids : ended'[i] = ended[i] \/ ended'[i] \in {"user", "quit"}
    BY <1>1, <1>10 DEF UserKills, QuitCloses, ProcClose
  <2> QED  BY <1>4, <1>10, <2>1 DEF UserKills, QuitCloses
<1>11. ASSUME \/ StepGone \/ StepWaits \/ WindowCloses \/ DrainReaps \/ AskLive
              \/ Cancel \/ Quit \/ QuitEnds \/ UNCHANGED vars \/ ExecCommand
              \/ \E j \in Ids : Child(j)
              \/ \E j \in Ids, n \in Bodies, c \in BOOLEAN : WriteStdin(j, n, c)
       PROVE  Accounted' /\ EndedIsTold'
  <2>1. buf' = buf /\ ended' = ended
    BY <1>11 DEF StepGone, StepWaits, WindowCloses, DrainReaps, AskLive, Cancel,
                 Quit, QuitEnds, vars, ExecCommand, Child, ChildWrites, ChildReads,
                 ChildLetsGo, ChildExits, ExitCompletes, WriteStdin
  <2> QED  BY <1>4, <2>1
<1> QED
  BY <1>5, <1>6, <1>7, <1>8, <1>9, <1>10, <1>11
  DEF Next, Tools, User, StepEnds

(* The end-of-file byte follows the whole of a body.                        *)
LEMMA EofStep == TypeOK /\ EofAfterBody /\ [Next]_vars => EofAfterBody'
<1> SUFFICES ASSUME TypeOK, EofAfterBody, [Next]_vars PROVE EofAfterBody'
  OBVIOUS
<1> USE DEF procs
<1>1. CASE call' = call \/ call' = NoCall
  BY <1>1 DEF EofAfterBody
<1>2. CASE StepPump
  <2> DEFINE t == pty[call.job]
             room == InCap - t.in
             sent(broke) == IF broke THEN 0
                            ELSE IF call.left < room THEN call.left ELSE room
             left(broke) == IF broke THEN 0 ELSE call.left - sent(broke)
  <2>1. call \in Calls /\ call # NoCall /\ call.job \in Ids /\ t \in Tty
    BY <1>2 DEF StepPump, Stepped, TypeOK, Calls
  <2>2. call.left \in Nat /\ room \in Nat
    <3>1. t.in \in 0 .. InCap /\ InCap \in Nat
      BY <2>1, ConstantsAssumption DEF Tty
    <3> QED  BY <2>1, <3>1 DEF Calls
  <2>3. PICK broke \in BOOLEAN :
          call' = [call EXCEPT !.left = left(broke),
                     !.eof = @ \/ EndsInput(call, left(broke), broke)]
    BY <1>2 DEF StepPump
  <2>4. call.left = 0 => left(broke) = 0  BY <2>2
  <2> DEFINE e == call.eof \/ EndsInput(call, left(broke), broke)
  <2>5. call' = [call EXCEPT !.left = left(broke), !.eof = e]  BY <2>3
  <2>6. e => call.close /\ left(broke) = 0
    <3> HIDE DEF left
    <3> QED  BY <2>1, <2>4 DEF EofAfterBody, EndsInput
  <2>7. call'.close = call.close /\ call'.left = left(broke) /\ call'.eof = e
    <3> HIDE DEF left, e
    <3> QED  BY <2>1, <2>5 DEF Calls
  <2> HIDE DEF left, e
  <2> QED  BY <2>6, <2>7 DEF EofAfterBody
<1>3. CASE ExecCommand \/ \E j \in Ids, n \in Bodies, c \in BOOLEAN : WriteStdin(j, n, c)
  <2>1. call'.eof = FALSE  BY <1>3 DEF ExecCommand, WriteStdin
  <2> QED  BY <2>1 DEF EofAfterBody
<1>4. ASSUME \/ StepGone \/ StepEnds \/ WindowCloses \/ DrainReaps \/ User
             \/ UNCHANGED vars \/ \E j \in Ids : Child(j) \/ Drain(j)
             \/ \E j \in Ids, dies \in BOOLEAN : KillJob(j, dies)
      PROVE  EofAfterBody'
  <2>1. call' = call \/ call' = NoCall
    BY <1>4 DEF StepGone, StepEnds, StepExited, StepYields, StepWaits, WindowCloses,
                DrainReaps, User, AskLive, Cancel, Quit, QuitEnds, UserKills,
                QuitCloses, vars, Child, ChildWrites, ChildReads, ChildLetsGo,
                ChildExits, ExitCompletes, Drain, KillJob
  <2> QED  BY <1>1, <2>1
<1> QED  BY <1>2, <1>3, <1>4 DEF Next, Tools

-----------------------------------------------------------------------------
(* The theorems.                                                            *)

(* The invariants hold before the first job is started.                     *)
LEMMA SafeInit == Init => Safe
<1> SUFFICES ASSUME Init PROVE Safe
  OBVIOUS
<1>1. /\ MaxIds \in Nat /\ MaxJobs \in Nat /\ OrphanCap \in Nat
      /\ TtyCap \in Nat /\ InCap \in Nat /\ BufMax \in Nat
  BY ConstantsAssumption
<1>2. NoTty \in Tty /\ NoTty.open = FALSE  BY <1>1 DEF NoTty, Tty
<1>3. NoBytes \in Bytes /\ NoBytes.total = 0 /\ NoBytes.told = 0
      /\ NoBytes.dropped = 0 /\ NoBytes.len = 0
  BY <1>1 DEF NoBytes, Bytes
<1>4. Cardinality({}) = 0  BY FS_EmptySet
<1>5. TypeOK
  <2>1. nextId \in 1 .. MaxIds + 1  BY <1>1 DEF Init
  <2>2. /\ reg \subseteq Ids /\ orphans \subseteq Ids /\ given \subseteq Ids
        /\ Cardinality(reg) <= MaxJobs /\ Cardinality(orphans) <= OrphanCap
    BY <1>1, <1>4 DEF Init
  <2>3. /\ child \in [Ids -> Alive \cup {"none", "zombie", "reaped"}]
        /\ pty \in [Ids -> Tty] /\ buf \in [Ids -> Bytes]
        /\ made \in [Ids -> Nat] /\ missed \in [Ids -> Nat]
        /\ ended \in [Ids -> {"no", "exit", "killed", "user", "quit"}]
    BY <1>2, <1>3 DEF Init
  <2> QED  BY <2>1, <2>2, <2>3 DEF Init, TypeOK
<1>6. Anchored  BY DEF Init, Anchored
<1>7. Accounted /\ EndedIsTold  BY <1>3 DEF Init, Accounted, EndedIsTold
<1>8. Tracked /\ NoLeak  BY <1>2 DEF Init, Tracked, NoLeak, Alive
<1>9. EofAfterBody  BY DEF Init, EofAfterBody
<1> QED  BY <1>5, <1>6, <1>7, <1>8, <1>9 DEF Safe

(* The invariant of the process layer.                                      *)
THEOREM SafeHolds == Spec => []Safe
<1>1. Init => Safe  BY SafeInit
<1>2. Safe /\ [Next]_vars => Safe'
  BY TypeStep, AnchoredStep, TrackedStep, BytesStep, EofStep DEF Safe
<1> QED  BY <1>1, <1>2, PTL DEF Spec

(* The registry, the orphan list and every buffer stay within their caps.   *)
THEOREM TypeCorrect == Spec => []TypeOK
<1>1. Safe => TypeOK  BY DEF Safe
<1> QED  BY <1>1, SafeHolds, PTL

(* No output that was read is lost or told twice, whatever is evicted, and  *)
(* the end of input follows the whole body.                                 *)
THEOREM BytesAccounted == Spec => []BytesTold
<1>1. Safe => BytesTold  BY DEF Safe, BytesTold
<1> QED  BY <1>1, SafeHolds, PTL

(* No child is forgotten, calls that end or are cancelled keep the job, and *)
(* no terminal stays open past the jobs that can be named.                  *)
THEOREM ChildrenTracked == Spec => []Custody
<1>1. Safe => Custody  BY DEF Safe, Custody
<1> QED  BY <1>1, SafeHolds, PTL

-----------------------------------------------------------------------------
(* Least elements. *)

(* The first of a set of naturals is its least element.                     *)
LEMMA FirstIsLeast ==
    ASSUME NEW T, T \subseteq Nat, T # {}
    PROVE  First(T) \in T /\ \A y \in T : First(T) <= y
  BY LeastNatural DEF First

-----------------------------------------------------------------------------
(* The elements of a list that are in a set. *)

(* What Of has collected of the first n elements.                           *)
Collects(f, list, S, m) ==
    f = [n \in 0 .. m |-> IF n = 0 THEN <<>>
                          ELSE IF list[n] \in S THEN Append(f[n - 1], list[n])
                          ELSE f[n - 1]]

(* There is such a function.                                                *)
LEMMA CollectsExists ==
    ASSUME NEW list, NEW S, NEW m \in Nat
    PROVE  \E f : Collects(f, list, S, m)
  <1> DEFINE Bad == {n \in Nat : ~ \E f : Collects(f, list, S, n)}
  <1>1. SUFFICES ASSUME Bad # {} PROVE FALSE
    OBVIOUS
  <1>2. PICK n \in Bad : \A k \in Bad : n <= k
    <2>1. Bad \subseteq Nat
      OBVIOUS
    <2> HIDE DEF Bad
    <2> QED
      BY <1>1, <2>1, LeastNatural
  <1>3. n # 0
    <2>1. Collects([k \in 0 .. 0 |-> <<>>], list, S, 0)
      BY DEF Collects
    <2> QED
      BY <1>2, <2>1
  <1>4. n \in Nat /\ n - 1 \in Nat /\ n - 1 \notin Bad
    BY <1>2, <1>3
  <1>5. PICK f : Collects(f, list, S, n - 1)
    BY <1>4
  <1> DEFINE last == IF list[n] \in S THEN Append(f[n - 1], list[n]) ELSE f[n - 1]
             g == [k \in 0 .. n |-> IF k = n THEN last ELSE f[k]]
  <1>6. \A k \in 0 .. (n - 1) : g[k] = f[k] /\ k \in 0 .. n /\ k # n
    BY <1>4
  <1>7. Collects(g, list, S, n)
    <2>1. ASSUME NEW k \in 0 .. n
          PROVE  g[k] = IF k = 0 THEN <<>>
                        ELSE IF list[k] \in S THEN Append(g[k - 1], list[k])
                        ELSE g[k - 1]
      <3>1. CASE k = n
        <4>1. g[k] = last /\ g[k - 1] = f[n - 1]
          BY <1>4, <1>6, <3>1
        <4> QED
          BY <1>3, <3>1, <4>1
      <3>2. CASE k # n
        <4>1. k \in 0 .. (n - 1) /\ (k # 0 => k - 1 \in 0 .. (n - 1))
          BY <1>4, <3>2
        <4>2. f[k] = IF k = 0 THEN <<>>
                     ELSE IF list[k] \in S THEN Append(f[k - 1], list[k])
                     ELSE f[k - 1]
          BY <1>5, <4>1 DEF Collects
        <4> QED
          BY <1>6, <4>1, <4>2
      <3> QED
        BY <3>1, <3>2
    <2> HIDE DEF last
    <2> QED
      BY <2>1 DEF Collects
  <1> QED
    BY <1>2, <1>7

(* Of is the last value of it.                                              *)
LEMMA OfIsCollected ==
    ASSUME NEW list \in Seq(Addrs), NEW S
    PROVE  \E f : Collects(f, list, S, Len(list)) /\ Of(list, S) = f[Len(list)]
  <1>1. Len(list) \in Nat
    OBVIOUS
  <1>2. \E f : Collects(f, list, S, Len(list))
    BY <1>1, CollectsExists
  <1> QED
    BY <1>2 DEF Of, SelectSeq, Collects
(* pos says where the elements of r stand in list: in order, and all of     *)
(* those in S among the first m.                                            *)
Picks(pos, r, list, S, m) ==
    /\ pos \in [1 .. Len(r) -> 1 .. m]
    /\ \A k \in 1 .. Len(r) : r[k] = list[pos[k]] /\ list[pos[k]] \in S
    /\ \A k, l \in 1 .. Len(r) : k < l => pos[k] < pos[l]
    /\ \A n \in 1 .. m : list[n] \in S => \E k \in 1 .. Len(r) : pos[k] = n

(* One more element of the list, in S or not.                               *)
LEMMA PicksOneMore ==
    ASSUME NEW list \in Seq(Addrs), NEW S, NEW m \in Nat, m + 1 <= Len(list),
           NEW r \in Seq(Addrs), NEW pos, Picks(pos, r, list, S, m)
    PROVE  LET s == IF list[m + 1] \in S THEN Append(r, list[m + 1]) ELSE r
           IN  s \in Seq(Addrs) /\ \E p : Picks(p, s, list, S, m + 1)
  <1>1. /\ list[m + 1] \in Addrs /\ Len(r) \in Nat /\ Len(list) \in Nat
        /\ m + 1 \in 1 .. Len(list)
    OBVIOUS
  <1>2. CASE list[m + 1] \notin S
    <2>1. \A n \in 1 .. (m + 1) : list[n] \in S => n \in 1 .. m
      BY <1>2
    <2>2. pos \in [1 .. Len(r) -> 1 .. (m + 1)]
      BY DEF Picks
    <2>3. Picks(pos, r, list, S, m + 1)
      BY <2>1, <2>2 DEF Picks
    <2> QED
      BY <1>2, <2>3
  <1>3. CASE list[m + 1] \in S
    <2> DEFINE s == Append(r, list[m + 1])
               p == [k \in 1 .. Len(s) |-> IF k = Len(s) THEN m + 1 ELSE pos[k]]
    <2>1. /\ s \in Seq(Addrs) /\ Len(s) = Len(r) + 1
          /\ \A k \in 1 .. Len(r) : s[k] = r[k]
          /\ s[Len(r) + 1] = list[m + 1]
      BY <1>1
    <2> HIDE DEF s
    <2>a. \A k \in 1 .. Len(s) : p[k] = IF k = Len(s) THEN m + 1 ELSE pos[k]
      OBVIOUS
    <2>b. \A k \in 1 .. Len(r) : pos[k] \in 1 .. m
      BY DEF Picks
    <2>c. \A k \in 1 .. Len(s) : k # Len(s) => k \in 1 .. Len(r)
      BY <1>1, <2>1
    <2>d. \A k \in 1 .. Len(s) : (IF k = Len(s) THEN m + 1 ELSE pos[k]) \in 1 .. (m + 1)
      <3>1. ASSUME NEW k \in 1 .. Len(s), k # Len(s) PROVE pos[k] \in 1 .. (m + 1)
        BY <2>b, <2>c, <3>1
      <3>2. m + 1 \in 1 .. (m + 1)
        OBVIOUS
      <3> QED
        BY <3>1, <3>2
    <2>3. p \in [1 .. Len(s) -> 1 .. (m + 1)]
      BY <2>d
    <2> HIDE DEF p
    <2>2. /\ \A k \in 1 .. Len(r) : p[k] = pos[k] /\ pos[k] \in 1 .. m
          /\ p[Len(s)] = m + 1
          /\ \A k \in 1 .. Len(s) : k \in 1 .. Len(r) \/ k = Len(s)
          /\ \A k \in 1 .. Len(r) : k \in 1 .. Len(s)
          /\ Len(s) \in 1 .. Len(s)
      BY <1>1, <2>1, <2>a, <2>b
    <2>4. \A k \in 1 .. Len(s) : s[k] = list[p[k]] /\ list[p[k]] \in S
      BY <1>3, <2>1, <2>2 DEF Picks
    <2>5. \A k, l \in 1 .. Len(s) : k < l => p[k] < p[l]
      <3>1. SUFFICES ASSUME NEW k \in 1 .. Len(s), NEW l \in 1 .. Len(s), k < l
                     PROVE  p[k] < p[l]
        OBVIOUS
      <3>2. k \in 1 .. Len(r)
        BY <1>1, <2>1, <3>1
      <3>3. CASE l = Len(s)
        BY <2>2, <3>2, <3>3
      <3>4. CASE l \in 1 .. Len(r)
        BY <2>2, <3>1, <3>2, <3>4 DEF Picks
      <3> QED
        BY <2>2, <3>3, <3>4
    <2>6. \A n \in 1 .. (m + 1) : list[n] \in S => \E k \in 1 .. Len(s) : p[k] = n
      <3>1. SUFFICES ASSUME NEW n \in 1 .. (m + 1), list[n] \in S
                     PROVE  \E k \in 1 .. Len(s) : p[k] = n
        OBVIOUS
      <3>2. CASE n = m + 1
        BY <2>2, <3>2
      <3>3. CASE n \in 1 .. m
        <4>1. PICK k \in 1 .. Len(r) : pos[k] = n
          BY <3>1, <3>3 DEF Picks
        <4> QED
          BY <2>2, <4>1
      <3> QED
        BY <3>2, <3>3
    <2>7. Picks(p, s, list, S, m + 1)
      BY <2>3, <2>4, <2>5, <2>6 DEF Picks
    <2> QED
      BY <1>3, <2>1, <2>7 DEF s
  <1> QED
    BY <1>2, <1>3

(* Of picks the elements of a list that are in a set, in their order.       *)
LEMMA OfPicks ==
    ASSUME NEW list \in Seq(Addrs), NEW S
    PROVE  /\ Of(list, S) \in Seq(Addrs)
           /\ \E pos : Picks(pos, Of(list, S), list, S, Len(list))
  <1>1. PICK f : Collects(f, list, S, Len(list)) /\ Of(list, S) = f[Len(list)]
    BY OfIsCollected
  <1> DEFINE Good(n) == f[n] \in Seq(Addrs) /\ \E pos : Picks(pos, f[n], list, S, n)
             Bad == {n \in 0 .. Len(list) : ~Good(n)}
  <1>2. SUFFICES ASSUME Bad # {} PROVE FALSE
    BY <1>1
  <1>3. PICK n \in Bad : \A k \in Bad : n <= k
    <2>1. Bad \subseteq Nat
      OBVIOUS
    <2> HIDE DEF Bad
    <2> QED
      BY <1>2, <2>1, LeastNatural
  <1>4. n \in Nat /\ Len(list) \in Nat /\ n \in 0 .. Len(list) /\ ~Good(n)
    BY <1>3
  <1>5. \A k \in 0 .. Len(list) :
          f[k] = IF k = 0 THEN <<>>
                 ELSE IF list[k] \in S THEN Append(f[k - 1], list[k]) ELSE f[k - 1]
    BY <1>1 DEF Collects
  <1>6. n # 0
    <2>1. f[0] = <<>> /\ Len(<<>>) = 0 /\ <<>> \in Seq(Addrs)
      BY <1>4, <1>5
    <2>2. Picks([k \in 1 .. 0 |-> 0], <<>>, list, S, 0)
      BY DEF Picks
    <2>3. Good(0)
      BY <2>1, <2>2
    <2> QED
      BY <1>4, <2>3
  <1>7. /\ n - 1 \in Nat /\ n - 1 \in 0 .. Len(list) /\ n - 1 \notin Bad
        /\ (n - 1) + 1 = n /\ n <= Len(list)
    BY <1>3, <1>4, <1>6
  <1>8. Good(n - 1)
    BY <1>7
  <1>9. PICK pos : Picks(pos, f[n - 1], list, S, n - 1)
    BY <1>8
  <1>10. f[n] = IF list[n] \in S THEN Append(f[n - 1], list[n]) ELSE f[n - 1]
    BY <1>4, <1>5, <1>6
  <1>11. Good(n)
    <2>1. /\ list \in Seq(Addrs) /\ n - 1 \in Nat /\ (n - 1) + 1 <= Len(list)
          /\ f[n - 1] \in Seq(Addrs) /\ Picks(pos, f[n - 1], list, S, n - 1)
      BY <1>4, <1>7, <1>8, <1>9
    <2> HIDE DEF Good, Bad
    <2>2. LET s == IF list[(n - 1) + 1] \in S THEN Append(f[n - 1], list[(n - 1) + 1])
                   ELSE f[n - 1]
          IN  s \in Seq(Addrs) /\ \E p : Picks(p, s, list, S, (n - 1) + 1)
      BY <2>1, PicksOneMore
    <2>3. (n - 1) + 1 = n
      BY <1>4
    <2>4. f[n] \in Seq(Addrs) /\ \E p : Picks(p, f[n], list, S, n)
      BY <1>10, <2>2, <2>3
    <2> QED
      BY <2>4 DEF Good
  <1> QED
    BY <1>4, <1>11

-----------------------------------------------------------------------------
(* The order of a walk. *)

(* At which place of list an address comes before that at another.          *)
Earlier(list, m, n) ==
    \/ list[m] \notin Deferred /\ list[n] \in Deferred
    \/ (list[m] \in Deferred <=> list[n] \in Deferred) /\ m < n

(* KeptFirst is a reordering of the list: the kept ones first.              *)
LEMMA KeptFirstOrder ==
    ASSUME NEW list \in Seq(Addrs)
    PROVE  LET r == KeptFirst(list)
           IN  /\ r \in Seq(Addrs) /\ Len(r) = Len(list)
               /\ \E pos \in [1 .. Len(r) -> 1 .. Len(list)] :
                     /\ \A i \in 1 .. Len(r) : r[i] = list[pos[i]]
                     /\ \A i, j \in 1 .. Len(r) :
                           i < j => Earlier(list, pos[i], pos[j])
                     /\ \A n \in 1 .. Len(list) : \E i \in 1 .. Len(r) : pos[i] = n
  <1> DEFINE a == Of(list, Addrs \ Deferred)
             b == Of(list, Deferred)
             r == KeptFirst(list)
  <1>1. a \in Seq(Addrs) /\ b \in Seq(Addrs)
    BY OfPicks
  <1>2. PICK pa : Picks(pa, a, list, Addrs \ Deferred, Len(list))
    BY OfPicks
  <1>3. PICK pb : Picks(pb, b, list, Deferred, Len(list))
    BY OfPicks
  <1>4. r = a \o b
    BY DEF KeptFirst
  <1> HIDE DEF a, b, r
  <1>5. /\ r \in Seq(Addrs) /\ Len(a) \in Nat /\ Len(b) \in Nat /\ Len(list) \in Nat
        /\ Len(r) = Len(a) + Len(b)
        /\ \A i \in 1 .. Len(r) : r[i] = IF i <= Len(a) THEN a[i] ELSE b[i - Len(a)]
    BY <1>1, <1>4, ConcatProperties
  <1>6. \A n \in 1 .. Len(list) : list[n] \in Addrs
    OBVIOUS
  <1> DEFINE pos == [i \in 1 .. Len(r) |->
                       IF i <= Len(a) THEN pa[i] ELSE pb[i - Len(a)]]
  <1>7. /\ \A i \in 1 .. Len(r) : i <= Len(a) => i \in 1 .. Len(a)
        /\ \A i \in 1 .. Len(r) : ~(i <= Len(a)) => i - Len(a) \in 1 .. Len(b)
    BY <1>5
  <1>8. /\ \A i \in 1 .. Len(a) : /\ pa[i] \in 1 .. Len(list) /\ a[i] = list[pa[i]]
                                  /\ list[pa[i]] \notin Deferred
        /\ \A i \in 1 .. Len(b) : /\ pb[i] \in 1 .. Len(list) /\ b[i] = list[pb[i]]
                                  /\ list[pb[i]] \in Deferred
        /\ \A i, j \in 1 .. Len(a) : i < j => pa[i] < pa[j]
        /\ \A i, j \in 1 .. Len(b) : i < j => pb[i] < pb[j]
        /\ \A n \in 1 .. Len(list) : list[n] \notin Deferred =>
              \E i \in 1 .. Len(a) : pa[i] = n
        /\ \A n \in 1 .. Len(list) : list[n] \in Deferred =>
              \E i \in 1 .. Len(b) : pb[i] = n
    BY <1>2, <1>3, <1>6 DEF Picks
  <1>9. pos \in [1 .. Len(r) -> 1 .. Len(list)]
    BY <1>7, <1>8
  <1>10. \A i \in 1 .. Len(r) : pos[i] = IF i <= Len(a) THEN pa[i] ELSE pb[i - Len(a)]
    OBVIOUS
  <1> HIDE DEF pos
  <1>11. \A i \in 1 .. Len(r) : r[i] = list[pos[i]]
    BY <1>5, <1>7, <1>8, <1>10
  <1>12. ASSUME NEW i \in 1 .. Len(r), NEW j \in 1 .. Len(r), i < j
         PROVE  Earlier(list, pos[i], pos[j]) /\ pos[i] # pos[j]
    <2>1. CASE j <= Len(a)
      <3>1. i \in 1 .. Len(a) /\ j \in 1 .. Len(a) /\ i <= Len(a)
        BY <1>5, <1>12, <2>1
      <3>2. /\ pos[i] = pa[i] /\ pos[j] = pa[j] /\ pa[i] < pa[j]
            /\ list[pa[i]] \notin Deferred /\ list[pa[j]] \notin Deferred
            /\ pa[i] \in Nat /\ pa[j] \in Nat
        BY <1>8, <1>10, <1>12, <2>1, <3>1
      <3> QED
        BY <3>2 DEF Earlier
    <2>2. CASE i <= Len(a) /\ ~(j <= Len(a))
      <3>1. i \in 1 .. Len(a) /\ j - Len(a) \in 1 .. Len(b)
        BY <1>7, <2>2
      <3>2. /\ list[pos[i]] \notin Deferred /\ list[pos[j]] \in Deferred
        BY <1>8, <1>10, <2>2, <3>1
      <3> QED
        BY <3>2 DEF Earlier
    <2>3. CASE ~(i <= Len(a)) /\ ~(j <= Len(a))
      <3>1. /\ i - Len(a) \in 1 .. Len(b) /\ j - Len(a) \in 1 .. Len(b)
            /\ i - Len(a) < j - Len(a)
        BY <1>5, <1>7, <1>12, <2>3
      <3>2. /\ pos[i] = pb[i - Len(a)] /\ pos[j] = pb[j - Len(a)]
            /\ pb[i - Len(a)] < pb[j - Len(a)]
            /\ list[pb[i - Len(a)]] \in Deferred /\ list[pb[j - Len(a)]] \in Deferred
            /\ pb[i - Len(a)] \in Nat /\ pb[j - Len(a)] \in Nat
        BY <1>8, <1>10, <2>3, <3>1
      <3> QED
        BY <3>2 DEF Earlier
    <2> QED
      BY <1>5, <1>12, <2>1, <2>2, <2>3
  <1>13. ASSUME NEW n \in 1 .. Len(list) PROVE \E i \in 1 .. Len(r) : pos[i] = n
    <2>1. CASE list[n] \notin Deferred
      <3>1. PICK i \in 1 .. Len(a) : pa[i] = n
        BY <1>8, <2>1
      <3>2. i \in 1 .. Len(r) /\ i <= Len(a)
        BY <1>5
      <3> QED
        BY <1>10, <3>1, <3>2
    <2>2. CASE list[n] \in Deferred
      <3>1. PICK i \in 1 .. Len(b) : pb[i] = n
        BY <1>8, <2>2
      <3>2. /\ i + Len(a) \in 1 .. Len(r) /\ ~(i + Len(a) <= Len(a))
            /\ (i + Len(a)) - Len(a) = i
        BY <1>5
      <3> QED
        BY <1>10, <3>1, <3>2
    <2> QED
      BY <2>1, <2>2
  <1>14. Len(r) = Len(list)
    <2>1. pos \in Bijection(1 .. Len(r), 1 .. Len(list))
      <3>1. \A i, j \in 1 .. Len(r) : i # j => pos[i] # pos[j]
        <4>1. SUFFICES ASSUME NEW i \in 1 .. Len(r), NEW j \in 1 .. Len(r), i # j
                       PROVE  pos[i] # pos[j]
          OBVIOUS
        <4>2. i < j \/ j < i
          BY <1>5, <4>1
        <4> QED
          BY <1>12, <4>2
      <3>2. \A n \in 1 .. Len(list) : \E i \in 1 .. Len(r) : pos[i] = n
        BY <1>13
      <3> QED
        BY <1>9, <3>1, <3>2 DEF Bijection, Injection, Surjection, IsInjective
    <2>2. /\ IsFiniteSet(1 .. Len(r)) /\ Cardinality(1 .. Len(r)) = Len(r)
      <3>1. 1 \in Int /\ Len(r) \in Int /\ (IF 1 > Len(r) THEN 0 ELSE Len(r) - 1 + 1) = Len(r)
        BY <1>5
      <3> QED
        BY <3>1, FS_Interval
    <2>3. Cardinality(1 .. Len(list)) = Len(list)
      <3>1. 1 \in Int /\ Len(list) \in Int
            /\ (IF 1 > Len(list) THEN 0 ELSE Len(list) - 1 + 1) = Len(list)
        BY <1>5
      <3> QED
        BY <3>1, FS_Interval
    <2>4. ExistsBijection(1 .. Len(r), 1 .. Len(list))
      BY <2>1 DEF ExistsBijection
    <2> QED
      BY <2>2, <2>3, <2>4, FS_Bijection
  <1>15. \A i, j \in 1 .. Len(r) : i < j => Earlier(list, pos[i], pos[j])
    BY <1>12
  <1> QED
    BY <1>5, <1>9, <1>11, <1>13, <1>14, <1>15 DEF r

-----------------------------------------------------------------------------
(* The table of answers. *)

(* A place has a key, and what Holds says.                                  *)
LEMMA SlotFacts ==
    /\ \A p \in Places : Key(p) \in Keys
    /\ Slots \subseteq Nat
    /\ \A T \in SUBSET Slots : T # {} => First(T) \in T
  <1>1. Slots \subseteq Nat
    BY CacheAssumption DEF Slots
  <1>2. ASSUME NEW T \in SUBSET Slots, T # {} PROVE First(T) \in T
    BY <1>1, <1>2, FirstIsLeast
  <1> QED
    BY <1>1, <1>2 DEF Keys

(* A miss frees no entry that could still answer.                           *)
LEMMA MissFreesNoAnswer ==
    ASSUME CacheTypeOK, NEW p \in Places, Lookup(p) = NoList
    PROVE  /\ Freed(p) \in [Slots -> [place : Places, left : 0 .. TTL, list : Lists]]
           /\ Own(Freed(p), p) = {}
           /\ \A i \in Slots : /\ Freed(p)[i].place = entries[i].place
                               /\ Freed(p)[i].left = entries[i].left
                               /\ Standing(entries, i) => Freed(p)[i] = entries[i]
                               /\ Standing(Freed(p), i) <=> Standing(entries, i)
  <1>1. Hits(p) = {}
    <2>1. SUFFICES ASSUME Hits(p) # {} PROVE FALSE
      OBVIOUS
    <2>2. First(Hits(p)) \in Hits(p)
      BY <2>1, SlotFacts DEF Hits
    <2> QED
      BY <2>1, <2>2 DEF Hits, Lookup, Standing, Used
  <1>2. ASSUME NEW i \in Slots
        PROVE  /\ Freed(p)[i] \in [place : Places, left : 0 .. TTL, list : Lists]
               /\ Freed(p)[i].place = entries[i].place
               /\ Freed(p)[i].left = entries[i].left
               /\ Freed(p)[i].list = IF Holds(entries, i, p) THEN NoList
                                     ELSE entries[i].list
               /\ ~Holds(entries, i, p) => Freed(p)[i] = entries[i]
    BY DEF Freed, CacheTypeOK, Lists
  <1>3. ASSUME NEW i \in Slots PROVE Holds(entries, i, p) => ~Standing(entries, i)
    BY <1>1 DEF Hits
  <1>4. ASSUME NEW i \in Slots PROVE ~Holds(Freed(p), i, p)
    BY <1>2 DEF Holds, Used
  <1>5. Freed(p) \in [Slots -> [place : Places, left : 0 .. TTL, list : Lists]]
    BY <1>2 DEF Freed
  <1>6. ASSUME NEW i \in Slots
        PROVE  /\ Standing(entries, i) => Freed(p)[i] = entries[i]
               /\ Standing(Freed(p), i) <=> Standing(entries, i)
    BY <1>2, <1>3 DEF Standing, Used
  <1> QED
    BY <1>2, <1>4, <1>5, <1>6 DEF Own

(* Where an answer is kept: never in the place of one that still stands,    *)
(* unless all of them do.                                                   *)
LEMMA SlotOfAnswer ==
    ASSUME CacheTypeOK, NEW p \in Places, Lookup(p) = NoList
    PROVE  /\ Slot(Freed(p), p) \in Slots
           /\ Turned(Freed(p), p) \in Slots
           /\ Standing(entries, Slot(Freed(p), p)) =>
                 \A j \in Slots : Standing(entries, j)
  <1>1. Own(Freed(p), p) = {} /\ \A i \in Slots : Standing(Freed(p), i) <=> Standing(entries, i)
    BY MissFreesNoAnswer
  <1>2. Spare(Freed(p)) # {} => First(Spare(Freed(p))) \in Spare(Freed(p))
    BY SlotFacts DEF Spare
  <1>3. hand \in Slots /\ (hand % Entries) + 1 \in Slots
    BY CacheAssumption DEF CacheTypeOK, Slots
  <1> QED
    BY <1>1, <1>2, <1>3 DEF Slot, Turned, Spare

(* Every step keeps the table as it was told.                               *)
LEMMA CacheStep ==
    ASSUME CacheInv, [CacheNext]_cache
    PROVE  CacheInv'
  <1> USE CacheAssumption
  <1>1. ASSUME NEW p \in Places, NEW list \in Lists, Remembered(p, list) PROVE CacheInv'
    BY <1>1 DEF Remembered, cache, CacheInv, CacheTypeOK, AsTold, Standing, Used, Key, Keys,
                Lists
  <1>2. ASSUME NEW p \in Places, NEW list, Asked(p, list) PROVE CacheInv'
    <2>1. /\ Lookup(p) = NoList /\ list \in Answers /\ list # NoList /\ CacheTypeOK
          /\ Key(p) \in Keys /\ TTL \in 0 .. TTL /\ TTL > 0
      BY <1>2, SlotFacts DEF Asked, CacheInv, NoList
    <2> DEFINE F == Freed(p)
    <2>2. /\ F \in [Slots -> [place : Places, left : 0 .. TTL, list : Lists]]
          /\ Own(F, p) = {}
          /\ \A i \in Slots : /\ F[i].place = entries[i].place
                              /\ F[i].left = entries[i].left
                              /\ Standing(entries, i) => F[i] = entries[i]
                              /\ Standing(F, i) <=> Standing(entries, i)
      BY <2>1, MissFreesNoAnswer
    <2>3. Slot(F, p) \in Slots /\ Turned(F, p) \in Slots
      BY <2>1, SlotOfAnswer
    <2> HIDE DEF F
    <2>4. CASE p.host \in TooLong
      <3>1. entries' = F /\ hand' = hand /\ told' = told
        BY <1>2, <2>4 DEF Asked, F
      <3>2. CacheTypeOK'
        BY <2>1, <2>2, <3>1 DEF CacheTypeOK
      <3>3. ASSUME NEW i \in Slots, Standing(entries', i)
            PROVE  told'[Key(entries'[i].place)] =
                      [list |-> entries'[i].list, left |-> entries'[i].left]
        BY <2>2, <3>1, <3>3 DEF CacheInv, AsTold
      <3> QED
        BY <3>2, <3>3 DEF CacheInv, AsTold
    <2>5. CASE p.host \notin TooLong
      <3> DEFINE e == [place |-> p, left |-> TTL, list |-> list]
                 s == Slot(F, p)
      <3>1. /\ entries' = [F EXCEPT ![s] = e] /\ hand' = Turned(F, p)
            /\ told' = [told EXCEPT ![Key(p)] = [list |-> list, left |-> TTL]]
        BY <1>2, <2>5 DEF Asked, F
      <3>2. e \in [place : Places, left : 0 .. TTL, list : Lists]
        BY <2>1 DEF Lists
      <3>3. CacheTypeOK'
        BY <2>1, <2>2, <2>3, <3>1, <3>2 DEF CacheTypeOK, Lists
      <3>4. ASSUME NEW i \in Slots, Standing(entries', i)
            PROVE  told'[Key(entries'[i].place)] =
                      [list |-> entries'[i].list, left |-> entries'[i].left]
        <4>1. CASE i = s
          BY <2>1, <2>2, <3>1, <4>1 DEF CacheTypeOK
        <4>2. CASE i # s
          <5>1. entries'[i] = F[i]
            BY <2>2, <3>1, <4>2
          <5>2. Standing(F, i) /\ F[i] = entries[i] /\ Standing(entries, i)
            BY <2>2, <3>4, <5>1 DEF Standing, Used
          <5>3. Key(entries[i].place) # Key(p)
            BY <2>2, <5>2 DEF Own, Holds, Standing
          <5>4. told'[Key(entries[i].place)] = told[Key(entries[i].place)]
            BY <2>1, <3>1, <5>3, SlotFacts DEF CacheTypeOK
          <5> QED
            BY <5>1, <5>2, <5>4 DEF CacheInv, AsTold
        <4> QED
          BY <4>1, <4>2
      <3> QED
        BY <3>3, <3>4 DEF CacheInv, AsTold
    <2> QED
      BY <2>4, <2>5
  <1>3. ASSUME NEW p \in Places, NEW list, Unanswered(p, list) PROVE CacheInv'
    <2>1. Lookup(p) = NoList /\ entries' = Freed(p) /\ hand' = hand /\ told' = told
      BY <1>3 DEF Unanswered
    <2>2. /\ Freed(p) \in [Slots -> [place : Places, left : 0 .. TTL, list : Lists]]
          /\ \A i \in Slots : /\ Standing(entries, i) => Freed(p)[i] = entries[i]
                              /\ Standing(Freed(p), i) <=> Standing(entries, i)
      BY <2>1, MissFreesNoAnswer DEF CacheInv
    <2>3. CacheTypeOK'
      BY <2>1, <2>2 DEF CacheInv, CacheTypeOK
    <2>4. ASSUME NEW i \in Slots, Standing(entries', i)
          PROVE  told'[Key(entries'[i].place)] =
                    [list |-> entries'[i].list, left |-> entries'[i].left]
      BY <2>1, <2>2, <2>4 DEF CacheInv, AsTold
    <2> QED
      BY <2>3, <2>4 DEF CacheInv, AsTold
  <1>4. CASE Age
    <2>1. \A n \in 0 .. TTL : Older(n) \in 0 .. TTL /\ (Older(n) > 0 => n > 0)
      BY DEF Older
    <2>2. ASSUME NEW i \in Slots
          PROVE  /\ entries'[i] = [entries[i] EXCEPT !.left = Older(@)]
                 /\ entries[i] \in [place : Places, left : 0 .. TTL, list : Lists]
      BY <1>4 DEF Age, CacheInv, CacheTypeOK
    <2>3. ASSUME NEW k \in Keys
          PROVE  /\ told'[k] = [told[k] EXCEPT !.left = Older(@)]
                 /\ told[k] \in [list : Lists, left : 0 .. TTL]
      BY <1>4 DEF Age, CacheInv, CacheTypeOK
    <2>4. CacheTypeOK'
      <3>1. entries' \in [Slots -> [place : Places, left : 0 .. TTL, list : Lists]]
        BY <1>4, <2>1, <2>2 DEF Age
      <3>2. told' \in [Keys -> [list : Lists, left : 0 .. TTL]]
        BY <1>4, <2>1, <2>3 DEF Age
      <3> QED
        BY <1>4, <3>1, <3>2 DEF Age, CacheInv, CacheTypeOK
    <2>5. ASSUME NEW i \in Slots, Standing(entries', i)
          PROVE  told'[Key(entries'[i].place)] =
                    [list |-> entries'[i].list, left |-> entries'[i].left]
      <3>1. /\ entries'[i].place = entries[i].place /\ entries'[i].list = entries[i].list
            /\ entries'[i].left = Older(entries[i].left)
        BY <2>2
      <3>2. Standing(entries, i)
        <4>1. entries[i].left \in 0 .. TTL
          BY <2>2
        <4>2. Older(entries[i].left) > 0 /\ entries'[i].list # NoList
          BY <2>5, <3>1 DEF Standing, Used
        <4> QED
          BY <2>1, <3>1, <4>1, <4>2 DEF Standing, Used
      <3>3. Key(entries[i].place) \in Keys
        BY <2>2, SlotFacts
      <3>4. told[Key(entries[i].place)] =
               [list |-> entries[i].list, left |-> entries[i].left]
        BY <3>2 DEF CacheInv, AsTold
      <3> DEFINE k == Key(entries[i].place)
      <3>5. told'[k] = [told[k] EXCEPT !.left = Older(@)]
        BY <2>3, <3>3
      <3>6. told'[k] = [list |-> entries[i].list, left |-> Older(entries[i].left)]
        BY <3>4, <3>5
      <3> QED
        BY <3>1, <3>6
    <2> QED
      BY <2>4, <2>5 DEF CacheInv, AsTold
  <1>5. CASE UNCHANGED cache
    BY <1>5 DEF cache, CacheInv, CacheTypeOK, AsTold, Standing, Used, Key, Keys, Lists
  <1> QED
    BY <1>1, <1>2, <1>3, <1>4, <1>5 DEF CacheNext, Resolve, Lists

(* The empty table.                                                         *)
LEMMA CacheStart ==
    ASSUME CacheInit PROVE CacheInv
  <1>1. Places # {} /\ (CHOOSE p \in Places : TRUE) \in Places
    <2>1. PICK h \in Hosts, q \in Ports : TRUE
      BY CacheAssumption
    <2>2. [host |-> h, port |-> q] \in Places
      BY DEF Places
    <2> QED
      BY <2>2
  <1>2. 1 \in Slots /\ 0 \in 0 .. TTL /\ NoList \in Lists
    BY CacheAssumption DEF Slots, Lists
  <1>3. CacheTypeOK
    BY <1>1, <1>2 DEF CacheInit, CacheTypeOK
  <1>4. \A i \in Slots : ~Standing(entries, i)
    BY DEF CacheInit, Standing, Used
  <1> QED
    BY <1>3, <1>4 DEF CacheInv, AsTold

(* A table as it was told answers with what it was told.                    *)
LEMMA AsToldAnswers ==
    ASSUME CacheInv PROVE AnswersItsOwnName
  <1>1. SUFFICES ASSUME NEW p \in Places, Lookup(p) # NoList
                 PROVE  told[Key(p)].left > 0 /\ Lookup(p) = told[Key(p)].list
    BY DEF AnswersItsOwnName
  <1>2. Hits(p) # {}
    BY <1>1 DEF Lookup
  <1>3. First(Hits(p)) \in Hits(p)
    BY <1>2, SlotFacts DEF Hits
  <1> DEFINE i == First(Hits(p))
  <1>4. /\ i \in Slots /\ Standing(entries, i) /\ Key(entries[i].place) = Key(p)
        /\ Lookup(p) = entries[i].list
    BY <1>2, <1>3 DEF Hits, Holds, Lookup
  <1> HIDE DEF i
  <1>5. told[Key(p)] = [list |-> entries[i].list, left |-> entries[i].left]
    BY <1>4 DEF CacheInv, AsTold
  <1> QED
    BY <1>4, <1>5 DEF Standing

(* A step that forgets a live answer finds every place taken.               *)
LEMMA ForgetsStep ==
    ASSUME CacheInv, [CacheNext]_cache, NEW i \in Slots,
           Standing(entries, i), entries[i].left > 1,
           ~(Standing(entries', i) /\ Key(entries'[i].place) = Key(entries[i].place))
    PROVE  \A j \in Slots : Standing(entries, j)
  <1>1. CASE UNCHANGED entries
    BY <1>1 DEF Standing, Used
  <1>2. ASSUME NEW p \in Places, NEW list, Asked(p, list)
        PROVE  \A j \in Slots : Standing(entries, j)
    <2>1. Lookup(p) = NoList /\ CacheTypeOK
      BY <1>2 DEF Asked, CacheInv
    <2>2. /\ Freed(p) \in [Slots -> [place : Places, left : 0 .. TTL, list : Lists]]
          /\ Freed(p)[i] = entries[i]
      BY <2>1, MissFreesNoAnswer
    <2>3. entries'[i] # entries[i]
      BY DEF Standing, Used
    <2>4. i = Slot(Freed(p), p)
      BY <1>2, <2>2, <2>3 DEF Asked
    <2> QED
      BY <2>1, <2>4, SlotOfAnswer
  <1>3. ASSUME NEW p \in Places, NEW list, Unanswered(p, list) PROVE FALSE
    <2>1. Lookup(p) = NoList /\ CacheTypeOK /\ entries' = Freed(p)
      BY <1>3 DEF Unanswered, CacheInv
    <2>2. Freed(p)[i] = entries[i]
      BY <2>1, MissFreesNoAnswer
    <2> QED
      BY <2>1, <2>2 DEF Standing, Used
  <1>4. CASE Age
    <2>1. /\ entries'[i] = [entries[i] EXCEPT !.left = Older(@)]
          /\ entries[i] \in [place : Places, left : 0 .. TTL, list : Lists]
      BY <1>4 DEF Age, CacheInv, CacheTypeOK
    <2>2. Older(entries[i].left) > 0
      BY CacheAssumption, <2>1 DEF Older
    <2> QED
      BY <2>1, <2>2 DEF Standing, Used
  <1> QED
    BY <1>1, <1>2, <1>3, <1>4 DEF CacheNext, Resolve, Remembered, cache

(* Whatever the callers ask, in whatever spelling, and whatever expires in  *)
(* between: the table is always as it was told.                             *)
THEOREM CacheInvariant == CacheSpec => []CacheInv
  <1>1. CacheInit => CacheInv
    BY CacheStart
  <1>2. CacheInv /\ [CacheNext]_cache => CacheInv'
    BY CacheStep
  <1> QED
    BY <1>1, <1>2, PTL DEF CacheSpec

(* Therefore it answers a name and port only with what the name service     *)
(* said last of them, while that is fresh, and forgets a live answer early  *)
(* only when there is no other place (addr_cache_lookup, addr_cache_store). *)
THEOREM CacheKeepsNames == CacheSpec => NamesKept
  <1>1. CacheInv => AnswersItsOwnName
    BY AsToldAnswers
  <1>2. CacheInv /\ [CacheNext]_cache =>
          [\A i \in Slots :
             Standing(entries, i) /\ entries[i].left > 1
             /\ ~(Standing(entries', i) /\ Key(entries'[i].place) = Key(entries[i].place))
             => \A j \in Slots : Standing(entries, j)]_cache
    BY ForgetsStep
  <1> QED
    BY <1>1, <1>2, CacheInvariant, PTL DEF CacheSpec, NamesKept, ForgetsOnlyWhenFull

-----------------------------------------------------------------------------
(* The walk that is opened. *)

(* The cap.                                                                 *)
LEMMA ShorterBounds ==
    ASSUME NEW m \in Nat, NEW n \in Nat
    PROVE  /\ Shorter(m, n) \in Nat /\ Shorter(m, n) <= m /\ Shorter(m, n) <= n
           /\ m > 0 /\ n > 0 => Shorter(m, n) > 0
  BY DEF Shorter

(* What a walk dials: the first of the kept-first order.                    *)
LEMMA WalkOfCuts ==
    ASSUME NEW list \in Answers
    PROVE  LET n == Shorter(MaxAddrs, Len(list))
           IN  /\ list \in Seq(Addrs) /\ Len(list) \in Nat /\ Len(list) > 0
               /\ n \in Nat /\ n > 0 /\ n <= Len(list) /\ n <= MaxAddrs
               /\ WalkOf(list) \in Seq(Addrs) /\ Len(WalkOf(list)) = n
               /\ \A i \in 1 .. n : WalkOf(list)[i] = KeptFirst(list)[i]
  <1>1. list \in Seq(Addrs) /\ list # <<>>
    BY WalkAssumption, CacheAssumption DEF Addrs
  <1>2. Len(list) \in Nat /\ Len(list) > 0
    BY <1>1
  <1> DEFINE n == Shorter(MaxAddrs, Len(list))
             r == KeptFirst(list)
  <1>3. n \in Nat /\ n > 0 /\ n <= Len(list) /\ n <= MaxAddrs
    BY <1>2, WalkAssumption DEF Shorter
  <1>4. r \in Seq(Addrs) /\ Len(r) = Len(list)
    BY <1>1, KeptFirstOrder
  <1>5. WalkOf(list) = SubSeq(r, 1, n)
    BY DEF WalkOf
  <1> HIDE DEF n, r
  <1>6. 1 \in 1 .. (Len(r) + 1) /\ n \in (1 - 1) .. Len(r) /\ n - 1 + 1 = n
    BY <1>2, <1>3, <1>4
  <1>7. /\ SubSeq(r, 1, n) \in Seq(Addrs)
        /\ Len(SubSeq(r, 1, n)) = n - 1 + 1
        /\ \A i \in 1 .. n - 1 + 1 : SubSeq(r, 1, n)[i] = r[1 + i - 1]
    BY <1>4, <1>6, SubSeqProperties
  <1>8. \A i \in 1 .. n : SubSeq(r, 1, n)[i] = r[i]
    <2>1. ASSUME NEW i \in 1 .. n PROVE SubSeq(r, 1, n)[i] = r[i]
      <3>1. i \in 1 .. n - 1 + 1 /\ 1 + i - 1 = i
        BY <1>3
      <3> QED
        BY <1>7, <3>1
    <2> QED
      BY <2>1
  <1>9. WalkOf(list) \in Seq(Addrs) /\ Len(WalkOf(list)) = n
    BY <1>5, <1>6, <1>7
  <1> QED
    BY <1>1, <1>2, <1>3, <1>5, <1>8, <1>9 DEF n, r

(* An opened walk is in order.                                              *)
LEMMA OpenedOrdered ==
    ASSUME NEW list \in Answers, NEW tls, NEW out
    PROVE  Ordered(Opened(list, tls, out))
  <1> DEFINE k == Opened(list, tls, out)
             n == Shorter(MaxAddrs, Len(list))
             r == KeptFirst(list)
  <1>1. /\ list \in Seq(Addrs) /\ Len(list) \in Nat /\ n \in Nat /\ n <= Len(list)
        /\ WalkOf(list) \in Seq(Addrs) /\ Len(WalkOf(list)) = n
        /\ \A i \in 1 .. n : WalkOf(list)[i] = r[i]
    BY WalkOfCuts
  <1>2. k.addrs = WalkOf(list) /\ k.list = list /\ k.skipped = {f \in skipFamilies : familySkip}
    BY DEF Opened
  <1>3. /\ Len(r) = Len(list)
        /\ \E pos \in [1 .. Len(r) -> 1 .. Len(list)] :
              /\ \A i \in 1 .. Len(r) : r[i] = list[pos[i]]
              /\ \A i, j \in 1 .. Len(r) : i < j => Earlier(list, pos[i], pos[j])
              /\ \A m \in 1 .. Len(list) : \E i \in 1 .. Len(r) : pos[i] = m
    BY <1>1, KeptFirstOrder
  <1> HIDE DEF k, n, r
  <1>4. PICK pos \in [1 .. Len(r) -> 1 .. Len(list)] :
              /\ \A i \in 1 .. Len(r) : r[i] = list[pos[i]]
              /\ \A i, j \in 1 .. Len(r) : i < j => Earlier(list, pos[i], pos[j])
              /\ \A m \in 1 .. Len(list) : \E i \in 1 .. Len(r) : pos[i] = m
    BY <1>3
  <1>5. DOMAIN k.addrs = 1 .. n /\ DOMAIN k.list = 1 .. Len(list) /\ Len(k.addrs) = n
    BY <1>1, <1>2
  <1>6. \A a, b \in 1 .. Len(list) : Before(k, a, b) <=> Earlier(list, a, b)
    <2>1. ASSUME NEW a \in 1 .. Len(list) PROVE Late(k, a) <=> list[a] \in Deferred
      <3>1. list[a] \in Addrs
        BY <1>1
      <3> QED
        BY <1>2, <3>1 DEF Late, Deferred
    <2> QED
      BY <2>1 DEF Before, Earlier
  <1> DEFINE p == [i \in 1 .. n |-> pos[i]]
  <1>7. \A i \in 1 .. n : i \in 1 .. Len(r) /\ p[i] = pos[i] /\ pos[i] \in 1 .. Len(list)
    <2>1. \A i \in 1 .. n : p[i] = pos[i]
      OBVIOUS
    <2> HIDE DEF p
    <2>2. \A i \in 1 .. n : i \in 1 .. Len(r)
      BY <1>1, <1>3
    <2>3. \A i \in 1 .. Len(r) : pos[i] \in 1 .. Len(list)
      BY <1>4
    <2> QED
      BY <2>1, <2>2, <2>3
  <1>8. p \in [1 .. n -> 1 .. Len(list)]
    BY <1>7
  <1> HIDE DEF p
  <1>9. InOrder(k, p)
    <2>1. \A i \in DOMAIN k.addrs : k.addrs[i] = k.list[p[i]]
      <3>1. \A i \in 1 .. n : k.addrs[i] = r[i]
        BY <1>1, <1>2
      <3>2. \A i \in 1 .. n : r[i] = list[p[i]]
        BY <1>4, <1>7
      <3> QED
        BY <1>2, <1>5, <3>1, <3>2
    <2>2. \A i, j \in DOMAIN k.addrs : i < j => Before(k, p[i], p[j])
      BY <1>4, <1>5, <1>6, <1>7
    <2>3. ASSUME NEW m \in DOMAIN k.list, \A i \in DOMAIN k.addrs : p[i] # m,
                 NEW i \in DOMAIN k.addrs
          PROVE  Before(k, p[i], m)
      <3>1. PICK j \in 1 .. Len(r) : pos[j] = m
        BY <1>4, <1>5, <2>3
      <3>2. j \notin 1 .. n
        BY <1>5, <1>7, <2>3, <3>1
      <3>3. i < j /\ i \in 1 .. Len(r)
        BY <1>1, <1>3, <1>5, <1>7, <2>3, <3>2
      <3>4. Earlier(list, pos[i], m)
        BY <1>4, <3>1, <3>3
      <3> QED
        BY <1>5, <1>6, <1>7, <2>3, <3>4
    <2> QED
      BY <2>1, <2>2, <2>3 DEF InOrder
  <1>10. Len(k.addrs) = Shorter(MaxAddrs, Len(k.list))
    BY <1>2, <1>5 DEF n
  <1>11. \E q \in [DOMAIN k.addrs -> DOMAIN k.list] : InOrder(k, q)
    BY <1>5, <1>8, <1>9
  <1> QED
    BY <1>10, <1>11 DEF Ordered, k

(* A function over the first naturals is a sequence.                        *)
LEMMA SequenceOf ==
    ASSUME NEW n \in Nat, NEW T, NEW g \in [1 .. n -> T]
    PROVE  g \in Seq(T) /\ Len(g) = n
  <1>1. g \in Seq(T)
    BY SeqDef
  <1> QED
    BY <1>1, LenProperties

(* What a dialled address may show for the walk to wait on it.              *)
Shown == {"in flight", "up", "refused"}

(* The fields of a fresh connection.                                        *)
LEMMA FreshConnection ==
    ASSUME NEW addrs \in Seq(Addrs), Len(addrs) \in Nat, Len(addrs) > 0,
           NEW list \in Answers, NEW tls \in BOOLEAN, NEW ready \in BOOLEAN,
           NEW out \in Shown,
           NEW skipped \in SUBSET Families, NEW fate \in Seq(Fates),
           Len(fate) = Len(addrs)
    PROVE  LET k == [phase |-> "CONNECTING", tls |-> tls, secure |-> FALSE,
                     addrs |-> addrs, idx |-> 1, net |-> out, ready |-> ready,
                     age |-> 0, abandoned |-> {}, left |-> ReqLen, err |-> "ok",
                     fate |-> fate, list |-> list, skipped |-> skipped]
           IN  k \in Connections /\ Behind(k) /\ InPhase(k)
  <1> DEFINE k == [phase |-> "CONNECTING", tls |-> tls, secure |-> FALSE,
                   addrs |-> addrs, idx |-> 1, net |-> out, ready |-> ready,
                   age |-> 0, abandoned |-> {}, left |-> ReqLen, err |-> "ok",
                   fate |-> fate, list |-> list, skipped |-> skipped]
  <1>1. ReqLen \in Nat /\ ReqLen \in 0 .. ReqLen
    BY WalkAssumption
  <1>2. {} \in SUBSET Families /\ 0 \in Nat /\ 1 \in Nat
    OBVIOUS
  <1>3. k \in Connections
    BY <1>1, <1>2 DEF Connections, Results, Shown
  <1>4. /\ k.phase = "CONNECTING" /\ k.addrs = addrs /\ k.idx = 1 /\ k.net = out
        /\ k.abandoned = {} /\ k.err = "ok" /\ k.fate = fate
    OBVIOUS
  <1> HIDE DEF k
  <1>5. DOMAIN addrs = 1 .. Len(addrs) /\ DOMAIN fate = 1 .. Len(addrs)
    OBVIOUS
  <1>6. 1 \in 1 .. Len(addrs) /\ 1 \in 1 .. Len(addrs) + 1
    OBVIOUS
  <1>7. Behind(k)
    <2>1. \A i \in DOMAIN k.fate : ~(i < k.idx)
      BY <1>4, <1>5
    <2> QED
      BY <1>4, <1>5, <1>6, <2>1 DEF Behind
  <1>8. InPhase(k)
    BY <1>4, <1>5, <1>6 DEF InPhase, Shown
  <1> QED
    BY <1>3, <1>7, <1>8 DEF k

(* An opened walk is sound.                                                 *)
LEMMA OpenedSound ==
    ASSUME NEW list \in Answers, NEW tls \in BOOLEAN,
           NEW out \in Shown, skipFamilies \subseteq Families
    PROVE  Sound(Opened(list, tls, out))
  <1> DEFINE k == Opened(list, tls, out)
             addrs == WalkOf(list)
             ready == out # "in flight"
             fate == [i \in 1 .. Len(addrs) |-> NotTried]
             skipped == {f \in skipFamilies : familySkip}
  <1>1. addrs \in Seq(Addrs) /\ Len(addrs) \in Nat /\ Len(addrs) > 0
    BY WalkOfCuts
  <1>2. k = [phase |-> "CONNECTING", tls |-> tls, secure |-> FALSE,
             addrs |-> addrs, idx |-> 1, net |-> out, ready |-> ready,
             age |-> 0, abandoned |-> {}, left |-> ReqLen, err |-> "ok",
             fate |-> fate, list |-> list, skipped |-> skipped]
    BY Zenon DEF Opened, PhaseQueued
  <1>3. ready \in BOOLEAN
    OBVIOUS
  <1>4. skipped \in SUBSET Families
    BY Zenon
  <1>5. fate \in [1 .. Len(addrs) -> Fates]
    BY DEF Fates
  <1> HIDE DEF k, addrs, ready, fate, skipped
  <1>6. fate \in Seq(Fates) /\ Len(fate) = Len(addrs)
    BY <1>1, <1>5, SequenceOf
  <1>7. k \in Connections /\ Behind(k) /\ InPhase(k)
    BY <1>1, <1>2, <1>3, <1>4, <1>6, FreshConnection
  <1>8. Ordered(k)
    BY OpenedOrdered DEF k
  <1> QED
    BY <1>7, <1>8 DEF Sound, k

-----------------------------------------------------------------------------
(* What a step makes of a connection. *)

(* The addresses of r, and what has been tried of them, are those of k.     *)
SameWalk(r, k) ==
    /\ r.addrs = k.addrs /\ r.list = k.list /\ r.skipped = k.skipped
    /\ r.idx = k.idx /\ r.fate = k.fate /\ r.abandoned = k.abandoned

(* The order of a walk is in its addresses.                                 *)
LEMMA SameOrder ==
    ASSUME NEW k, NEW r, Ordered(k),
           r.addrs = k.addrs, r.list = k.list, r.skipped = k.skipped
    PROVE  Ordered(r)
  <1>1. ASSUME NEW m, NEW n PROVE Before(r, m, n) <=> Before(k, m, n)
    BY DEF Before, Late
  <1>2. ASSUME NEW pos, InOrder(k, pos) PROVE InOrder(r, pos)
    BY <1>1, <1>2 DEF InOrder
  <1> QED
    BY <1>2 DEF Ordered

(* Then r is sound if k is and its phase agrees with it.                    *)
LEMMA SameWalkSound ==
    ASSUME NEW k, NEW r, Sound(k), r \in Connections, SameWalk(r, k), InPhase(r),
           r.err = "socket" => k.err = "socket"
    PROVE  Sound(r)
  <1>1. Ordered(r)
    BY SameOrder DEF Sound, SameWalk
  <1>2. Behind(r)
    BY DEF Behind, Sound, SameWalk
  <1> QED
    BY <1>1, <1>2 DEF Sound

(* The drain of the request, on a connection it may go out on.              *)
LEMMA DrainedSound ==
    ASSUME NEW k, Sound(k), k.net = "up", k.tls => k.secure, k.err = "ok",
           NEW r \in Drained(k)
    PROVE  /\ Sound(r) /\ SameWalk(r, k)
           /\ r.phase \in {"SENDING", "READING"} /\ r.err \in {"ok", "send"}
  <1>1. k \in Connections
    BY DEF Sound
  <1>2. /\ 0 \in 0 .. ReqLen
        /\ \A n \in 1 .. k.left : n \in 0 .. ReqLen
    <2>1. ReqLen \in Nat /\ k.left \in 0 .. ReqLen
      BY <1>1, WalkAssumption DEF Connections
    <2> QED
      BY <2>1
  <1>3. CASE r = [k EXCEPT !.phase = "READING", !.left = 0, !.ready = FALSE]
    <2>1. r \in Connections
      BY <1>1, <1>2, <1>3 DEF Connections
    <2>2. /\ SameWalk(r, k) /\ r.phase = "READING" /\ r.net = k.net /\ r.tls = k.tls
          /\ r.secure = k.secure /\ r.err = k.err
      BY <1>1, <1>3 DEF Connections, SameWalk
    <2>3. InPhase(r)
      BY <2>2 DEF InPhase
    <2> QED
      BY <2>1, <2>2, <2>3, SameWalkSound
  <1>4. CASE r = Failed([k EXCEPT !.phase = "SENDING"], "send")
    <2>1. r \in Connections
      BY <1>1, <1>4 DEF Connections, Failed, Results
    <2>2. /\ SameWalk(r, k) /\ r.phase = "SENDING" /\ r.net = k.net /\ r.tls = k.tls
          /\ r.secure = k.secure /\ r.err = "send"
      BY <1>1, <1>4 DEF Connections, SameWalk, Failed
    <2>3. InPhase(r)
      BY <2>2 DEF InPhase
    <2> QED
      BY <2>1, <2>2, <2>3, SameWalkSound
  <1>5. ASSUME NEW n \in 1 .. k.left,
               r = [k EXCEPT !.phase = "SENDING", !.left = n, !.ready = FALSE]
        PROVE  /\ Sound(r) /\ SameWalk(r, k)
               /\ r.phase = "SENDING" /\ r.err = "ok"
    <2>1. r \in Connections
      BY <1>1, <1>2, <1>5 DEF Connections
    <2>2. /\ SameWalk(r, k) /\ r.phase = "SENDING" /\ r.net = k.net /\ r.tls = k.tls
          /\ r.secure = k.secure /\ r.err = k.err
      BY <1>1, <1>5 DEF Connections, SameWalk
    <2>3. InPhase(r)
      BY <2>2 DEF InPhase
    <2> QED
      BY <2>1, <2>2, <2>3, SameWalkSound
  <1> QED
    BY <1>3, <1>4, <1>5 DEF Drained

(* A step of the handshake.                                                 *)
LEMMA HandshakenSound ==
    ASSUME NEW k, Sound(k), k.phase = "HANDSHAKE", k.err = "ok", NEW r \in Handshaken(k)
    PROVE  Sound(r)
  <1>1. k \in Connections /\ k.net = "up" /\ k.tls
    BY DEF Sound, InPhase
  <1>2. CASE r = Failed([k EXCEPT !.phase = "IDLE"], "tls")
    <2>1. r \in Connections
      BY <1>1, <1>2 DEF Connections, Failed, Results
    <2>2. SameWalk(r, k) /\ r.phase = "IDLE" /\ r.err = "tls"
      BY <1>1, <1>2 DEF Connections, SameWalk, Failed
    <2>3. InPhase(r)
      BY <2>2 DEF InPhase
    <2> QED
      BY <2>1, <2>2, <2>3, SameWalkSound
  <1>3. CASE r = [k EXCEPT !.ready = FALSE]
    <2>1. r \in Connections
      BY <1>1, <1>3 DEF Connections
    <2>2. /\ SameWalk(r, k) /\ r.phase = k.phase /\ r.net = k.net /\ r.tls = k.tls
          /\ r.secure = k.secure /\ r.err = k.err
      BY <1>1, <1>3 DEF Connections, SameWalk
    <2>3. InPhase(r)
      BY <1>1, <2>2 DEF InPhase
    <2> QED
      BY <2>1, <2>2, <2>3, SameWalkSound
  <1>4. CASE r \in Drained([k EXCEPT !.secure = TRUE])
    <2> DEFINE s == [k EXCEPT !.secure = TRUE]
    <2>1. s \in Connections
      BY <1>1 DEF Connections
    <2>2. /\ SameWalk(s, k) /\ s.phase = k.phase /\ s.net = k.net /\ s.tls = k.tls
          /\ s.secure /\ s.err = k.err
      BY <1>1 DEF Connections, SameWalk
    <2> HIDE DEF s
    <2>3. InPhase(s)
      BY <1>1, <2>2 DEF InPhase
    <2>4. Sound(s)
      BY <2>1, <2>2, <2>3, SameWalkSound
    <2>5. r \in Drained(s)
      BY <1>4 DEF s
    <2> QED
      BY <1>1, <2>2, <2>4, <2>5, DrainedSound
  <1> QED
    BY <1>2, <1>3, <1>4 DEF Handshaken

(* A finished connect goes on with the handshake or the drain.              *)
LEMMA ConnectedSound ==
    ASSUME NEW k, Sound(k), k.net = "up", k.err = "ok", NEW r \in Connected(k)
    PROVE  /\ Sound(r) /\ SameWalk(r, k)
           /\ r.phase # "CONNECTING" /\ r.err # "socket"
  <1>1. k \in Connections
    BY DEF Sound
  <1>2. CASE ~k.tls
    BY <1>2, DrainedSound DEF Connected
  <1>3. CASE k.tls
    <2> DEFINE h == [k EXCEPT !.phase = "HANDSHAKE", !.age = 0, !.ready = FALSE]
    <2>1. h \in Connections
      BY <1>1 DEF Connections
    <2>2. /\ SameWalk(h, k) /\ h.phase = "HANDSHAKE" /\ h.net = k.net /\ h.tls = k.tls
          /\ h.err = k.err
      BY <1>1 DEF Connections, SameWalk
    <2> HIDE DEF h
    <2>3. InPhase(h)
      BY <1>3, <2>2 DEF InPhase
    <2>4. Sound(h)
      BY <2>1, <2>2, <2>3, SameWalkSound
    <2>5. CASE r = h
      BY <2>2, <2>4, <2>5
    <2>6. CASE r = Failed([h EXCEPT !.phase = "IDLE"], "tls")
      <3>1. r \in Connections
        BY <2>1, <2>6 DEF Connections, Failed, Results
      <3>2. SameWalk(r, h) /\ r.phase = "IDLE" /\ r.err = "tls"
        BY <2>1, <2>6 DEF Connections, SameWalk, Failed
      <3>3. InPhase(r)
        BY <3>2 DEF InPhase
      <3>4. Sound(r)
        BY <2>4, <3>1, <3>2, <3>3, SameWalkSound
      <3> QED
        BY <2>2, <3>2, <3>4 DEF SameWalk
    <2> QED
      BY <1>3, <2>5, <2>6 DEF Connected, h
  <1> QED
    BY <1>2, <1>3

-----------------------------------------------------------------------------
(* The walk goes on. *)

(* An attempt that is given up; an address the walk passes over; one it     *)
(* stops at.                                                                *)
GivenUp(k) == k.phase = "CONNECTING" /\ k.net \in {"in flight", "refused"}
PassedOver == {"refused", "no socket"}
StoppedAt  == {"in flight", "up"}

(* What a walk has passed over by the time it lands at j.                   *)
PassedBefore(k, outs, j) ==
    /\ outs \in [Ahead(k) -> Outcomes]
    /\ j \in k.idx + 1 .. Len(k.addrs) + 1
    /\ \A i \in Ahead(k) : i < j => outs[i] \in PassedOver

(* Everything before j has had its verdict then.                            *)
LEMMA WalkedSound ==
    ASSUME NEW k, Sound(k), GivenUp(k),
           NEW outs, NEW j, PassedBefore(k, outs, j)
    PROVE  LET w == Walked(k, j, outs)
           IN  /\ w \in Connections /\ Ordered(w) /\ Behind(w)
               /\ w.idx = j /\ w.err = "ok" /\ w.phase = "CONNECTING" /\ w.addrs = k.addrs
  <1> DEFINE w == Walked(k, j, outs)
             g == [i \in DOMAIN k.fate |->
                     IF i = k.idx THEN AttemptVerdict(k)
                     ELSE IF i \in DOMAIN outs /\ i < j THEN outs[i] ELSE k.fate[i]]
             n == Len(k.addrs)
  <1>1. /\ k \in Connections /\ Ordered(k) /\ Behind(k)
        /\ k.idx \in DOMAIN k.addrs /\ k.err = "ok"
    BY DEF Sound, InPhase, GivenUp
  <1>2. /\ k.addrs \in Seq(Addrs) /\ k.fate \in Seq(Fates) /\ k.idx \in Nat
        /\ k.abandoned \in SUBSET Families
    BY <1>1 DEF Connections
  <1>3. /\ n \in Nat /\ DOMAIN k.addrs = 1 .. n /\ DOMAIN k.fate = 1 .. n
        /\ k.idx \in 1 .. n
    BY <1>1, <1>2 DEF Behind
  <1>4. /\ j \in Nat /\ j > k.idx /\ j \in 1 .. n + 1
        /\ DOMAIN outs = k.idx + 1 .. n
    BY <1>3 DEF PassedBefore, Ahead
  <1>5. w = [k EXCEPT !.abandoned = Abandoned(k), !.idx = j, !.age = 0, !.fate = g]
    BY DEF Walked
  <1>6. FamilyOf[k.addrs[k.idx]] \in Families
    <2>1. k.addrs[k.idx] \in DOMAIN FamilyOf
      BY <1>2, <1>3 DEF Addrs
    <2> QED
      BY <2>1, WalkAssumption DEF Families
  <1>7. Abandoned(k) \in SUBSET Families
    BY <1>2, <1>6 DEF Abandoned
  <1>8. /\ AttemptVerdict(k) \in Fates /\ AttemptVerdict(k) # NotTried
        /\ k.net = "in flight" => AttemptVerdict(k) = "silent"
    BY DEF AttemptVerdict, Fates, NotTried, GivenUp
  <1>9. \A i \in k.idx + 1 .. n : i < j => outs[i] \in Fates /\ outs[i] # NotTried
    BY DEF PassedBefore, Ahead, Fates, NotTried, PassedOver
  <1>10. \A i \in 1 .. n : k.fate[i] \in Fates
    BY <1>2, <1>3
  <1>11. \A i \in 1 .. n : g[i] = IF i = k.idx THEN AttemptVerdict(k)
                                  ELSE IF i \in k.idx + 1 .. n /\ i < j THEN outs[i]
                                  ELSE k.fate[i]
    BY <1>3, <1>4
  <1>12. DOMAIN g = 1 .. n
    BY <1>3
  <1>13. g \in [1 .. n -> Fates]
    BY <1>3, <1>4, <1>8, <1>9, <1>10
  <1> HIDE DEF g, w
  <1>14. g \in Seq(Fates) /\ Len(g) = n
    BY <1>3, <1>13, SequenceOf
  <1>15. w \in Connections
    BY <1>1, <1>4, <1>5, <1>7, <1>14 DEF Connections
  <1>16. /\ w.addrs = k.addrs /\ w.list = k.list /\ w.skipped = k.skipped
         /\ w.idx = j /\ w.fate = g /\ w.abandoned = Abandoned(k)
         /\ w.err = "ok" /\ w.phase = "CONNECTING"
    BY <1>1, <1>5 DEF Connections, GivenUp
  <1>17. Ordered(w)
    BY <1>1, <1>16, SameOrder
  <1>18. \A i \in 1 .. n : i < j => g[i] # NotTried
    <2>1. SUFFICES ASSUME NEW i \in 1 .. n, i < j PROVE g[i] # NotTried
      OBVIOUS
    <2>2. CASE i < k.idx
      <3>1. k.fate[i] # NotTried /\ i # k.idx /\ i \notin k.idx + 1 .. n
        BY <1>1, <1>3, <2>2 DEF Behind
      <3> QED
        BY <1>11, <3>1
    <2>3. CASE i = k.idx
      BY <1>8, <1>11, <2>3
    <2>4. CASE i > k.idx
      <3>1. i \in k.idx + 1 .. n /\ i # k.idx
        BY <1>3, <2>4
      <3> QED
        BY <1>9, <1>11, <2>1, <3>1
    <2> QED
      BY <1>3, <2>2, <2>3, <2>4
  <1>19. ASSUME NEW f \in Abandoned(k)
         PROVE  \E i \in 1 .. n : /\ i < j /\ FamilyOf[k.addrs[i]] = f
                                  /\ g[i] = "silent"
    <2>1. CASE f \in k.abandoned
      <3>1. PICK i \in 1 .. n : /\ i < k.idx /\ FamilyOf[k.addrs[i]] = f
                                /\ k.fate[i] = "silent"
        BY <1>1, <1>3, <2>1 DEF Behind
      <3>2. i < j /\ i # k.idx /\ i \notin k.idx + 1 .. n
        BY <1>3, <1>4, <3>1
      <3> QED
        BY <1>11, <3>1, <3>2
    <2>2. CASE f = FamilyOf[k.addrs[k.idx]] /\ k.net = "in flight"
      BY <1>3, <1>4, <1>8, <1>11, <2>2
    <2> QED
      BY <1>19, <2>1, <2>2 DEF Abandoned
  <1>20. Behind(w)
    BY <1>3, <1>4, <1>12, <1>16, <1>18, <1>19 DEF Behind
  <1> QED
    BY <1>15, <1>16, <1>17, <1>20 DEF w

(* Where a walk lands, or that it does not.                                 *)
LEMMA LandingPasses ==
    ASSUME NEW k, Sound(k), GivenUp(k), NEW outs \in [Ahead(k) -> Outcomes]
    PROVE  LET j == IF Landing(k, outs) # {} THEN First(Landing(k, outs))
                    ELSE Len(k.addrs) + 1
           IN  /\ PassedBefore(k, outs, j)
               /\ Landing(k, outs) # {} => /\ j \in Ahead(k)
                                           /\ outs[j] \in StoppedAt
  <1>1. /\ k.addrs \in Seq(Addrs) /\ k.idx \in Nat /\ k.idx \in DOMAIN k.addrs
    BY DEF Sound, InPhase, Connections, GivenUp
  <1>2. /\ Len(k.addrs) \in Nat /\ k.idx \in 1 .. Len(k.addrs)
    BY <1>1
  <1>3. DOMAIN outs = Ahead(k) /\ Ahead(k) \subseteq Nat
    BY <1>2 DEF Ahead
  <1>4. \A i \in Ahead(k) : outs[i] \in PassedOver \cup StoppedAt
    BY DEF Outcomes, PassedOver, StoppedAt
  <1>5. CASE Landing(k, outs) = {}
    <2>1. \A i \in Ahead(k) : outs[i] \in PassedOver
      BY <1>3, <1>4, <1>5 DEF Landing, StoppedAt
    <2>2. Len(k.addrs) + 1 \in k.idx + 1 .. Len(k.addrs) + 1
      BY <1>2
    <2> QED
      BY <1>5, <2>1, <2>2 DEF PassedBefore
  <1>6. CASE Landing(k, outs) # {}
    <2> DEFINE j == First(Landing(k, outs))
    <2>1. Landing(k, outs) \subseteq Nat
      BY <1>3 DEF Landing
    <2>2. j \in Landing(k, outs) /\ \A i \in Landing(k, outs) : j <= i
      BY <1>6, <2>1, FirstIsLeast
    <2> HIDE DEF j
    <2>3. j \in Ahead(k) /\ outs[j] \in StoppedAt /\ j \in Nat
      BY <1>3, <2>2 DEF Landing, StoppedAt
    <2>4. j \in k.idx + 1 .. Len(k.addrs) + 1
      BY <1>2, <2>3 DEF Ahead
    <2>5. ASSUME NEW i \in Ahead(k), i < j PROVE outs[i] \in PassedOver
      <3>1. i \notin Landing(k, outs)
        BY <1>3, <2>2, <2>3, <2>5
      <3> QED
        BY <1>3, <1>4, <3>1 DEF Landing, StoppedAt
    <2>6. PassedBefore(k, outs, j)
      BY <2>4, <2>5 DEF PassedBefore
    <2> QED
      BY <1>6, <2>3, <2>6 DEF j
  <1> QED
    BY <1>5, <1>6

-----------------------------------------------------------------------------
(* Every step of the walks. *)

(* The connections of a sound state, one by one.                            *)
LEMMA ConnOf ==
    ASSUME WalkInv, NEW c \in Conns
    PROVE  /\ conn \in [Conns -> Connections \cup {Closed}]
           /\ Free(c) => conn[c] = Closed
           /\ ~Free(c) => conn[c] \in Connections /\ Sound(conn[c])
  <1>1. conn \in [Conns -> Connections \cup {Closed}]
    BY DEF WalkInv, WalkTypeOK
  <1>2. \A k \in Connections : k.phase # "CLOSED"
    BY DEF Connections
  <1>3. Free(c) => conn[c] \notin Connections
    BY <1>2 DEF Free
  <1>4. ~Free(c) => Sound(conn[c])
    BY DEF WalkInv
  <1> QED
    BY <1>1, <1>3, <1>4 DEF Sound

(* The connections of the next state are what they should be.               *)
ConnsSound ==
    /\ conn' \in [Conns -> Connections \cup {Closed}]
    /\ \A c \in Conns : conn'[c].phase # "CLOSED" => Sound(conn'[c])

(* A step of one connection leaves the others as they are.                  *)
LEMMA OneMoves ==
    ASSUME WalkInv, NEW c \in Conns, NEW r, r = Closed \/ Sound(r),
           conn' = [conn EXCEPT ![c] = r]
    PROVE  ConnsSound /\ conn'[c] = r
  <1>1. r \in Connections \cup {Closed}
    BY DEF Sound
  <1>2. conn \in [Conns -> Connections \cup {Closed}]
    BY ConnOf
  <1>3. conn' \in [Conns -> Connections \cup {Closed}] /\ conn'[c] = r
    BY <1>1, <1>2
  <1>4. ASSUME NEW d \in Conns, conn'[d].phase # "CLOSED" PROVE Sound(conn'[d])
    <2>1. CASE d = c
      BY <1>3, <1>4, <2>1 DEF Closed
    <2>2. CASE d # c
      <3>1. conn'[d] = conn[d]
        BY <1>2, <2>2
      <3> QED
        BY <1>4, <3>1, ConnOf DEF Free
    <2> QED
      BY <2>1, <2>2
  <1> QED
    BY <1>3, <1>4 DEF ConnsSound

(* Without a step of any, all stay.                                         *)
LEMMA NoneMoves ==
    ASSUME WalkInv, conn' = conn PROVE ConnsSound
  BY DEF ConnsSound, WalkInv, WalkTypeOK, Free

(* The answer of the table or the name service is an answer.                *)
LEMMA ListsAreAnswers ==
    ASSUME CacheInv, NEW p \in Places, NEW list,
           Remembered(p, list) \/ Asked(p, list)
    PROVE  list \in Answers
  <1>1. CASE Asked(p, list)
    BY <1>1 DEF Asked
  <1>2. CASE Remembered(p, list)
    <2>1. list = Lookup(p) /\ list # NoList
      BY <1>2 DEF Remembered
    <2>2. Hits(p) # {} /\ list = entries[First(Hits(p))].list
      BY <2>1 DEF Lookup
    <2>3. First(Hits(p)) \in Slots
      BY <2>2, SlotFacts DEF Hits
    <2> QED
      BY <2>1, <2>2, <2>3 DEF CacheInv, CacheTypeOK, Lists
  <1> QED
    BY <1>1, <1>2

(* What the walk of k becomes by moving on.                                 *)
LEMMA MovedOn ==
    ASSUME NEW k, Sound(k), GivenUp(k), NEW outs \in [Ahead(k) -> Outcomes],
           Landing(k, outs) # {}
    PROVE  LET j == First(Landing(k, outs))
               w == [Walked(k, j, outs) EXCEPT !.net = outs[j], !.ready = FALSE]
           IN  Sound(w) /\ w.net = outs[j] /\ w.err = "ok"
  <1> DEFINE j == First(Landing(k, outs))
             v == Walked(k, j, outs)
             w == [v EXCEPT !.net = outs[j], !.ready = FALSE]
  <1>1. PassedBefore(k, outs, j) /\ j \in Ahead(k) /\ outs[j] \in StoppedAt
    BY LandingPasses
  <1> HIDE DEF j
  <1>2. /\ v \in Connections /\ Ordered(v) /\ Behind(v)
        /\ v.idx = j /\ v.err = "ok" /\ v.phase = "CONNECTING" /\ v.addrs = k.addrs
    BY <1>1, WalkedSound
  <1> HIDE DEF v
  <1>3. w \in Connections
    BY <1>1, <1>2 DEF Connections, StoppedAt
  <1>4. /\ w.addrs = v.addrs /\ w.list = v.list /\ w.skipped = v.skipped
        /\ w.idx = v.idx /\ w.fate = v.fate /\ w.abandoned = v.abandoned
        /\ w.err = "ok" /\ w.phase = "CONNECTING" /\ w.net = outs[j]
    BY <1>2 DEF Connections
  <1> HIDE DEF w
  <1>5. Ordered(w)
    BY <1>2, <1>4, SameOrder
  <1>6. Behind(w)
    BY <1>2, <1>4 DEF Behind
  <1>7. j \in DOMAIN k.addrs
    <2>1. k.addrs \in Seq(Addrs) /\ k.idx \in Nat
      BY DEF Sound, Connections
    <2>2. k.idx \in DOMAIN k.addrs
      BY DEF Sound, InPhase, GivenUp
    <2> QED
      BY <1>1, <2>1, <2>2 DEF Ahead
  <1>8. InPhase(w)
    BY <1>1, <1>2, <1>4, <1>7 DEF InPhase, StoppedAt
  <1> QED
    BY <1>3, <1>4, <1>5, <1>6, <1>8 DEF Sound, w, v, j

(* ... and by running out of addresses.                                     *)
LEMMA Exhausted ==
    ASSUME NEW k, Sound(k), GivenUp(k), NEW outs \in [Ahead(k) -> Outcomes],
           Landing(k, outs) = {}
    PROVE  LET w == Walked(k, Len(k.addrs) + 1, outs)
           IN  Sound(Failed([w EXCEPT !.phase = "IDLE", !.net = "none"], "socket"))
  <1> DEFINE v == Walked(k, Len(k.addrs) + 1, outs)
             r == Failed([v EXCEPT !.phase = "IDLE", !.net = "none"], "socket")
  <1>1. PassedBefore(k, outs, Len(k.addrs) + 1)
    BY LandingPasses
  <1>2. /\ v \in Connections /\ Ordered(v) /\ Behind(v)
        /\ v.idx = Len(k.addrs) + 1 /\ v.addrs = k.addrs
    BY <1>1, WalkedSound
  <1> HIDE DEF v
  <1>3. r \in Connections
    BY <1>2 DEF Connections, Failed, Results
  <1>4. /\ r.addrs = v.addrs /\ r.list = v.list /\ r.skipped = v.skipped
        /\ r.idx = v.idx /\ r.fate = v.fate /\ r.abandoned = v.abandoned
        /\ r.phase = "IDLE"
    BY <1>2 DEF Connections, Failed
  <1> HIDE DEF r
  <1>5. Ordered(r)
    BY <1>2, <1>4, SameOrder
  <1>6. Behind(r)
    BY <1>2, <1>4 DEF Behind
  <1>7. InPhase(r)
    BY <1>4 DEF InPhase
  <1> QED
    BY <1>3, <1>5, <1>6, <1>7 DEF Sound, r, v

(* A walk that is up completes: what becomes of it, and what is latched.    *)
LEMMA CompletesSound ==
    ASSUME WalkInv, NEW c \in Conns, NEW k, Sound(k), k.net = "up", k.err = "ok",
           Completes(c, k)
    PROVE  /\ ConnsSound
           /\ conn'[c].phase # "CONNECTING" /\ conn'[c].err # "socket"
           /\ SameWalk(conn'[c], k)
           /\ skipFamilies' \in SUBSET Families /\ connectError' \in BOOLEAN
           /\ familySkip' = familySkip
           /\ \A f \in skipFamilies' \ skipFamilies : familySkip /\ f \in NewSkips(k)
  <1>1. PICK r \in Connected(k) : conn' = [conn EXCEPT ![c] = r]
    BY DEF Completes
  <1>2. /\ Sound(r) /\ SameWalk(r, k) /\ r.phase # "CONNECTING" /\ r.err # "socket"
    BY ConnectedSound
  <1>3. ConnsSound /\ conn'[c] = r
    BY <1>1, <1>2, OneMoves
  <1>4. k.abandoned \in SUBSET Families /\ skipFamilies \in SUBSET Families
    BY DEF Sound, Connections, WalkInv, WalkTypeOK
  <1>5. /\ skipFamilies' = IF familySkip THEN skipFamilies \cup NewSkips(k)
                           ELSE skipFamilies
        /\ familySkip' = familySkip
    BY DEF Completes
  <1>6. skipFamilies' \in SUBSET Families
    BY <1>4, <1>5 DEF NewSkips
  <1>7. connectError' \in BOOLEAN
    BY Zenon DEF Completes
  <1>8. \A f \in skipFamilies' \ skipFamilies : familySkip /\ f \in NewSkips(k)
    BY <1>5
  <1> QED
    BY <1>2, <1>3, <1>5, <1>6, <1>7, <1>8

(* A step of a connection, but for the end of a connect.                    *)
LEMMA StepOnSound ==
    ASSUME WalkInv, NEW c \in Conns,
           \/ StepHandshake(c) \/ StepSending(c)
           \/ Close(c) \/ Readies(c)
           \/ \E out \in Outcomes : Answered(c, out)
    PROVE  ConnsSound
  <1> DEFINE k == conn[c]
  <1>0. ASSUME ~Free(c) PROVE k \in Connections /\ Sound(k) /\ InPhase(k)
    BY <1>0, ConnOf DEF Sound
  <1>1. CASE StepHandshake(c)
    <2>1. ~Free(c) /\ k.phase = "HANDSHAKE" /\ k.err = "ok"
      BY <1>1 DEF StepHandshake, Stepping, Free
    <2>2. PICK r \in Handshaken(k) : conn' = [conn EXCEPT ![c] = r]
      BY <1>1 DEF StepHandshake
    <2>3. Sound(r)
      BY <1>0, <2>1, HandshakenSound
    <2> QED
      BY <2>2, <2>3, OneMoves
  <1>2. CASE StepSending(c)
    <2>1. ~Free(c) /\ k.phase = "SENDING" /\ k.err = "ok"
      BY <1>2 DEF StepSending, Stepping, Free
    <2>2. PICK r \in Drained(k) : conn' = [conn EXCEPT ![c] = r]
      BY <1>2 DEF StepSending
    <2>3. k.net = "up" /\ (k.tls => k.secure)
      BY <1>0, <2>1 DEF InPhase
    <2>4. Sound(r)
      BY <1>0, <2>1, <2>3, DrainedSound
    <2> QED
      BY <2>2, <2>4, OneMoves
  <1>3. CASE Close(c)
    <2>1. conn' = [conn EXCEPT ![c] = Closed]
      BY <1>3 DEF Close
    <2> QED
      BY <2>1, OneMoves
  <1>4. CASE Readies(c)
    <2> DEFINE r == [k EXCEPT !.ready = TRUE]
    <2>1. ~Free(c)
      BY <1>4 DEF Readies, Free
    <2>2. conn' = [conn EXCEPT ![c] = r]
      BY <1>4, ConnOf DEF Readies
    <2>3. r \in Connections
      BY <1>0, <2>1 DEF Connections
    <2>4. /\ SameWalk(r, k) /\ r.phase = k.phase /\ r.net = k.net /\ r.tls = k.tls
          /\ r.secure = k.secure /\ r.err = k.err
      BY <1>0, <2>1 DEF Connections, SameWalk
    <2>5. InPhase(r)
      BY <1>0, <2>1, <2>4 DEF InPhase, SameWalk
    <2>6. Sound(r)
      BY <1>0, <2>1, <2>3, <2>4, <2>5, SameWalkSound
    <2> QED
      BY <2>2, <2>6, OneMoves
  <1>5. ASSUME NEW out \in Outcomes, Answered(c, out) PROVE ConnsSound
    <2> DEFINE r == [k EXCEPT !.net = out, !.ready = TRUE]
    <2>1. ~Free(c) /\ k.phase = "CONNECTING" /\ out \in {"up", "refused"}
      BY <1>5 DEF Answered, Free
    <2>2. conn' = [conn EXCEPT ![c] = r]
      BY <1>5, ConnOf DEF Answered
    <2>3. r \in Connections
      BY <1>0, <2>1 DEF Connections
    <2>4. /\ SameWalk(r, k) /\ r.phase = k.phase /\ r.net = out /\ r.err = k.err
      BY <1>0, <2>1 DEF Connections, SameWalk
    <2>5. InPhase(r)
      BY <1>0, <2>1, <2>4 DEF InPhase, SameWalk
    <2>6. Sound(r)
      BY <1>0, <2>1, <2>3, <2>4, <2>5, SameWalkSound
    <2> QED
      BY <2>2, <2>6, OneMoves
  <1> QED
    BY <1>1, <1>2, <1>3, <1>4, <1>5

(* The end of an attempt: what becomes of the walk, and why a family is     *)
(* latched.                                                                 *)
LEMMA AttemptEnds ==
    ASSUME WalkInv, NEW c \in Conns,
           \/ StepConnected(c)
           \/ \E outs \in [Ahead(conn[c]) -> Outcomes] :
                 StepMovesOn(c, outs) \/ StepExhausts(c, outs)
    PROVE  /\ ConnsSound
           /\ skipFamilies' \in SUBSET Families /\ connectError' \in BOOLEAN
           /\ familySkip' = familySkip
           /\ \A f \in skipFamilies' \ skipFamilies :
                 /\ familySkip
                 /\ conn[c].phase = "CONNECTING" /\ conn'[c].phase # "CONNECTING"
                 /\ conn'[c].err # "socket"
                 /\ \E k : /\ Sound(k) /\ SameWalk(conn'[c], k) /\ f \in NewSkips(k)
  <1> DEFINE k == conn[c]
  <1>0. /\ skipFamilies \in SUBSET Families /\ connectError \in BOOLEAN
    BY DEF WalkInv, WalkTypeOK
  <1>1. CASE StepConnected(c)
    <2>1. /\ k.phase = "CONNECTING" /\ ~Free(c) /\ k.err = "ok" /\ k.net = "up"
          /\ Completes(c, k)
      BY <1>1 DEF StepConnected, Stepping, Free
    <2>2. Sound(k)
      BY <2>1, ConnOf
    <2> QED
      BY <2>1, <2>2, CompletesSound
  <1>2. ASSUME NEW outs \in [Ahead(k) -> Outcomes], StepMovesOn(c, outs)
        PROVE  /\ ConnsSound
               /\ skipFamilies' \in SUBSET Families /\ connectError' \in BOOLEAN
               /\ familySkip' = familySkip
               /\ \A f \in skipFamilies' \ skipFamilies :
                     /\ familySkip
                     /\ conn[c].phase = "CONNECTING" /\ conn'[c].phase # "CONNECTING"
                     /\ conn'[c].err # "socket"
                     /\ \E kk : /\ Sound(kk) /\ SameWalk(conn'[c], kk)
                                /\ f \in NewSkips(kk)
    <2> DEFINE j == First(Landing(k, outs))
               w == [Walked(k, j, outs) EXCEPT !.net = outs[j], !.ready = FALSE]
    <2>1. /\ k.phase = "CONNECTING" /\ ~Free(c) /\ GivenUp(k)
          /\ Landing(k, outs) # {}
      BY <1>2 DEF StepMovesOn, Moves, Stepping, Free, GivenUp
    <2>2. Sound(k)
      BY <2>1, ConnOf
    <2>3. Sound(w) /\ w.net = outs[j] /\ w.err = "ok"
      BY <2>1, <2>2, MovedOn
    <2>4. IF outs[j] = "up" THEN Completes(c, w)
          ELSE conn' = [conn EXCEPT ![c] = w] /\ UNCHANGED <<cache, shared>>
      BY <1>2 DEF StepMovesOn
    <2> HIDE DEF k, j, w
    <2>5. CASE outs[j] = "up"
      <3>1. w.net = "up" /\ Completes(c, w)
        BY <2>3, <2>4, <2>5
      <3> QED
        BY <2>1, <2>3, <3>1, CompletesSound DEF k
    <2>6. CASE outs[j] # "up"
      <3>1. conn' = [conn EXCEPT ![c] = w] /\ UNCHANGED <<cache, shared>>
        BY <2>4, <2>6
      <3>2. ConnsSound
        BY <2>3, <3>1, OneMoves
      <3> QED
        BY <1>0, <3>1, <3>2 DEF shared
    <2> QED
      BY <2>5, <2>6
  <1>3. ASSUME NEW outs \in [Ahead(k) -> Outcomes], StepExhausts(c, outs)
        PROVE  /\ ConnsSound /\ UNCHANGED <<familySkip, skipFamilies>>
               /\ connectError' = TRUE
    <2> DEFINE w == Walked(k, Len(k.addrs) + 1, outs)
               r == Failed([w EXCEPT !.phase = "IDLE", !.net = "none"], "socket")
    <2>1. /\ k.phase = "CONNECTING" /\ ~Free(c) /\ GivenUp(k)
          /\ Landing(k, outs) = {}
      BY <1>3 DEF StepExhausts, Moves, Stepping, Free, GivenUp
    <2>2. Sound(k)
      BY <2>1, ConnOf
    <2>3. Sound(r)
      BY <2>1, <2>2, Exhausted
    <2>4. conn' = [conn EXCEPT ![c] = r]
      BY <1>3 DEF StepExhausts
    <2>5. ConnsSound
      BY <2>3, <2>4, OneMoves
    <2> QED
      BY <1>3, <2>5 DEF StepExhausts
  <1>4. ASSUME connectError' = TRUE PROVE connectError' \in BOOLEAN
    BY <1>4, Zenon
  <1> QED
    BY <1>0, <1>1, <1>2, <1>3, <1>4

(* Time passes for a connection: its budget is spent, no more.              *)
LEMMA AgedSound ==
    ASSUME NEW k, k = Closed \/ Sound(k), NEW n \in Nat
    PROVE  Aged(k, n) = Closed \/ Sound(Aged(k, n))
  <1>1. CASE k = Closed
    <2>1. k.phase = "CLOSED"
      BY <1>1 DEF Closed
    <2>2. Limit(k) = 0
      BY <2>1 DEF Limit
    <2> QED
      BY <1>1, <2>2 DEF Aged
  <1>2. CASE Sound(k)
    <2>1. k \in Connections /\ k.age \in Nat
      BY <1>2 DEF Sound, Connections
    <2>2. Limit(k) \in Nat
      <3>1. ConnectMs * Grain \in Nat /\ HandshakeMs * Grain \in Nat
        BY WalkAssumption
      <3> QED
        BY <3>1 DEF Limit
    <2>3. CASE Limit(k) = 0
      BY <1>2, <2>3 DEF Aged
    <2>4. CASE Limit(k) # 0
      <3> DEFINE a == Shorter(Limit(k), k.age + n)
                 r == [k EXCEPT !.age = a]
      <3>1. a \in Nat
        BY <2>1, <2>2 DEF Shorter
      <3> HIDE DEF a
      <3>2. r \in Connections
        BY <2>1, <3>1 DEF Connections
      <3>3. /\ SameWalk(r, k) /\ r.phase = k.phase /\ r.net = k.net /\ r.tls = k.tls
            /\ r.secure = k.secure /\ r.err = k.err
        BY <2>1 DEF Connections, SameWalk
      <3>4. InPhase(k)
        BY <1>2 DEF Sound
      <3>5. InPhase(r)
        BY <3>3, <3>4 DEF InPhase, SameWalk
      <3>6. Sound(r)
        BY <1>2, <3>2, <3>3, <3>5, SameWalkSound
      <3>7. Aged(k, n) = r
        BY <2>4 DEF Aged, a
      <3> QED
        BY <3>6, <3>7
    <2> QED
      BY <2>3, <2>4
  <1> QED
    BY <1>1, <1>2

(* Time passes for all of them.                                             *)
LEMMA TimeSound ==
    ASSUME WalkInv, Tick \/ LongTick PROVE ConnsSound
  <1>1. ASSUME NEW c \in Conns
        PROVE  /\ conn[c] = Closed \/ Sound(conn[c])
               /\ Limit(conn[c]) \in Nat
    <2>1. ConnectMs * Grain \in Nat /\ HandshakeMs * Grain \in Nat
      BY WalkAssumption
    <2>2. Limit(conn[c]) \in Nat
      BY <2>1 DEF Limit
    <2> QED
      BY <2>2, ConnOf
  <1>2. ASSUME NEW c \in Conns PROVE conn'[c] = Closed \/ Sound(conn'[c])
    <2>1. CASE Tick
      BY <1>1, <2>1, AgedSound DEF Tick
    <2>2. CASE LongTick
      BY <1>1, <2>2, AgedSound DEF LongTick
    <2> QED
      BY <2>1, <2>2
  <1>3. conn' = [c \in Conns |-> conn'[c]]
    BY DEF Tick, LongTick
  <1>4. \A c \in Conns : conn'[c] \in Connections \cup {Closed}
    BY <1>2 DEF Sound
  <1>5. conn' \in [Conns -> Connections \cup {Closed}]
    BY <1>3, <1>4
  <1>6. \A c \in Conns : conn'[c].phase # "CLOSED" => Sound(conn'[c])
    BY <1>2 DEF Closed
  <1> QED
    BY <1>5, <1>6 DEF ConnsSound

(* The walk uses the table as the table is meant to be used.                *)
LEMMA WalkUsesTable ==
    ASSUME [WalkNext]_walk PROVE [CacheNext]_cache
  <1>1. ASSUME NEW c \in Conns, Opening(c, Places) PROVE [CacheNext]_cache
    <2>1. ASSUME NEW p \in Places, NEW list \in Lists, Resolve(p, list) PROVE CacheNext
      BY <2>1 DEF CacheNext, Lists
    <2>2. PICK p \in Places :
             \/ NameFails(c, p)
             \/ \E list \in Answers :
                   \/ FirstFails(c, p, list)
                   \/ \E tls \in BOOLEAN, out \in Outcomes : Open(c, p, list, tls, out)
      BY <1>1 DEF Opening
    <2>3. CASE NameFails(c, p)
      BY <2>1, <2>3 DEF NameFails, Resolve, Lists
    <2>4. ASSUME NEW list \in Answers, FirstFails(c, p, list) PROVE CacheNext
      BY <2>1, <2>4 DEF FirstFails, Resolve, Lists
    <2>5. ASSUME NEW list \in Answers, NEW tls \in BOOLEAN, NEW out \in Outcomes,
                 Open(c, p, list, tls, out)
          PROVE  CacheNext
      BY <2>1, <2>5 DEF Open, Resolve, Lists
    <2> QED
      BY <2>2, <2>3, <2>4, <2>5
  <1>2. ASSUME NEW c \in Conns, Step(c) PROVE UNCHANGED cache
    BY <1>2 DEF Step, StepConnected, StepMovesOn, StepExhausts, StepHandshake,
                StepSending, Completes
  <1>3. ASSUME NEW c \in Conns,
               Close(c) \/ Readies(c) \/ \E out \in Outcomes : Answered(c, out)
        PROVE  UNCHANGED cache
    BY <1>3 DEF Close, Readies, Answered
  <1>4. Tick \/ ResetLatch \/ (\E on \in BOOLEAN : SetPolicy(on)) \/ UNCHANGED walk
          => UNCHANGED cache
    BY DEF Tick, ResetLatch, SetPolicy, walk
  <1>5. LongTick => CacheNext
    BY DEF LongTick, CacheNext
  <1> QED
    BY <1>1, <1>2, <1>3, <1>4, <1>5 DEF WalkNext, WalkStep

(* The shared settings of the next state.                                   *)
SharedOK ==
    /\ familySkip' \in BOOLEAN /\ skipFamilies' \in SUBSET Families
    /\ connectError' \in BOOLEAN

(* A walk is opened, or fails to open.                                      *)
LEMMA OpeningSound ==
    ASSUME WalkInv, NEW c \in Conns, Opening(c, Places)
    PROVE  ConnsSound /\ SharedOK /\ UNCHANGED <<familySkip, skipFamilies>>
  <1>1. /\ familySkip \in BOOLEAN /\ skipFamilies \in SUBSET Families
        /\ connectError \in BOOLEAN /\ CacheInv
    BY DEF WalkInv, WalkTypeOK
  <1>2. PICK p \in Places :
           \/ NameFails(c, p)
           \/ \E list \in Answers :
                 \/ FirstFails(c, p, list)
                 \/ \E tls \in BOOLEAN, out \in Outcomes : Open(c, p, list, tls, out)
    BY DEF Opening
  <1>3. ASSUME connectError' = TRUE, conn' = conn,
               UNCHANGED <<familySkip, skipFamilies>>
        PROVE  ConnsSound /\ SharedOK
    <2>1. connectError' \in BOOLEAN
      BY <1>3, Zenon
    <2> QED
      BY <1>1, <1>3, <2>1, NoneMoves DEF SharedOK
  <1>4. CASE NameFails(c, p)
    BY <1>3, <1>4 DEF NameFails
  <1>5. ASSUME NEW list \in Answers, FirstFails(c, p, list)
        PROVE  ConnsSound /\ SharedOK /\ UNCHANGED <<familySkip, skipFamilies>>
    BY <1>3, <1>5 DEF FirstFails
  <1>6. ASSUME NEW list \in Answers, NEW tls \in BOOLEAN, NEW out \in Outcomes,
               Open(c, p, list, tls, out)
        PROVE  ConnsSound /\ SharedOK /\ UNCHANGED <<familySkip, skipFamilies>>
    <2>1. out \in Shown
      BY <1>6 DEF Open, Outcomes, Shown
    <2>2. Sound(Opened(list, tls, out))
      BY <1>1, <2>1, OpenedSound
    <2>3. conn' = [conn EXCEPT ![c] = Opened(list, tls, out)] /\ UNCHANGED shared
      BY <1>6 DEF Open
    <2>4. ConnsSound
      BY <2>2, <2>3, OneMoves
    <2> QED
      BY <1>1, <2>3, <2>4 DEF SharedOK, shared
  <1> QED
    BY <1>2, <1>4, <1>5, <1>6

(* Every step keeps every connection sound.                                 *)
LEMMA WalkStepSound ==
    ASSUME WalkInv, [WalkNext]_walk PROVE WalkInv'
  <1>1. CacheInv'
    BY WalkUsesTable, CacheStep DEF WalkInv
  <1>2. /\ familySkip \in BOOLEAN /\ skipFamilies \in SUBSET Families
        /\ connectError \in BOOLEAN
    BY DEF WalkInv, WalkTypeOK
  <1>3. UNCHANGED shared => SharedOK
    BY <1>2 DEF shared, SharedOK
  <1>4. ConnsSound /\ SharedOK
    <2>1. ASSUME NEW c \in Conns, Opening(c, Places) PROVE ConnsSound /\ SharedOK
      BY <2>1, OpeningSound
    <2>2. ASSUME NEW c \in Conns, Step(c) PROVE ConnsSound /\ SharedOK
      <3>1. CASE StepHandshake(c) \/ StepSending(c)
        <4>1. ConnsSound
          BY <3>1, StepOnSound
        <4> QED
          BY <1>3, <3>1, <4>1 DEF StepHandshake, StepSending
      <3>2. CASE \/ StepConnected(c)
                 \/ \E outs \in [Ahead(conn[c]) -> Outcomes] :
                       StepMovesOn(c, outs) \/ StepExhausts(c, outs)
        BY <1>2, <3>2, AttemptEnds DEF SharedOK
      <3> QED
        BY <2>2, <3>1, <3>2 DEF Step
    <2>3. ASSUME NEW c \in Conns,
                 Close(c) \/ Readies(c) \/ \E out \in Outcomes : Answered(c, out)
          PROVE  ConnsSound /\ SharedOK
      <3>1. ConnsSound
        BY <2>3, StepOnSound
      <3> QED
        BY <1>3, <2>3, <3>1 DEF Close, Readies, Answered
    <2>4. CASE Tick \/ LongTick
      BY <1>3, <2>4, TimeSound DEF Tick, LongTick
    <2>5. ASSUME NEW on \in BOOLEAN, SetPolicy(on) PROVE ConnsSound /\ SharedOK
      <3>1. familySkip' \in BOOLEAN
        BY <2>5, Zenon DEF SetPolicy
      <3> QED
        BY <1>2, <2>5, <3>1, NoneMoves DEF SetPolicy, SharedOK
    <2>6. CASE ResetLatch
      BY <1>2, <2>6, NoneMoves DEF ResetLatch, SharedOK
    <2>7. CASE UNCHANGED walk
      BY <1>3, <2>7, NoneMoves DEF walk
    <2> QED
      BY <2>1, <2>2, <2>3, <2>4, <2>5, <2>6, <2>7 DEF WalkNext, WalkStep
  <1> QED
    BY <1>1, <1>4 DEF WalkInv, WalkTypeOK, CacheInv, ConnsSound, SharedOK, Free

(* At the start there is none.                                              *)
LEMMA WalkStart ==
    ASSUME WalkInit PROVE WalkInv
  <1>1. CacheInv
    BY CacheStart DEF WalkInit
  <1>2. connectError \in BOOLEAN
    BY Zenon DEF WalkInit
  <1>3. conn \in [Conns -> Connections \cup {Closed}] /\ \A c \in Conns : Free(c)
    BY DEF WalkInit, Free, Closed
  <1> QED
    BY <1>1, <1>2, <1>3 DEF WalkInv, WalkTypeOK, WalkInit, CacheInv

(* Whatever the network and the name service do, and however the walks of   *)
(* several connections interleave, every connection is sound.               *)
THEOREM WalkInvariant == WalkSpec => []WalkInv
  <1>1. WalkInit => WalkInv
    BY WalkStart
  <1>2. WalkInv /\ [WalkNext]_walk => WalkInv'
    BY WalkStepSound
  <1> QED
    BY <1>1, <1>2, PTL DEF WalkSpec

(* The type invariant of the walk.                                          *)
THEOREM WalkTypeCorrect == WalkSpec => []WalkTypeOK
  <1>1. WalkInv => WalkTypeOK
    BY DEF WalkInv
  <1> QED
    BY <1>1, WalkInvariant, PTL

(* The connect walk (nm_socket_step_connect, conn_step in transport.c)      *)
(* dials every address of the name up to its cap, kept families first, has  *)
(* had a verdict on each when it reports failure, and lets no byte of the   *)
(* request out before the connection is up and secure.                      *)
THEOREM WalksAreComplete == WalkSpec => []WalkComplete
  <1>1. WalkInv => WalkComplete
    <2>1. SUFFICES ASSUME WalkInv, NEW c \in Conns, ~Free(c)
                   PROVE  /\ Ordered(conn[c])
                          /\ conn[c].err = "socket" =>
                               \A i \in DOMAIN conn[c].fate : conn[c].fate[i] # NotTried
                          /\ conn[c].phase \in {"SENDING", "READING"} =>
                               conn[c].net = "up" /\ (conn[c].tls => conn[c].secure)
      BY DEF WalkComplete, HintNeverVeto, WalkTriesAll, RequestFollowsHandshake
    <2> DEFINE k == conn[c]
    <2>2. Sound(k) /\ k.addrs \in Seq(Addrs)
      BY <2>1, ConnOf DEF Connections
    <2> HIDE DEF k
    <2>3. k.phase \in {"SENDING", "READING"} => k.net = "up" /\ (k.tls => k.secure)
      BY <2>2 DEF Sound, InPhase
    <2>4. ASSUME k.err = "socket" PROVE \A i \in DOMAIN k.fate : k.fate[i] # NotTried
      <3>1. /\ DOMAIN k.fate = 1 .. Len(k.addrs) /\ k.idx = Len(k.addrs) + 1
            /\ \A i \in DOMAIN k.fate : i < k.idx => k.fate[i] # NotTried
            /\ Len(k.addrs) \in Nat
        BY <2>2, <2>4 DEF Sound, Behind
      <3> QED
        BY <3>1
    <2> QED
      BY <2>2, <2>3, <2>4 DEF Sound, k
  <1> QED
    BY <1>1, WalkInvariant, PTL

(* The rounding of a remainder to whole milliseconds.                       *)
LEMMA MsLeftBounds ==
    ASSUME NEW age \in Nat, NEW ms \in Nat
    PROVE  /\ MsLeft(age, ms) \in Nat
           /\ MsLeft(age, ms) = 0 => age >= ms * Grain
           /\ MsLeft(age, ms) > 0 => MsLeft(age, ms) * Grain < ms * Grain - age + Grain
  <1> DEFINE left == ms * Grain - age
             d == left \div Grain
  <1>1. Grain \in Nat /\ Grain > 0 /\ ms * Grain \in Nat
    BY WalkAssumption
  <1>2. left \in Int /\ (left <= 0 <=> age >= ms * Grain)
    BY <1>1
  <1>3. MsLeft(age, ms) = IF left <= 0 THEN 0 ELSE IF d = 0 THEN 1 ELSE d
    BY DEF MsLeft
  <1> HIDE DEF left
  <1>4. d \in Int /\ d * Grain <= left /\ (left > 0 => d >= 0)
    <2>1. left = Grain * d + (left % Grain) /\ (left % Grain) \in 0 .. Grain - 1
      BY <1>1, <1>2
    <2>2. d \in Int
      BY <1>1, <1>2
    <2> HIDE DEF d
    <2>3. left > 0 => d >= 0
      <3>1. SUFFICES ASSUME left > 0, d <= -1 PROVE FALSE
        BY <1>2, <2>2
      <3>2. Grain * d <= -Grain /\ Grain * d \in Int
        BY <1>1, <2>2, <3>1
      <3>3. PICK m \in 0 .. Grain - 1 : left = Grain * d + m
        BY <2>1
      <3> DEFINE e == Grain * d
      <3>4. e <= -Grain /\ e \in Int /\ left = e + m
        BY <3>2, <3>3
      <3> HIDE DEF e
      <3> QED
        BY <1>1, <3>1, <3>3, <3>4
    <2> QED
      BY <1>1, <1>2, <2>1, <2>2, <2>3
  <1> HIDE DEF d
  <1>5. CASE left <= 0
    BY <1>2, <1>3, <1>5
  <1>6. CASE left > 0 /\ d = 0
    <2>1. MsLeft(age, ms) = 1 /\ 1 * Grain = Grain
      BY <1>1, <1>2, <1>3, <1>6
    <2> QED
      BY <1>1, <1>2, <1>6, <2>1 DEF left
  <1>7. CASE left > 0 /\ d # 0
    <2>1. MsLeft(age, ms) = d /\ d > 0
      BY <1>2, <1>3, <1>4, <1>7
    <2> QED
      BY <1>1, <1>2, <1>4, <1>7, <2>1 DEF left
  <1> QED
    BY <1>2, <1>4, <1>5, <1>6, <1>7

(* The wait handed to the event loop (connect_wait_ms, nm_connection_wait_ms) *)
(* is 0 only when the budget is spent, and never a millisecond more than    *)
(* what is left of it.                                                      *)
THEOREM WaitsAreWhatIsLeft == WalkSpec => []WaitIsWhatIsLeft
  <1>1. WalkInv => WaitIsWhatIsLeft
    <2>1. SUFFICES ASSUME WalkInv, NEW c \in Conns, ~Free(c)
                   PROVE  LET k == conn[c]
                          IN  /\ WaitMs(k) = 0 => AttemptSpent(k) \/ HandshakeSpent(k)
                              /\ WaitMs(k) > 0 => WaitMs(k) * Grain < Limit(k) - k.age + Grain
      BY DEF WaitIsWhatIsLeft
    <2> DEFINE k == conn[c]
    <2>2. k.age \in Nat
      BY <2>1, ConnOf DEF Connections
    <2>3. ConnectMs \in Nat /\ HandshakeMs \in Nat
      BY WalkAssumption
    <2> HIDE DEF k
    <2>4. CASE k.phase = "CONNECTING"
      <3>1. WaitMs(k) = MsLeft(k.age, ConnectMs) /\ Limit(k) = ConnectMs * Grain
        BY <2>4 DEF WaitMs, Limit
      <3> QED
        BY <2>2, <2>3, <3>1, MsLeftBounds DEF AttemptSpent, k
    <2>5. CASE k.phase = "HANDSHAKE" /\ HandshakeMs # 0
      <3>1. WaitMs(k) = MsLeft(k.age, HandshakeMs) /\ Limit(k) = HandshakeMs * Grain
        BY <2>5 DEF WaitMs, Limit
      <3>2. HandshakeMs > 0
        BY <2>3, <2>5
      <3> QED
        BY <2>2, <2>3, <3>1, <3>2, MsLeftBounds DEF HandshakeSpent, k
    <2>6. CASE \/ k.phase = "HANDSHAKE" /\ HandshakeMs = 0
               \/ k.phase \notin {"CONNECTING", "HANDSHAKE"}
      <3>1. WaitMs(k) = -1
        BY <2>6 DEF WaitMs
      <3> QED
        BY <3>1 DEF k
    <2> QED
      BY <2>4, <2>5, <2>6
  <1> QED
    BY <1>1, WalkInvariant, PTL

(* A family is latched (note_family_skips) only under the policy, as an     *)
(* address of another family answers, in a walk where one of its own stayed *)
(* silent for the whole budget.                                             *)
LEMMA LatchStep ==
    ASSUME WalkInv, [WalkNext]_walk, NEW f \in skipFamilies' \ skipFamilies
    PROVE  /\ familySkip
           /\ \E c \in Conns :
                 /\ conn[c].phase = "CONNECTING" /\ conn'[c].phase # "CONNECTING"
                 /\ conn'[c].err # "socket"
                 /\ FamilyOf[conn'[c].addrs[conn'[c].idx]] # f
                 /\ \E i \in DOMAIN conn'[c].addrs :
                       /\ FamilyOf[conn'[c].addrs[i]] = f
                       /\ conn'[c].fate[i] = "silent"
  <1>1. ASSUME NEW c \in Conns, Opening(c, Places) PROVE UNCHANGED skipFamilies
    BY <1>1, OpeningSound
  <1>2. ASSUME NEW c \in Conns,
               \/ StepHandshake(c) \/ StepSending(c) \/ Close(c) \/ Readies(c)
               \/ \E out \in Outcomes : Answered(c, out)
        PROVE  UNCHANGED skipFamilies
    BY <1>2 DEF StepHandshake, StepSending, Close, Readies, Answered, shared
  <1>3. Tick \/ LongTick \/ (\E on \in BOOLEAN : SetPolicy(on)) \/ UNCHANGED walk
          => UNCHANGED skipFamilies
    BY DEF Tick, LongTick, SetPolicy, walk, shared
  <1>4. ResetLatch => skipFamilies' = {}
    BY DEF ResetLatch
  <1>5. PICK c \in Conns :
             \/ StepConnected(c)
             \/ \E outs \in [Ahead(conn[c]) -> Outcomes] :
                   StepMovesOn(c, outs) \/ StepExhausts(c, outs)
    BY <1>1, <1>2, <1>3, <1>4 DEF WalkNext, WalkStep, Step
  <1>6. /\ familySkip
        /\ conn[c].phase = "CONNECTING" /\ conn'[c].phase # "CONNECTING"
        /\ conn'[c].err # "socket"
        /\ \E k : Sound(k) /\ SameWalk(conn'[c], k) /\ f \in NewSkips(k)
    BY <1>5, AttemptEnds
  <1>7. PICK k : Sound(k) /\ SameWalk(conn'[c], k) /\ f \in NewSkips(k)
    BY <1>6
  <1>8. f \in k.abandoned /\ FamilyOf[k.addrs[k.idx]] # f
    BY <1>7 DEF NewSkips
  <1>9. PICK i \in DOMAIN k.addrs : FamilyOf[k.addrs[i]] = f /\ k.fate[i] = "silent"
    BY <1>7, <1>8 DEF Sound, Behind
  <1> QED
    BY <1>6, <1>7, <1>8, <1>9 DEF SameWalk

(* The same of every behaviour.                                             *)
THEOREM LatchIsEvidence == WalkSpec => LatchNeedsSilenceAndAnAnswer
  <1>1. WalkInv /\ [WalkNext]_walk =>
          [\A f \in skipFamilies' \ skipFamilies :
             /\ familySkip
             /\ \E c \in Conns :
                   /\ conn[c].phase = "CONNECTING" /\ conn'[c].phase # "CONNECTING"
                   /\ conn'[c].err # "socket"
                   /\ FamilyOf[conn'[c].addrs[conn'[c].idx]] # f
                   /\ \E i \in DOMAIN conn'[c].addrs :
                         /\ FamilyOf[conn'[c].addrs[i]] = f
                         /\ conn'[c].fate[i] = "silent"]_walk
    BY LatchStep
  <1> QED
    BY <1>1, WalkInvariant, PTL DEF WalkSpec, LatchNeedsSilenceAndAnAnswer

(* Under the walks of any number of connections the table is what it is by  *)
(* itself, ...                                                              *)
THEOREM WalksKeepTheTable == WalkSpec => CacheSpec
  <1>1. WalkInit => CacheInit
    BY DEF WalkInit
  <1>2. [WalkNext]_walk => [CacheNext]_cache
    BY WalkUsesTable
  <1> QED
    BY <1>1, <1>2, PTL DEF WalkSpec, CacheSpec

(* ... so that no connection ever dials the addresses of another name.      *)
THEOREM WalksKeepNames == WalkSpec => NamesKept
  BY WalksKeepTheTable, CacheKeepsNames, PTL
=============================================================================
