----------------------------- MODULE FilesProofs -----------------------------
(***************************************************************************)
(* Proofs about the file tools (tools_file.c), for every value of the      *)
(* constants.                                                              *)
(*                                                                         *)
(* The ledger (FileLedger), for every set of files, spellings, windows and *)
(* contents and every size of the table.  Four inductive invariants, each  *)
(* beside the type invariant: what a live record stands for (Backed), that *)
(* the newest live record of a path still has the file's identity unless   *)
(* another process wrote it (Fresh), and that a record with the file's     *)
(* identity saw its content while times move on (Timely).                  *)
(*                                                                         *)
(* The write and the edit (FileTools), for every text, edit, directory and *)
(* number of links: what an edit computes, by climbing through its         *)
(* recursive functions, and the invariant FilesInv of the write.           *)
(***************************************************************************)
EXTENDS FileLedger, FileTools, Counting, SequenceTheorems,
        FiniteSetTheorems, TLAPS

-----------------------------------------------------------------------------
(* The ledger: the table. *)

(* What the community module's RemoveAt leaves.                             *)
LEMMA RemoveAtShape ==
    ASSUME NEW S, NEW l \in Seq(S), NEW k \in 1 .. Len(l)
    PROVE  /\ RemoveAt(l, k) \in Seq(S)
           /\ Len(RemoveAt(l, k)) = Len(l) - 1
           /\ \A i \in 1 .. Len(l) - 1 :
                RemoveAt(l, k)[i] = l[IF i < k THEN i ELSE i + 1]
<1> DEFINE front == SubSeq(l, 1, k - 1)
           back  == SubSeq(l, k + 1, Len(l))
<1>1. Len(l) \in Nat /\ \A i \in 1 .. Len(l) : l[i] \in S
  BY LenProperties, ElementOfSeq
<1>2. /\ front \in Seq(S) /\ Len(front) = k - 1
      /\ \A i \in 1 .. k - 1 : front[i] = l[i]
  <2>1. \A i \in 1 .. k - 1 : l[i] \in S  BY <1>1
  <2>2. 1 \in Int /\ k - 1 \in Int  OBVIOUS
  <2>3. /\ front \in Seq(S)
        /\ Len(front) = IF 1 <= k - 1 THEN k - 1 - 1 + 1 ELSE 0
        /\ \A i \in 1 .. k - 1 - 1 + 1 : front[i] = l[1 + i - 1]
    BY <2>1, <2>2, SubSeqProperties
  <2> HIDE DEF front
  <2> QED  BY <2>3
<1>3. /\ back \in Seq(S) /\ Len(back) = Len(l) - k
      /\ \A i \in 1 .. Len(l) - k : back[i] = l[k + i]
  <2>1. \A i \in k + 1 .. Len(l) : l[i] \in S  BY <1>1
  <2>2. k + 1 \in Int /\ Len(l) \in Int  BY <1>1
  <2>3. /\ back \in Seq(S)
        /\ Len(back) = IF k + 1 <= Len(l) THEN Len(l) - (k + 1) + 1 ELSE 0
        /\ \A i \in 1 .. Len(l) - (k + 1) + 1 : back[i] = l[k + 1 + i - 1]
    BY <2>1, <2>2, SubSeqProperties
  <2> HIDE DEF back
  <2> QED  BY <2>3, <1>1
<1> HIDE DEF front, back
<1>4. /\ front \o back \in Seq(S)
      /\ Len(front \o back) = Len(front) + Len(back)
      /\ \A i \in 1 .. Len(front) + Len(back) : (front \o back)[i] =
           IF i <= Len(front) THEN front[i] ELSE back[i - Len(front)]
  BY <1>2, <1>3, ConcatProperties, Zenon
<1>5. ASSUME NEW i \in 1 .. Len(l) - 1
      PROVE  (front \o back)[i] = l[IF i < k THEN i ELSE i + 1]
  <2>1. CASE i < k  BY <2>1, <1>1, <1>2, <1>3, <1>4
  <2>2. CASE ~(i < k)
    <3>1. i - (k - 1) \in 1 .. Len(l) - k /\ k + (i - (k - 1)) = i + 1
      BY <2>2, <1>1
    <3>2. (front \o back)[i] = back[i - (k - 1)]
      BY <2>2, <1>1, <1>2, <1>3, <1>4
    <3> QED  BY <2>2, <3>1, <3>2, <1>3
  <2> QED  BY <2>1, <2>2
<1>6. RemoveAt(l, k) = front \o back  BY DEF RemoveAt, front, back
<1>7. Len(front) + Len(back) = Len(l) - 1  BY <1>1, <1>2, <1>3
<1> QED  BY <1>4, <1>5, <1>6, <1>7

(* Table s is the old one with place k closed, or none, and r at its end.   *)
Closed(k, r, s) ==
    /\ \/ k \in SameKey(r)
       \/ SameKey(r) = {} /\ k = 1 /\ Len(ledger) = MaxEntries
       \/ SameKey(r) = {} /\ k = Len(ledger) + 1 /\ Len(ledger) < MaxEntries
    /\ s \in Seq(Records)
    /\ Len(s) = IF k <= Len(ledger) THEN Len(ledger) ELSE Len(ledger) + 1
    /\ s[Len(s)] = r
    /\ \A i \in 1 .. Len(s) - 1 : s[i] = ledger[IF i < k THEN i ELSE i + 1]

(* What record() does.                                                      *)
LEMMA RecordCloses ==
    ASSUME TypeOK, NEW r \in Records
    PROVE  \E k \in 1 .. Len(ledger) + 1 : Closed(k, r, Record(r))
<1>1. ledger \in Seq(Records) /\ Len(ledger) \in Nat /\ Len(ledger) <= MaxEntries
      /\ MaxEntries \in Nat \ {0} /\ DOMAIN ledger = 1 .. Len(ledger)
  BY ConstantsAssumption DEF TypeOK
<1>2. ASSUME NEW s \in Seq(Records)
      PROVE  /\ Append(s, r) \in Seq(Records)
             /\ Len(Append(s, r)) = Len(s) + 1 /\ Len(s) \in Nat
             /\ Append(s, r)[Len(s) + 1] = r
             /\ \A i \in 1 .. Len(s) : Append(s, r)[i] = s[i]
  BY <1>2
<1>3. CASE SameKey(r) # {}
  <2> DEFINE k == CHOOSE i \in SameKey(r) : TRUE
  <2>1. k \in SameKey(r) /\ k \in 1 .. Len(ledger)  BY <1>1, <1>3 DEF SameKey
  <2>2. Record(r) = Append(RemoveAt(ledger, k), r)  BY <1>3 DEF Record
  <2> HIDE DEF k
  <2>3. /\ RemoveAt(ledger, k) \in Seq(Records)
        /\ Len(RemoveAt(ledger, k)) = Len(ledger) - 1
        /\ \A i \in 1 .. Len(ledger) - 1 :
             RemoveAt(ledger, k)[i] = ledger[IF i < k THEN i ELSE i + 1]
    BY <1>1, <2>1, RemoveAtShape, Zenon
  <2>4. /\ Record(r) \in Seq(Records) /\ Len(Record(r)) = Len(ledger)
        /\ Record(r)[Len(ledger)] = r
        /\ \A i \in 1 .. Len(ledger) - 1 :
             Record(r)[i] = RemoveAt(ledger, k)[i]
    <3> DEFINE s == RemoveAt(ledger, k)
    <3>1. s \in Seq(Records) /\ Len(s) = Len(ledger) - 1  BY <2>3
    <3> HIDE DEF s
    <3>2. /\ Append(s, r) \in Seq(Records) /\ Len(Append(s, r)) = Len(ledger)
          /\ Append(s, r)[Len(ledger)] = r
          /\ \A i \in 1 .. Len(ledger) - 1 : Append(s, r)[i] = s[i]
      BY <3>1, <1>1
    <3> QED  BY <3>2, <2>2 DEF s
  <2>5. Closed(k, r, Record(r))
    <3>1. k <= Len(ledger)  BY <2>1, <1>1
    <3>2. \A i \in 1 .. Len(Record(r)) - 1 :
            Record(r)[i] = ledger[IF i < k THEN i ELSE i + 1]
      BY <2>3, <2>4
    <3> QED  BY <2>1, <2>4, <3>1, <3>2 DEF Closed
  <2> QED  BY <2>1, <2>5, <1>1
<1>4. CASE SameKey(r) = {} /\ Len(ledger) < MaxEntries
  <2>1. Record(r) = Append(ledger, r)  BY <1>4 DEF Record
  <2>2. Closed(Len(ledger) + 1, r, Record(r))
    <3>1. Len(ledger) \in Nat /\ Len(Record(r)) = Len(ledger) + 1
      BY <1>1, <2>1
    <3>2. \A i \in 1 .. Len(ledger) : Record(r)[i] = ledger[i]
      BY <1>1, <2>1
    <3>3. Record(r)[Len(ledger) + 1] = r  BY <1>1, <2>1
    <3> DEFINE k == Len(ledger) + 1
    <3>4. /\ Len(Record(r)) = IF k <= Len(ledger) THEN Len(ledger)
                              ELSE Len(ledger) + 1
          /\ Record(r)[Len(Record(r))] = r
      BY <3>1, <3>3
    <3>5. \A i \in 1 .. Len(Record(r)) - 1 :
            Record(r)[i] = ledger[IF i < k THEN i ELSE i + 1]
      <4> DEFINE s == Record(r)
      <4>1. Len(s) = Len(ledger) + 1 /\ Len(ledger) \in Nat
            /\ \A i \in 1 .. Len(ledger) : s[i] = ledger[i]
        BY <3>1, <3>2
      <4> HIDE DEF s
      <4>2. \A i \in 1 .. Len(s) - 1 : s[i] = ledger[IF i < k THEN i ELSE i + 1]
        BY <4>1
      <4> QED  BY <4>2 DEF s
    <3>6. Record(r) \in Seq(Records)  BY <1>1, <2>1, <1>2
    <3> QED  BY <1>4, <3>4, <3>5, <3>6 DEF Closed
  <2> QED  BY <2>2, <1>1
<1>5. CASE SameKey(r) = {} /\ Len(ledger) = MaxEntries
  <2>1. Record(r) = Append(Tail(ledger), r)  BY <1>1, <1>5 DEF Record
  <2>2. Tail(ledger) \in Seq(Records) /\ Len(Tail(ledger)) = Len(ledger) - 1
        /\ \A i \in 1 .. Len(ledger) - 1 : Tail(ledger)[i] = ledger[i + 1]
    BY <1>1, <1>5
  <2>3. Closed(1, r, Record(r))
    BY <1>1, <1>2, <1>5, <2>1, <2>2 DEF Closed
  <2> QED  BY <2>3, <1>1
<1>6. Len(ledger) < MaxEntries \/ Len(ledger) = MaxEntries
  <2>1. \A m, n \in Int : m <= n => m < n \/ m = n  OBVIOUS
  <2>2. Len(ledger) \in Int /\ MaxEntries \in Int  BY <1>1
  <2> QED  BY <1>1, <2>1, <2>2
<1> QED  BY <1>3, <1>4, <1>5, <1>6

(* The read at hand, noted, is a record.                                    *)
LEMMA ReadingTyped ==
    ASSUME TypeOK, Noted
    PROVE  /\ reading.path \in Paths /\ reading.window \in Windows
           /\ FileOf[reading.path] \in Names /\ Bytes \in Contents
           /\ ReadingOf(Bytes) \in Records /\ reading.raced \in BOOLEAN
<1>1. reading \in [path : Paths, window : Windows, id : Ids, raced : BOOLEAN]
  BY DEF TypeOK, Noted
<1>2. FileOf[reading.path] \in Names  BY <1>1, ConstantsAssumption
<1>3. Bytes \in Contents  BY <1>2 DEF TypeOK, Bytes
<1> QED  BY <1>1, <1>2, <1>3 DEF ReadingOf, Records

(* Every record of the table after record() is r or was there before.       *)
LEMMA RecordKeeps ==
    ASSUME TypeOK, NEW r \in Records, NEW j \in DOMAIN Record(r)
    PROVE  \/ Record(r)[j] = r
           \/ \E i \in DOMAIN ledger : Record(r)[j] = ledger[i]
<1>1. PICK k \in 1 .. Len(ledger) + 1 : Closed(k, r, Record(r))
  BY RecordCloses
<1>2. /\ DOMAIN ledger = 1 .. Len(ledger) /\ Len(ledger) \in Nat
      /\ DOMAIN Record(r) = 1 .. Len(Record(r)) /\ Len(Record(r)) \in Nat
  BY <1>1 DEF Closed, TypeOK
<1>3. CASE j = Len(Record(r))  BY <1>1, <1>3 DEF Closed
<1>4. CASE j # Len(Record(r))
  <2>1. j \in 1 .. Len(Record(r)) - 1  BY <1>2, <1>4
  <2>2. Record(r)[j] = ledger[IF j < k THEN j ELSE j + 1]
    BY <1>1, <2>1 DEF Closed
  <2>3. (IF j < k THEN j ELSE j + 1) \in 1 .. Len(ledger)
    BY <1>1, <1>2, <2>1 DEF Closed
  <2> QED  BY <1>2, <2>2, <2>3
<1> QED  BY <1>3, <1>4

(* A record of the table is a record, and its path is one of the paths.     *)
LEMMA EntryTyped ==
    ASSUME TypeOK, NEW i \in DOMAIN ledger
    PROVE  ledger[i] \in Records /\ ledger[i].path \in Paths
<1>1. ledger[i] \in Records  BY DEF TypeOK
<1> QED  BY <1>1 DEF Records

(* After a noted read the table is the old one, or record() was called.     *)
LEMMA NotedLedger ==
    ASSUME TypeOK, ReadIsNoted
    PROVE  LET r == ReadingOf(Bytes)
           IN  /\ r \in Records /\ r.path = reading.path
               /\ r.window = reading.window /\ r.content = Bytes
               /\ r.id = reading.id /\ ~r.ours
               /\ \/ Verdict(r) = "REPEAT" /\ ledger' = ledger
                  \/ Verdict(r) # "REPEAT" /\ ledger' = Record(r)
<1>1. ReadingOf(Bytes) \in Records  BY ReadingTyped DEF ReadIsNoted
<1>2. ledger' = IF Verdict(ReadingOf(Bytes)) = "REPEAT" THEN ledger
                ELSE Record(ReadingOf(Bytes))
  BY DEF ReadIsNoted
<1> QED  BY <1>1, <1>2 DEF ReadingOf

(* What note_write() does: only the mark of the path's records changes.     *)
LEMMA WrittenShape ==
    ASSUME TypeOK, NEW p \in Paths
    PROVE  /\ Written(p) \in Seq(Records) /\ Len(Written(p)) = Len(ledger)
           /\ DOMAIN Written(p) = DOMAIN ledger
           /\ \A i \in DOMAIN ledger :
                /\ Written(p)[i].path = ledger[i].path
                /\ Written(p)[i].window = ledger[i].window
                /\ Written(p)[i].content = ledger[i].content
                /\ Written(p)[i].id = ledger[i].id
                /\ Written(p)[i].ours <=> ledger[i].ours \/ ledger[i].path = p
<1>1. /\ DOMAIN ledger = 1 .. Len(ledger) /\ Len(ledger) \in Nat
      /\ \A i \in DOMAIN ledger : ledger[i] \in Records
  BY DEF TypeOK
<1>2. ASSUME NEW i \in DOMAIN ledger
      PROVE  /\ Written(p)[i] \in Records
             /\ Written(p)[i].path = ledger[i].path
             /\ Written(p)[i].window = ledger[i].window
             /\ Written(p)[i].content = ledger[i].content
             /\ Written(p)[i].id = ledger[i].id
             /\ Written(p)[i].ours <=> ledger[i].ours \/ ledger[i].path = p
  <2> DEFINE e == ledger[i]
             b == e.ours \/ e.path = p
  <2>1. e \in Records  BY <1>1
  <2>2. Written(p)[i] = [e EXCEPT !.ours = b]  BY DEF Written
  <2>3. b \in BOOLEAN  BY <2>1, Zenon DEF Records
  <2> HIDE DEF e, b
  <2>4. [e EXCEPT !.ours = b] \in Records /\ [e EXCEPT !.ours = b].ours = b
        /\ [e EXCEPT !.ours = b].path = e.path
        /\ [e EXCEPT !.ours = b].window = e.window
        /\ [e EXCEPT !.ours = b].content = e.content
        /\ [e EXCEPT !.ours = b].id = e.id
    BY <2>1, <2>3 DEF Records
  <2> QED  BY <2>2, <2>4 DEF e, b
<1>3. Written(p) \in [1 .. Len(ledger) -> Records]
  BY <1>1, <1>2 DEF Written
<1>4. Written(p) \in Seq(Records) /\ Len(Written(p)) = Len(ledger)
  <2> DEFINE s == Written(p)
  <2>1. s \in [1 .. Len(ledger) -> Records] /\ Len(ledger) \in Nat
    BY <1>1, <1>3
  <2> HIDE DEF s
  <2>2. s \in Seq(Records) /\ Len(s) = Len(ledger)
    BY <2>1
  <2> QED  BY <2>2 DEF s
<1> QED  BY <1>1, <1>2, <1>3, <1>4

(* A stamp given to a file is a legal one, and keeps the newest known.      *)
LEMMA PutTyped ==
    ASSUME TypeOK, NEW f \in Names, NEW c \in Contents, NEW t \in Stamps,
           Put(f, c, t)
    PROVE  /\ disk' \in [Names -> [content : Contents, mtime : Stamps]]
           /\ now' \in Stamps /\ honest' \in BOOLEAN
<1>1. t \in 1 .. MaxStamp  BY DEF Stamps
<1> QED  BY <1>1 DEF Put, TypeOK

(* One record per path and window.                                          *)
OnePerKey ==
    \A i, j \in DOMAIN ledger :
        ledger[i].path = ledger[j].path /\ ledger[i].window = ledger[j].window
            => i = j

(* nm_file_ledger_record keeps the table within its cap and one record per  *)
(* path and window.                                                         *)
LEMMA RecordTyped ==
    ASSUME TypeOK, NEW r \in Records, ledger' = Record(r)
    PROVE  ledger' \in Seq(Records) /\ Len(ledger') <= MaxEntries /\ OnePerKey'
<1>1. PICK k \in 1 .. Len(ledger) + 1 : Closed(k, r, ledger')
  BY RecordCloses
<1>2. /\ DOMAIN ledger = 1 .. Len(ledger) /\ Len(ledger) \in Nat
      /\ DOMAIN ledger' = 1 .. Len(ledger') /\ Len(ledger') \in Nat
  BY <1>1 DEF Closed, TypeOK
<1>3. Len(ledger') <= MaxEntries
  <2>1. MaxEntries \in Int /\ Len(ledger) \in Int /\ Len(ledger) <= MaxEntries
    BY <1>2, ConstantsAssumption DEF TypeOK
  <2>2. CASE k <= Len(ledger)  BY <1>1, <2>1, <2>2 DEF Closed
  <2>3. CASE ~(k <= Len(ledger))
    <3>1. k = Len(ledger) + 1  BY <2>3, <1>2
    <3>2. k \notin SameKey(r)  BY <1>2, <3>1 DEF SameKey
    <3>3. k # 1 \/ Len(ledger) # MaxEntries
      <4>1. MaxEntries # 0  BY ConstantsAssumption
      <4> QED  BY <3>1, <1>2, <4>1
    <3>4. Len(ledger) < MaxEntries  BY <1>1, <3>1, <3>2, <3>3 DEF Closed
    <3>5. Len(ledger') = Len(ledger) + 1  BY <1>1, <2>3 DEF Closed
    <3> QED  BY <2>1, <3>4, <3>5
  <2> QED  BY <2>2, <2>3
<1>4. ASSUME NEW i \in 1 .. Len(ledger') - 1
      PROVE  LET m == IF i < k THEN i ELSE i + 1
             IN  m \in DOMAIN ledger /\ m # k /\ ledger'[i] = ledger[m]
  BY <1>1, <1>2 DEF Closed
<1>5. ASSUME NEW i \in 1 .. Len(ledger') - 1
      PROVE  ledger'[i].path # r.path \/ ledger'[i].window # r.window
  <2> DEFINE m == IF i < k THEN i ELSE i + 1
  <2>1. m \in DOMAIN ledger /\ m # k /\ ledger'[i] = ledger[m]  BY <1>4
  <2> HIDE DEF m
  <2>2. SUFFICES ASSUME m \in SameKey(r) PROVE FALSE
    BY <2>1 DEF SameKey
  <2>3. k \in SameKey(r)  BY <1>1, <2>2 DEF Closed
  <2>4. m = k  BY <2>2, <2>3 DEF SameKey, TypeOK
  <2> QED  BY <2>1, <2>4
<1>6. OnePerKey'
  <2> SUFFICES ASSUME NEW i \in DOMAIN ledger', NEW j \in DOMAIN ledger',
                      ledger'[i].path = ledger'[j].path,
                      ledger'[i].window = ledger'[j].window
               PROVE  i = j
    BY DEF OnePerKey
  <2> DEFINE n == Len(ledger')
  <2>1. ledger'[n] = r  BY <1>1 DEF Closed
  <2>2. CASE i = n \/ j = n
    <3>1. i \in 1 .. n - 1 \/ i = n  BY <1>2
    <3>2. j \in 1 .. n - 1 \/ j = n  BY <1>2
    <3> QED  BY <2>1, <2>2, <3>1, <3>2, <1>5
  <2>3. CASE i # n /\ j # n
    <3>1. i \in 1 .. n - 1 /\ j \in 1 .. n - 1  BY <1>2, <2>3
    <3> DEFINE a == IF i < k THEN i ELSE i + 1
               b == IF j < k THEN j ELSE j + 1
    <3>2. /\ a \in DOMAIN ledger /\ ledger'[i] = ledger[a]
          /\ b \in DOMAIN ledger /\ ledger'[j] = ledger[b]
      BY <3>1, <1>4
    <3>3. a = b
      <4> HIDE DEF a, b
      <4> QED  BY <3>2 DEF TypeOK
    <3> QED  BY <3>1, <3>3, <1>2
  <2> QED  BY <2>2, <2>3
<1> QED  BY <1>1, <1>3, <1>6 DEF Closed

-----------------------------------------------------------------------------
(* The types.                                                               *)

(* TypeOK holds of every reachable state: in particular the table never     *)
(* exceeds its size and never has two records for one path and window.      *)
LEMMA TypeInit == Init => TypeOK
<1> SUFFICES ASSUME Init PROVE TypeOK  OBVIOUS
<1>1. 1 \in Stamps  BY ConstantsAssumption DEF Stamps
<1>2. disk \in [Names -> [content : Contents, mtime : Stamps]]
  BY <1>1 DEF Init
<1>3. ledger = <<>> /\ Len(ledger) = 0 /\ DOMAIN ledger = {}  BY DEF Init
<1>4. 0 <= MaxEntries  BY ConstantsAssumption
<1> QED  BY <1>1, <1>2, <1>3, <1>4 DEF Init, TypeOK

(* Every step of the ledger keeps the types and the shape of the table.     *)
LEMMA TypeNext == TypeOK /\ [Next]_vars => TypeOK'
<1> SUFFICES ASSUME TypeOK, [Next]_vars PROVE TypeOK'  OBVIOUS
<1> USE DEF NoRead
<1>1. ASSUME NEW f \in Names, ForeignWrite(f) PROVE TypeOK'
  <2>1. /\ disk' \in [Names -> [content : Contents, mtime : Stamps]]
        /\ now' \in Stamps /\ honest' \in BOOLEAN
    BY <1>1, PutTyped DEF ForeignWrite
  <2>2. foreign' \in [Paths -> BOOLEAN]
    BY <1>1 DEF ForeignWrite, TypeOK
  <2>3. reading' = NoRead \/ reading' \in [path : Paths, window : Windows,
                                           id : Ids, raced : BOOLEAN]
    BY <1>1 DEF ForeignWrite, TypeOK
  <2> QED  BY <1>1, <2>1, <2>2, <2>3 DEF ForeignWrite, TypeOK
<1>2. ASSUME NEW p \in Paths, NEW w \in Windows, ReadStats(p, w) PROVE TypeOK'
  <2>1. FileOf[p] \in Names  BY ConstantsAssumption
  <2>2. Identity(FileOf[p]) \in Ids  BY <2>1 DEF TypeOK, Identity, Ids
  <2>3. reading' \in [path : Paths, window : Windows, id : Ids, raced : BOOLEAN]
    BY <1>2, <2>2 DEF ReadStats
  <2> QED  BY <1>2, <2>3 DEF ReadStats, histories, TypeOK
<1>3. CASE ReadFails \/ ReadShowsNothing
  BY <1>3 DEF ReadFails, ReadShowsNothing, histories, TypeOK
<1>4. CASE ReadIsNoted
  <2> DEFINE r == ReadingOf(Bytes)
  <2>1. r \in Records /\ (ledger' = ledger \/ ledger' = Record(r))
    BY <1>4, NotedLedger, Zenon
  <2>2. ledger' \in Seq(Records) /\ Len(ledger') <= MaxEntries /\ OnePerKey'
    <3>1. CASE ledger' = ledger  BY <3>1 DEF TypeOK, OnePerKey
    <3>2. CASE ledger' = Record(r)  BY <2>1, <3>2, RecordTyped, Zenon
    <3> QED  BY <2>1, <3>1, <3>2
  <2>3. Noted /\ reading' = NoRead /\ UNCHANGED <<disk, now, honest>>
    BY <1>4 DEF ReadIsNoted
  <2>4. reading.raced \in BOOLEAN  BY <2>3, ReadingTyped
  <2>5. foreign' \in [Paths -> BOOLEAN]
    <3>1. foreign' = foreign \/ foreign' = [foreign EXCEPT ![r.path] = reading.raced]
      BY <1>4 DEF ReadIsNoted
    <3> HIDE DEF r
    <3> QED  BY <2>4, <3>1 DEF TypeOK
  <2> QED  BY <2>2, <2>3, <2>5 DEF TypeOK, OnePerKey
<1>5. ASSUME NEW p \in Paths, ToolWrites(p) PROVE TypeOK'
  <2>1. /\ disk' \in [Names -> [content : Contents, mtime : Stamps]]
        /\ now' \in Stamps /\ honest' \in BOOLEAN
    BY <1>5, PutTyped, ConstantsAssumption DEF ToolWrites
  <2>2. ledger' = Written(p)  BY <1>5 DEF ToolWrites
  <2>3. /\ ledger' \in Seq(Records) /\ Len(ledger') = Len(ledger)
        /\ DOMAIN ledger' = DOMAIN ledger
        /\ \A i \in DOMAIN ledger : /\ ledger'[i].path = ledger[i].path
                                    /\ ledger'[i].window = ledger[i].window
    BY <2>2, WrittenShape
  <2>4. OnePerKey'  BY <2>3 DEF TypeOK, OnePerKey
  <2> QED  BY <1>5, <2>1, <2>3, <2>4 DEF ToolWrites, TypeOK, OnePerKey
<1>6. CASE UNCHANGED vars
  BY <1>6 DEF vars, histories, TypeOK
<1> QED  BY <1>1, <1>2, <1>3, <1>4, <1>5, <1>6 DEF Next

(* The table of file_ledger.c never outgrows its cap, and holds one record  *)
(* per path and window whatever is read and written.                        *)
THEOREM TypeCorrect == Spec => []TypeOK
<1> QED  BY TypeInit, TypeNext, PTL DEF Spec
-----------------------------------------------------------------------------
(* Skips.                                                                   *)

(* What a noted read answers.                                               *)
LEMMA NotedAnswer ==
    ASSUME ReadIsNoted
    PROVE  LET r == ReadingOf(Bytes)
           IN  /\ answer'.verdict = Verdict(r) /\ answer'.read = r
               /\ answer'.text = Body(Bytes, r.window)
               /\ answer'.known = (Live(r.path) # {})
               /\ answer'.before = seen[r.path]
               /\ answer'.raced = reading.raced
               /\ answer'.foreign = foreign[r.path]
  BY DEF ReadIsNoted

(* A live record's text is above; so is the text a repeat points at.        *)
Backed ==
    /\ DOMAIN above = Paths
    /\ \A i \in DOMAIN ledger :
         ~ledger[i].ours =>
           [window |-> ledger[i].window,
            text |-> Body(ledger[i].content, ledger[i].window)]
              \in above[ledger[i].path]
    /\ RepeatIsAbove

(* No step puts a live record in the table whose text is not above, and no  *)
(* repeat answers for a text that is not.                                   *)
LEMMA BackedNext == TypeOK /\ Backed /\ [Next]_vars => Backed'
<1> SUFFICES ASSUME TypeOK, Backed, [Next]_vars PROVE Backed'  OBVIOUS
<1>1. ASSUME answer' = NoAnswer, UNCHANGED <<ledger, above>> PROVE Backed'
  BY <1>1 DEF Backed, RepeatIsAbove, NoAnswer
<1>2. ASSUME NEW f \in Names, ForeignWrite(f) PROVE Backed'
  BY <1>1, <1>2 DEF ForeignWrite
<1>3. ASSUME NEW p \in Paths, NEW w \in Windows, ReadStats(p, w) PROVE Backed'
  BY <1>1, <1>3 DEF ReadStats, histories
<1>4. CASE ReadFails \/ ReadShowsNothing
  BY <1>1, <1>4 DEF ReadFails, ReadShowsNothing, histories
<1>5. CASE ReadIsNoted
  <2> DEFINE r == ReadingOf(Bytes)
             t == [window |-> r.window, text |-> Body(Bytes, r.window)]
  <2>1. /\ r \in Records /\ r.content = Bytes
        /\ \/ Verdict(r) = "REPEAT" /\ ledger' = ledger
           \/ Verdict(r) # "REPEAT" /\ ledger' = Record(r)
    BY <1>5, NotedLedger, Zenon
  <2>2. above' = IF Verdict(r) = "REPEAT" THEN above
                 ELSE [above EXCEPT ![r.path] = @ \cup {t}]
    BY <1>5 DEF ReadIsNoted
  <2>3. r.path \in Paths  BY <2>1 DEF Records
  <2>4. answer'.verdict = Verdict(r) /\ answer'.read = r
        /\ answer'.text = t.text
    BY <1>5, NotedAnswer, Zenon
  <2>5. t = [window |-> r.window, text |-> Body(r.content, r.window)]
    BY <2>1
  <2>6. t.window = r.window  OBVIOUS
  <2>7. t = [window |-> r.window, text |-> t.text]  OBVIOUS
  <2> HIDE DEF r, t
  <2>8. CASE Verdict(r) = "REPEAT"
    <3>1. PICK i \in DOMAIN ledger :
            /\ ledger[i].path = r.path /\ ~ledger[i].ours
            /\ ledger[i].window = r.window /\ ledger[i].content = r.content
      BY <2>8 DEF Verdict, Repeats, Live
    <3>2. t \in above[r.path]  BY <3>1, <2>5 DEF Backed
    <3> QED  BY <2>1, <2>2, <2>4, <2>7, <2>8, <3>2 DEF Backed, RepeatIsAbove
  <2>9. CASE Verdict(r) # "REPEAT"
    <3>1. DOMAIN above' = Paths /\ t \in above'[r.path]
          /\ \A q \in Paths : above[q] \subseteq above'[q]
      BY <2>2, <2>3, <2>9 DEF Backed
    <3>2. ASSUME NEW j \in DOMAIN ledger', ~ledger'[j].ours
          PROVE  [window |-> ledger'[j].window,
                  text |-> Body(ledger'[j].content, ledger'[j].window)]
                    \in above'[ledger'[j].path]
      <4>1. ledger'[j] = r \/ \E i \in DOMAIN ledger : ledger'[j] = ledger[i]
        BY <2>1, <2>9, RecordKeeps
      <4>2. CASE ledger'[j] = r  BY <4>2, <3>1, <2>5
      <4>3. ASSUME NEW i \in DOMAIN ledger, ledger'[j] = ledger[i]
            PROVE  [window |-> ledger'[j].window,
                    text |-> Body(ledger'[j].content, ledger'[j].window)]
                      \in above'[ledger'[j].path]
        <5>1. ledger[i].path \in Paths  BY EntryTyped
        <5>2. ~ledger[i].ours  BY <3>2, <4>3
        <5>3. [window |-> ledger[i].window,
               text |-> Body(ledger[i].content, ledger[i].window)]
                 \in above[ledger[i].path]
          BY <5>2 DEF Backed
        <5> QED  BY <4>3, <5>1, <5>3, <3>1
      <4> QED  BY <4>1, <4>2, <4>3
    <3> QED  BY <3>1, <3>2, <2>4, <2>9 DEF Backed, RepeatIsAbove
  <2> QED  BY <2>8, <2>9
<1>6. ASSUME NEW p \in Paths, ToolWrites(p) PROVE Backed'
  <2>1. /\ ledger' = Written(p) /\ answer' = NoAnswer
        /\ above' = [above EXCEPT ![p] = {}]
    BY <1>6 DEF ToolWrites
  <2>2. ASSUME NEW i \in DOMAIN ledger', ~ledger'[i].ours
        PROVE  [window |-> ledger'[i].window,
                text |-> Body(ledger'[i].content, ledger'[i].window)]
                  \in above'[ledger'[i].path]
    <3>1. /\ i \in DOMAIN ledger /\ ledger[i].path # p /\ ~ledger[i].ours
          /\ ledger'[i].path = ledger[i].path
          /\ ledger'[i].window = ledger[i].window
          /\ ledger'[i].content = ledger[i].content
      BY <2>1, <2>2, WrittenShape
    <3>2. ledger[i].path \in Paths  BY <3>1, EntryTyped
    <3>3. above'[ledger[i].path] = above[ledger[i].path]
      BY <2>1, <3>1, <3>2 DEF Backed
    <3> QED  BY <3>1, <3>3 DEF Backed
  <2> QED  BY <2>1, <2>2 DEF Backed, RepeatIsAbove, NoAnswer
<1>7. CASE UNCHANGED vars
  BY <1>7 DEF vars, histories, Backed, RepeatIsAbove
<1> QED  BY <1>2, <1>3, <1>4, <1>5, <1>6, <1>7 DEF Next

(* RepeatIsAbove: a read is skipped only when the lines it would show were  *)
(* delivered for that path and window since the model last wrote the path.  *)
THEOREM SkipsAreBacked == Spec => []RepeatIsAbove
<1>1. Init => Backed
  BY DEF Init, Backed, RepeatIsAbove, NoAnswer
<1>2. Backed => RepeatIsAbove  BY DEF Backed
<1> QED  BY <1>1, <1>2, BackedNext, TypeCorrect, PTL DEF Spec

-----------------------------------------------------------------------------
(* What was just read.                                                      *)

(* JustReadIsKept: record() evicts something else.                          *)
THEOREM ReadsAreKept == Spec => []JustReadIsKept
<1>1. Init => JustReadIsKept  BY DEF Init, JustReadIsKept, NoAnswer
<1>2. TypeOK /\ JustReadIsKept /\ [Next]_vars => JustReadIsKept'
  <2> SUFFICES ASSUME TypeOK, JustReadIsKept, [Next]_vars
               PROVE  JustReadIsKept'
    OBVIOUS
  <2>1. CASE ReadIsNoted
    <3> DEFINE r == ReadingOf(Bytes)
    <3>1. /\ r \in Records /\ ~r.ours
          /\ \/ Verdict(r) = "REPEAT" /\ ledger' = ledger
             \/ Verdict(r) # "REPEAT" /\ ledger' = Record(r)
      BY <2>1, NotedLedger, Zenon
    <3>2. answer'.read = r  BY <2>1, NotedAnswer, Zenon
    <3> HIDE DEF r
    <3>3. CASE Verdict(r) = "REPEAT"
      BY <3>1, <3>2, <3>3 DEF Verdict, Repeats, Live, JustReadIsKept
    <3>4. CASE Verdict(r) # "REPEAT"
      <4>1. PICK k \in 1 .. Len(ledger) + 1 : Closed(k, r, ledger')
        BY <3>1, <3>4, RecordCloses
      <4>2. Len(ledger') \in DOMAIN ledger' /\ ledger'[Len(ledger')] = r
        BY <4>1 DEF Closed, TypeOK
      <4> QED  BY <3>1, <3>2, <4>2 DEF JustReadIsKept, Live
    <3> QED  BY <3>3, <3>4
  <2>2. CASE answer'.verdict = "none"  BY <2>2 DEF JustReadIsKept
  <2>3. CASE UNCHANGED vars
    BY <2>3 DEF vars, JustReadIsKept, Live
  <2>4. ReadIsNoted \/ answer' = NoAnswer \/ UNCHANGED vars
    BY DEF Next, ForeignWrite, ReadStats, ReadFails, ReadShowsNothing, ToolWrites
  <2> QED  BY <2>1, <2>2, <2>3, <2>4 DEF NoAnswer
<1> QED  BY <1>1, <1>2, TypeCorrect, PTL DEF Spec
-----------------------------------------------------------------------------
(* The file's identity.                                                     *)

(* What stat would answer for f after the step.                             *)
NewIdentity(f) == [size |-> Size(disk'[f].content), mtime |-> disk'[f].mtime]

(* A read under way that nobody raced holds the file's identity.            *)
Current ==
    reading # NoRead /\ ~reading.raced =>
        reading.id = Identity(FileOf[reading.path])

(* A write between stat and read marks the read as raced; nothing else      *)
(* moves the file under it.                                                 *)
LEMMA CurrentNext == TypeOK /\ Current /\ [Next]_vars => Current'
<1> SUFFICES ASSUME TypeOK, Current, [Next]_vars PROVE Current'  OBVIOUS
<1>1. ASSUME NEW f \in Names, ForeignWrite(f) PROVE Current'
  <2> SUFFICES ASSUME reading' # NoRead, ~reading'.raced
               PROVE  reading'.id = NewIdentity(FileOf[reading'.path])
    BY DEF Current, Identity, NewIdentity
  <2>1. reading # NoRead  BY <1>1 DEF ForeignWrite
  <2>2. FileOf[reading.path] # f
    <3> SUFFICES ASSUME FileOf[reading.path] = f PROVE FALSE  OBVIOUS
    <3>1. reading' = [reading EXCEPT !.raced = TRUE]  BY <1>1, <2>1 DEF ForeignWrite
    <3>2. reading \in [path : Paths, window : Windows, id : Ids, raced : BOOLEAN]
      BY <2>1 DEF TypeOK
    <3> QED  BY <3>1, <3>2
  <2>3. reading' = reading  BY <1>1, <2>2 DEF ForeignWrite
  <2>4. FileOf[reading.path] \in Names
    BY <2>1, ConstantsAssumption DEF TypeOK
  <2>5. disk'[FileOf[reading.path]] = disk[FileOf[reading.path]]
    BY <1>1, <2>2, <2>4 DEF ForeignWrite, Put, TypeOK
  <2> QED  BY <2>1, <2>3, <2>5 DEF Current, Identity, NewIdentity
<1>2. ASSUME NEW p \in Paths, NEW w \in Windows, ReadStats(p, w) PROVE Current'
  BY <1>2 DEF ReadStats, Current, Identity, NewIdentity
<1>3. CASE ReadFails \/ ReadShowsNothing \/ ReadIsNoted
  BY <1>3 DEF ReadFails, ReadShowsNothing, ReadIsNoted, Current
<1>4. ASSUME NEW p \in Paths, ToolWrites(p) PROVE Current'
  BY <1>4 DEF ToolWrites, Current
<1>5. CASE UNCHANGED vars  BY <1>5 DEF vars, Current, Identity, NewIdentity
<1> QED  BY <1>1, <1>2, <1>3, <1>4, <1>5 DEF Next

(* While times move on: no time is newer than now, and a live record with   *)
(* the file's identity means its content is the one last seen.              *)
Timely ==
    /\ DOMAIN seen = Paths
    /\ honest =>
         /\ \A f \in Names : disk[f].mtime <= now
         /\ \A i \in DOMAIN ledger : ledger[i].id.mtime <= now
         /\ reading # NoRead => reading.id.mtime <= now
         /\ \A i \in DOMAIN ledger :
              /\ ~ledger[i].ours
              /\ ledger[i].id = Identity(FileOf[ledger[i].path])
              => seen[ledger[i].path] = disk[FileOf[ledger[i].path]].content
    /\ StaleViewTold

(* A write by anybody to file f, while times move on.                       *)
LEMMA PutIsNewer ==
    ASSUME TypeOK, Timely, honest', NEW f \in Names, NEW c \in Contents,
           NEW t \in Stamps, Put(f, c, t)
    PROVE  /\ honest /\ now' \in Int /\ now' > now
           /\ disk'[f].mtime = now'
           /\ \A g \in Names \ {f} : disk'[g] = disk[g]
           /\ \A g \in Names : disk'[g].mtime <= now'
<1>0. honest /\ t > now  BY Zenon DEF Put
<1>1. t > now /\ honest /\ now \in Int /\ t \in Int
  BY <1>0 DEF Stamps, TypeOK
<1>2. now' = t /\ disk'[f] = [content |-> c, mtime |-> t]
      /\ \A g \in Names \ {f} : disk'[g] = disk[g]
  BY DEF Put, TypeOK
<1>3. \A g \in Names : disk[g].mtime <= now /\ disk[g].mtime \in Int
  BY <1>1 DEF Timely, TypeOK, Stamps
<1> QED  BY <1>1, <1>2, <1>3

(* While times move on, a record that still bears the file's identity still *)
(* bears its content, so a stale window is told.                            *)
LEMMA TimelyNext ==
    TypeOK /\ Current /\ Timely /\ [Next]_vars => Timely'
<1> SUFFICES ASSUME TypeOK, Current, Timely, [Next]_vars PROVE Timely'
  OBVIOUS
<1>t. /\ \A i \in DOMAIN ledger : /\ ledger[i].path \in Paths
                                  /\ FileOf[ledger[i].path] \in Names
                                  /\ ledger[i].id.mtime \in Int
      /\ reading # NoRead => reading.id.mtime \in Int
      /\ now \in Int
  <2>1. \A i \in DOMAIN ledger : ledger[i].path \in Paths /\ ledger[i].id \in Ids
    BY EntryTyped DEF Records
  <2>2. \A p \in Paths : FileOf[p] \in Names  BY ConstantsAssumption
  <2>3. \A d \in Ids : d.mtime \in Int  BY DEF Ids, Stamps
  <2>4. reading # NoRead => reading.id \in Ids  BY DEF TypeOK
  <2> QED  BY <2>1, <2>2, <2>3, <2>4 DEF TypeOK, Stamps
<1>1. ASSUME NEW f \in Names, ForeignWrite(f) PROVE Timely'
  <2>1. /\ answer' = NoAnswer /\ UNCHANGED <<ledger, seen>>
        /\ reading' = reading \/ (reading # NoRead
                                  /\ reading' = [reading EXCEPT !.raced = TRUE])
    BY <1>1 DEF ForeignWrite
  <2>2. reading' # NoRead => reading # NoRead /\ reading'.id = reading.id
    BY <2>1 DEF TypeOK
  <2>3. ASSUME honest'
        PROVE  /\ honest /\ now' \in Int /\ now' > now
               /\ disk'[f].mtime = now'
               /\ \A g \in Names \ {f} : disk'[g] = disk[g]
               /\ \A g \in Names : disk'[g].mtime <= now'
    <3>1. PICK c \in Contents, t \in Stamps : Put(f, c, t)
      BY <1>1 DEF ForeignWrite
    <3> QED  BY <2>3, <3>1, PutIsNewer, Zenon
  <2>4. ASSUME honest', NEW i \in DOMAIN ledger', ~ledger'[i].ours,
               ledger'[i].id = NewIdentity(FileOf[ledger'[i].path])
        PROVE  seen'[ledger'[i].path] = disk'[FileOf[ledger'[i].path]].content
    <3> DEFINE g == FileOf[ledger[i].path]
    <3>1. ledger[i].id.mtime = disk'[g].mtime  BY <2>1, <2>4 DEF Identity, NewIdentity
    <3>2. ledger[i].id.mtime <= now  BY <2>1, <2>3, <2>4 DEF Timely
    <3>3. i \in DOMAIN ledger /\ g \in Names  BY <2>1, <2>4, <1>t
    <3>4. g # f  BY <3>1, <3>2, <3>3, <2>3, <2>4, <1>t
    <3>5. disk'[g] = disk[g]  BY <3>3, <3>4, <2>3, <2>4
    <3> QED  BY <2>1, <2>3, <2>4, <3>3, <3>5 DEF Identity, NewIdentity, Timely
  <2> QED
    BY <2>1, <2>2, <2>3, <2>4, <1>t DEF Timely, StaleViewTold, NoAnswer,
                                        Identity, NewIdentity
<1>2. ASSUME NEW p \in Paths, NEW w \in Windows, ReadStats(p, w) PROVE Timely'
  <2>1. FileOf[p] \in Names  BY ConstantsAssumption
  <2>2. reading'.id.mtime = disk[FileOf[p]].mtime  BY <1>2 DEF ReadStats, Identity, NewIdentity
  <2>3. answer' = NoAnswer /\ UNCHANGED <<disk, now, honest, ledger, seen>>
    BY <1>2 DEF ReadStats, histories
  <2> QED  BY <2>1, <2>2, <2>3 DEF Timely, StaleViewTold, NoAnswer, Identity, NewIdentity
<1>3. CASE ReadFails \/ ReadShowsNothing
  <2>1. answer' = NoAnswer /\ reading' = NoRead
        /\ UNCHANGED <<disk, now, honest, ledger, seen>>
    BY <1>3 DEF ReadFails, ReadShowsNothing, histories
  <2> QED  BY <2>1 DEF Timely, StaleViewTold, NoAnswer, Identity, NewIdentity
<1>4. CASE ReadIsNoted
  <2> DEFINE r == ReadingOf(Bytes)
  <2>1. /\ r \in Records /\ r.path = reading.path /\ r.content = Bytes
        /\ r.id = reading.id /\ ~r.ours
        /\ \/ Verdict(r) = "REPEAT" /\ ledger' = ledger
           \/ Verdict(r) # "REPEAT" /\ ledger' = Record(r)
    BY <1>4, NotedLedger, Zenon
  <2>2. seen' = [seen EXCEPT ![r.path] = Bytes] /\ reading' = NoRead
        /\ UNCHANGED <<disk, now, honest>> /\ reading # NoRead
    BY <1>4 DEF ReadIsNoted, Noted
  <2>3. /\ answer'.verdict = Verdict(r) /\ answer'.read = r
        /\ answer'.known = (Live(r.path) # {})
        /\ answer'.before = seen[r.path] /\ answer'.raced = reading.raced
    BY <1>4, NotedAnswer, Zenon
  <2>4. r.path \in Paths /\ Bytes = disk[FileOf[r.path]].content
    BY <2>1 DEF Bytes, Records
  <2> HIDE DEF r
  <2>5. ASSUME NEW j \in DOMAIN ledger'
        PROVE  ledger'[j] = r \/ \E i \in DOMAIN ledger : ledger'[j] = ledger[i]
    BY <2>1, RecordKeeps
  <2>6. ASSUME honest', NEW j \in DOMAIN ledger'
        PROVE  /\ ledger'[j].id.mtime <= now'
               /\ /\ ~ledger'[j].ours
                  /\ ledger'[j].id = NewIdentity(FileOf[ledger'[j].path])
                  => seen'[ledger'[j].path]
                       = disk'[FileOf[ledger'[j].path]].content
    <3>1. CASE ledger'[j] = r
      BY <3>1, <2>1, <2>2, <2>4, <2>6 DEF Timely
    <3>2. ASSUME NEW i \in DOMAIN ledger, ledger'[j] = ledger[i]
          PROVE  /\ ledger'[j].id.mtime <= now'
                 /\ /\ ~ledger'[j].ours
                    /\ ledger'[j].id = NewIdentity(FileOf[ledger'[j].path])
                    => seen'[ledger'[j].path]
                         = disk'[FileOf[ledger'[j].path]].content
      <4>1. ledger[i].path \in Paths  BY <1>t
      <4>2. CASE ledger[i].path = r.path
        BY <3>2, <4>1, <4>2, <2>2, <2>4, <2>6 DEF Timely
      <4>3. CASE ledger[i].path # r.path
        <5>1. seen'[ledger[i].path] = seen[ledger[i].path]
          BY <4>1, <4>3, <2>2 DEF Timely
        <5> QED  BY <3>2, <5>1, <2>2, <2>6 DEF Timely, Identity, NewIdentity
      <4> QED  BY <4>2, <4>3
    <3> QED  BY <2>5, <3>1, <3>2
  <2>7. StaleViewTold'
    <3> SUFFICES ASSUME honest', answer'.verdict = "NONE", answer'.known,
                        ~answer'.raced
                 PROVE  answer'.read.content = answer'.before
      BY DEF StaleViewTold
    <3>1. PICK i \in Live(r.path) : ledger[i].id = r.id
      BY <2>3 DEF Verdict, SameFile
    <3>2. ledger[i].id = Identity(FileOf[r.path])
      BY <2>1, <2>2, <2>3, <3>1 DEF Current
    <3>3. seen[r.path] = disk[FileOf[r.path]].content
      BY <2>2, <3>1, <3>2 DEF Live, Timely
    <3> QED  BY <2>1, <2>3, <2>4, <3>3
  <2>8. DOMAIN seen' = Paths  BY <2>2 DEF Timely
  <2> QED  BY <2>2, <2>6, <2>7, <2>8 DEF Timely, Identity, NewIdentity
<1>5. ASSUME NEW p \in Paths, ToolWrites(p) PROVE Timely'
  <2> DEFINE f == FileOf[p]
  <2>0. f \in Names  BY ConstantsAssumption
  <2>1. /\ answer' = NoAnswer /\ ledger' = Written(p) /\ reading' = NoRead
        /\ seen' = [seen EXCEPT ![p] = Unread]
    BY <1>5 DEF ToolWrites
  <2>2. DOMAIN seen' = Paths  BY <2>1 DEF Timely
  <2>3. ASSUME honest'
        PROVE  /\ honest /\ now' \in Int /\ now' > now
               /\ disk'[f].mtime = now'
               /\ \A g \in Names \ {f} : disk'[g] = disk[g]
               /\ \A g \in Names : disk'[g].mtime <= now'
    <3>1. PICK c \in Contents, t \in Stamps : Put(f, c, t)
      BY <1>5 DEF ToolWrites
    <3> QED  BY <2>0, <2>3, <3>1, PutIsNewer, Zenon
  <2>4. ASSUME honest', NEW i \in DOMAIN ledger'
        PROVE  /\ ledger'[i].id.mtime <= now'
               /\ /\ ~ledger'[i].ours
                  /\ ledger'[i].id = NewIdentity(FileOf[ledger'[i].path])
                  => seen'[ledger'[i].path]
                       = disk'[FileOf[ledger'[i].path]].content
    <3> DEFINE g == FileOf[ledger[i].path]
    <3>1. /\ i \in DOMAIN ledger /\ ledger'[i].path = ledger[i].path
          /\ ledger'[i].id = ledger[i].id
          /\ ledger'[i].ours <=> ledger[i].ours \/ ledger[i].path = p
      BY <2>1, <2>4, WrittenShape
    <3>2. ledger[i].id.mtime <= now /\ g \in Names /\ ledger[i].path \in Paths
          /\ ledger[i].id.mtime \in Int
      BY <2>3, <2>4, <3>1, <1>t DEF Timely
    <3>3. ledger'[i].id.mtime <= now'  BY <2>3, <2>4, <3>1, <3>2, <1>t
    <3>4. ASSUME ~ledger'[i].ours,
                 ledger'[i].id = NewIdentity(FileOf[ledger'[i].path])
          PROVE  seen'[ledger'[i].path] = disk'[FileOf[ledger'[i].path]].content
      <4>1. ledger[i].path # p /\ ~ledger[i].ours  BY <3>1, <3>4
      <4>2. ledger[i].id.mtime = disk'[g].mtime  BY <3>1, <3>4 DEF Identity, NewIdentity
      <4>3. g # f  BY <4>2, <3>2, <2>3, <2>4, <1>t
      <4>4. disk'[g] = disk[g]  BY <4>3, <3>2, <2>3, <2>4
      <4>5. seen'[ledger[i].path] = seen[ledger[i].path]
        BY <2>1, <3>2, <4>1 DEF Timely
      <4>6. ledger[i].id = Identity(g)
        BY <3>1, <3>4, <4>4 DEF Identity, NewIdentity
      <4>7. seen[ledger[i].path] = disk[g].content
        BY <2>3, <2>4, <3>1, <4>1, <4>6 DEF Timely
      <4> QED  BY <3>1, <4>4, <4>5, <4>7
    <3> QED  BY <3>3, <3>4
  <2>5. reading' = NoRead /\ answer'.verdict # "NONE"  BY <2>1 DEF NoAnswer
  <2>6. StaleViewTold'  BY <2>5 DEF StaleViewTold
  <2> QED  BY <2>2, <2>3, <2>4, <2>5, <2>6 DEF Timely, Identity, NewIdentity
<1>6. CASE UNCHANGED vars
  BY <1>6 DEF vars, histories, Timely, StaleViewTold, Identity, NewIdentity
<1> QED  BY <1>1, <1>2, <1>3, <1>4, <1>5, <1>6 DEF Next

(* StaleViewTold: while times move on, a content other than the last seen   *)
(* one is never shown without the note that the file changed.               *)
THEOREM ChangesAreTold == Spec => []StaleViewTold
<1>1. Init => Current /\ Timely
  <2> SUFFICES ASSUME Init PROVE Current /\ Timely  OBVIOUS
  <2>1. Current /\ StaleViewTold /\ DOMAIN seen = Paths /\ DOMAIN ledger = {}
        /\ reading = NoRead
    BY DEF Init, Current, StaleViewTold, NoAnswer
  <2>2. \A f \in Names : disk[f].mtime <= now  BY DEF Init
  <2> QED  BY <2>1, <2>2 DEF Timely
<1>2. Timely => StaleViewTold  BY DEF Timely
<1> QED  BY <1>1, <1>2, CurrentNext, TimelyNext, TypeCorrect, PTL DEF Spec
-----------------------------------------------------------------------------
(* Reported changes, when every file has one spelling.                      *)

(* No file is known by two spellings of its path.                           *)
OneSpelling == \A p, q \in Paths : FileOf[p] = FileOf[q] => p = q

(* Record i is the newest live one of path p.                               *)
Newest(i, p) == i \in Live(p) /\ \A j \in Live(p) : j <= i

(* The newest live record of a path has the file's identity, unless another *)
(* process wrote the file since.                                            *)
Fresh ==
    /\ reading # NoRead /\ reading.raced => foreign[reading.path]
    /\ \A p \in Paths :
         ~foreign[p] /\ Live(p) # {} =>
           \E i \in Live(p) : /\ Newest(i, p)
                              /\ ledger[i].id = Identity(FileOf[p])
    /\ ChangedIsForeign

(* record() keeps another path's newest live record, unless it forgets all  *)
(* of them.                                                                 *)
LEMMA RecordKeepsNewest ==
    ASSUME TypeOK, NEW r \in Records, ledger' = Record(r),
           NEW q \in Paths, q # r.path, Live(q)' # {},
           NEW i \in Live(q), Newest(i, q)
    PROVE  \E j \in Live(q)' : Newest(j, q)' /\ ledger'[j] = ledger[i]
<1>1. PICK k \in 1 .. Len(ledger) + 1 : Closed(k, r, ledger')
  BY RecordCloses
<1> DEFINE n == Len(ledger')
           m(j) == IF j < k THEN j ELSE j + 1
<1>2. /\ DOMAIN ledger = 1 .. Len(ledger) /\ Len(ledger) \in Nat
      /\ DOMAIN ledger' = 1 .. n /\ n \in Nat /\ ledger'[n] = r
      /\ n = IF k <= Len(ledger) THEN Len(ledger) ELSE Len(ledger) + 1
  BY <1>1 DEF Closed, TypeOK
<1>3. ASSUME NEW j \in Live(q)'
      PROVE  j \in 1 .. n - 1 /\ m(j) \in Live(q) /\ m(j) # k /\ m(j) <= i
  <2>1. j \in 1 .. n /\ ledger'[j].path = q /\ ~ledger'[j].ours
    BY <1>2 DEF Live
  <2>2. j \in 1 .. n - 1  BY <1>2, <2>1
  <2>3. m(j) \in 1 .. Len(ledger) /\ m(j) # k  BY <1>1, <1>2, <2>2
  <2>4. ledger'[j] = ledger[m(j)]  BY <1>1, <2>2 DEF Closed
  <2>5. m(j) \in Live(q)  BY <1>2, <2>1, <2>3, <2>4 DEF Live
  <2> QED  BY <2>2, <2>3, <2>5 DEF Newest
<1>4. i \in 1 .. Len(ledger) /\ ledger[i].path = q /\ ~ledger[i].ours
  BY <1>2 DEF Live
<1>5. i # k
  <2> SUFFICES ASSUME i = k PROVE FALSE  OBVIOUS
  <2>1. k \notin SameKey(r)  BY <1>4 DEF SameKey
  <2>2. k = 1  BY <1>1, <1>2, <1>4, <2>1 DEF Closed
  <2>3. PICK j \in Live(q)' : TRUE  OBVIOUS
  <2>4. j \in 1 .. n - 1 /\ m(j) # k /\ m(j) <= 1  BY <1>3, <2>2, <2>3
  <2> QED  BY <2>2, <2>4, <1>2
<1> DEFINE s == IF i < k THEN i ELSE i - 1
<1>6. s \in 1 .. n - 1 /\ m(s) = i  BY <1>1, <1>2, <1>4, <1>5
<1>7. ledger'[s] = ledger[i]  BY <1>1, <1>6 DEF Closed
<1>8. s \in Live(q)'
  <2>1. s \in DOMAIN ledger'  BY <1>2, <1>6
  <2> HIDE DEF s
  <2> QED  BY <2>1, <1>4, <1>7 DEF Live
<1>9. \A j \in Live(q)' : j <= s
  <2> SUFFICES ASSUME NEW j \in Live(q)' PROVE j <= s  OBVIOUS
  <2>1. j \in 1 .. n - 1 /\ m(j) # k /\ m(j) <= i  BY <1>3
  <2> QED  BY <2>1, <1>1, <1>2, <1>4, <1>5
<1> HIDE DEF s
<1> QED  BY <1>7, <1>8, <1>9 DEF Newest

(* With one spelling per file, only a foreign write makes the newest record *)
(* of a path differ from the file.                                          *)
LEMMA FreshNext ==
    OneSpelling /\ TypeOK /\ Current /\ Fresh /\ [Next]_vars => Fresh'
<1> SUFFICES ASSUME OneSpelling, TypeOK, Current, Fresh, [Next]_vars
             PROVE  Fresh'
  OBVIOUS
<1>0. /\ \A p \in Paths : FileOf[p] \in Names
      /\ DOMAIN foreign = Paths
      /\ reading # NoRead => reading.path \in Paths
  BY ConstantsAssumption DEF TypeOK
<1>1. ASSUME NEW f \in Names, ForeignWrite(f) PROVE Fresh'
  <2>1. /\ answer' = NoAnswer /\ ledger' = ledger
        /\ foreign' = [p \in Paths |-> foreign[p] \/ FileOf[p] = f]
        /\ reading' = IF reading # NoRead /\ FileOf[reading.path] = f
                      THEN [reading EXCEPT !.raced = TRUE] ELSE reading
        /\ \A g \in Names \ {f} : disk'[g] = disk[g]
    BY <1>1 DEF ForeignWrite, Put, TypeOK
  <2>2. ASSUME reading' # NoRead, reading'.raced
        PROVE  foreign'[reading'.path]
    <3>1. reading # NoRead  BY <2>1, <2>2
    <3>2. CASE FileOf[reading.path] = f
      <4>1. reading'.path = reading.path
        BY <2>1, <3>1, <3>2 DEF TypeOK
      <4> QED  BY <2>1, <3>1, <3>2, <4>1, <1>0
    <3>3. CASE FileOf[reading.path] # f
      BY <2>1, <2>2, <3>1, <3>3, <1>0 DEF Fresh
    <3> QED  BY <3>2, <3>3
  <2>3. ASSUME NEW p \in Paths, ~foreign'[p], Live(p)' # {}
        PROVE  \E i \in Live(p)' : /\ Newest(i, p)'
                                   /\ ledger'[i].id = NewIdentity(FileOf[p])
    <3>1. ~foreign[p] /\ FileOf[p] # f  BY <2>1, <2>3
    <3>2. disk'[FileOf[p]] = disk[FileOf[p]]  BY <2>1, <3>1, <1>0
    <3>3. Live(p)' = Live(p)  BY <2>1 DEF Live
    <3>4. PICK i \in Live(p) : Newest(i, p) /\ ledger[i].id = Identity(FileOf[p])
      BY <2>3, <3>1, <3>3 DEF Fresh
    <3> QED  BY <2>1, <3>2, <3>3, <3>4 DEF Newest, Identity, NewIdentity
  <2> QED
    BY <2>1, <2>2, <2>3 DEF Fresh, ChangedIsForeign, NoAnswer, Identity,
                            NewIdentity
<1>2. ASSUME UNCHANGED <<disk, ledger, foreign>>
      PROVE  \A p \in Paths : ~foreign'[p] /\ Live(p)' # {} =>
               \E i \in Live(p)' : /\ Newest(i, p)'
                                   /\ ledger'[i].id = Identity(FileOf[p])'
  BY <1>2 DEF Fresh, Live, Newest, Identity
<1>3. ASSUME NEW p \in Paths, NEW w \in Windows, ReadStats(p, w) PROVE Fresh'
  BY <1>2, <1>3 DEF ReadStats, histories, Fresh, ChangedIsForeign, NoAnswer
<1>4. CASE ReadFails \/ ReadShowsNothing
  BY <1>2, <1>4 DEF ReadFails, ReadShowsNothing, histories, Fresh,
                    ChangedIsForeign, NoAnswer
<1>5. CASE ReadIsNoted
  <2> DEFINE r == ReadingOf(Bytes)
  <2>1. /\ r \in Records /\ r.path = reading.path
        /\ r.id = reading.id /\ ~r.ours
        /\ \/ Verdict(r) = "REPEAT" /\ ledger' = ledger
           \/ Verdict(r) # "REPEAT" /\ ledger' = Record(r)
    BY <1>5, NotedLedger, Zenon
  <2>2. /\ reading # NoRead /\ reading' = NoRead /\ disk' = disk
        /\ foreign' = IF Verdict(r) = "REPEAT" THEN foreign
                      ELSE [foreign EXCEPT ![r.path] = reading.raced]
    BY <1>5 DEF ReadIsNoted, Noted
  <2>3. answer'.verdict = Verdict(r) /\ answer'.foreign = foreign[r.path]
    BY <1>5, NotedAnswer, Zenon
  <2>4. r.path \in Paths  BY <2>1, <2>2, <1>0
  <2> HIDE DEF r
  <2>5. ChangedIsForeign'
    <3> SUFFICES ASSUME Verdict(r) = "CHANGED", ~foreign[r.path] PROVE FALSE
      BY <2>3 DEF ChangedIsForeign
    <3>1. Live(r.path) # {} /\ ~SameFile(r)  BY DEF Verdict
    <3>2. PICK i \in Live(r.path) : ledger[i].id = Identity(FileOf[r.path])
      BY <2>4, <3>1 DEF Fresh
    <3>3. ~reading.raced  BY <2>1, <2>2 DEF Fresh
    <3>4. r.id = Identity(FileOf[r.path])
      BY <2>1, <2>2, <3>3 DEF Current
    <3> QED  BY <3>1, <3>2, <3>4 DEF SameFile
  <2>6. CASE Verdict(r) = "REPEAT"
    BY <1>2, <2>1, <2>2, <2>5, <2>6 DEF Fresh
  <2>7. CASE Verdict(r) # "REPEAT"
    <3>1. ledger' = Record(r) /\ foreign' = [foreign EXCEPT ![r.path] = reading.raced]
      BY <2>1, <2>2, <2>7
    <3>2. ASSUME NEW p \in Paths, ~foreign'[p], Live(p)' # {}
          PROVE  \E i \in Live(p)' : /\ Newest(i, p)'
                                     /\ ledger'[i].id = Identity(FileOf[p])'
      <4>1. CASE p = r.path
        <5>1. ~reading.raced  BY <3>1, <3>2, <4>1, <1>0
        <5>2. r.id = Identity(FileOf[p])'
          BY <2>1, <2>2, <4>1, <5>1 DEF Current, Identity
        <5>3. PICK k \in 1 .. Len(ledger) + 1 : Closed(k, r, ledger')
          BY <2>1, <3>1, RecordCloses
        <5> DEFINE n == Len(ledger')
        <5>4. /\ DOMAIN ledger' = 1 .. n /\ n \in DOMAIN ledger'
              /\ ledger'[n] = r
          BY <5>3 DEF Closed, TypeOK
        <5>5. n \in Live(p)'  BY <5>4, <2>1, <4>1 DEF Live
        <5>6. \A j \in Live(p)' : j <= n  BY <5>4 DEF Live
        <5> HIDE DEF n
        <5> QED  BY <5>2, <5>4, <5>5, <5>6 DEF Newest
      <4>2. CASE p # r.path
        <5>1. ~foreign[p]  BY <3>1, <3>2, <4>2, <1>0
        <5>2. Live(p) # {}
          <6>1. PICK j \in Live(p)' : TRUE  BY <3>2
          <6>2. ledger'[j] = r \/ \E i \in DOMAIN ledger : ledger'[j] = ledger[i]
            BY <2>1, <3>1, RecordKeeps DEF Live
          <6> QED  BY <6>1, <6>2, <4>2 DEF Live
        <5>3. PICK i \in Live(p) :
                Newest(i, p) /\ ledger[i].id = Identity(FileOf[p])
          BY <5>1, <5>2 DEF Fresh
        <5>4. \E j \in Live(p)' : Newest(j, p)' /\ ledger'[j] = ledger[i]
          BY <2>1, <3>1, <3>2, <4>2, <5>3, RecordKeepsNewest
        <5> QED  BY <5>3, <5>4, <2>2 DEF Identity
      <4> QED  BY <4>1, <4>2
    <3> QED  BY <2>2, <2>5, <3>2 DEF Fresh
  <2> QED  BY <2>6, <2>7
<1>6. ASSUME NEW p \in Paths, ToolWrites(p) PROVE Fresh'
  <2>1. /\ answer' = NoAnswer /\ ledger' = Written(p) /\ reading' = NoRead
        /\ foreign' = foreign
    BY <1>6 DEF ToolWrites
  <2>2. \A g \in Names \ {FileOf[p]} : disk'[g] = disk[g]
    BY <1>6 DEF ToolWrites, Put, TypeOK
  <2>3. ASSUME NEW q \in Paths, ~foreign'[q], Live(q)' # {}
        PROVE  \E i \in Live(q)' : /\ Newest(i, q)'
                                   /\ ledger'[i].id = Identity(FileOf[q])'
    <3>1. Live(q)' = IF q = p THEN {} ELSE Live(q)
      BY <2>1, WrittenShape DEF Live
    <3>2. q # p /\ FileOf[q] # FileOf[p] /\ Live(q)' = Live(q)
      BY <2>3, <3>1 DEF OneSpelling
    <3>3. PICK i \in Live(q) : Newest(i, q) /\ ledger[i].id = Identity(FileOf[q])
      BY <2>1, <2>3, <3>2 DEF Fresh
    <3>4. disk'[FileOf[q]] = disk[FileOf[q]]  BY <2>2, <3>2, <1>0
    <3>5. ledger'[i].id = ledger[i].id  BY <2>1, <3>3, WrittenShape DEF Live
    <3> QED  BY <3>2, <3>3, <3>4, <3>5 DEF Newest, Identity
  <2> QED  BY <2>1, <2>3 DEF Fresh, ChangedIsForeign, NoAnswer
<1>7. CASE UNCHANGED vars
  BY <1>2, <1>7 DEF vars, histories, Fresh, ChangedIsForeign
<1> QED  BY <1>1, <1>3, <1>4, <1>5, <1>6, <1>7 DEF Next

(* ChangedIsForeign: when every file is called by one spelling, a change is *)
(* reported only if another process wrote the file.                         *)
THEOREM ChangesAreForeign ==
    ASSUME OneSpelling PROVE Spec => []ChangedIsForeign
<1>1. Init => Current /\ Fresh
  <2> SUFFICES ASSUME Init PROVE Current /\ Fresh  OBVIOUS
  <2>1. reading = NoRead /\ answer = NoAnswer /\ DOMAIN ledger = {}
    BY DEF Init
  <2> QED  BY <2>1 DEF Current, Fresh, Live, ChangedIsForeign, NoAnswer
<1>2. Fresh => ChangedIsForeign  BY DEF Fresh
<1>3. TypeOK /\ Current /\ Fresh /\ [Next]_vars => Fresh'
  BY FreshNext
<1> QED  BY <1>1, <1>2, <1>3, CurrentNext, TypeCorrect, PTL DEF Spec

-----------------------------------------------------------------------------
(* Links. *)

Directories == [FileNames -> DirEntries]

(* One link followed.                                                       *)
Next1(d, m) == IF d[m].kind = "link" THEN d[m].to ELSE m

(* What an entry holds.                                                     *)
LEMMA EntryFacts ==
    ASSUME NEW x \in DirEntries
    PROVE  /\ x.kind \in {"absent", "dir", "file", "link"} /\ x.text \in Seq(STRING)
           /\ x.perm \in Perms
           /\ x.kind = "link" => x.to \in FileNames
  <1>1. CASE x \in Links
    <2>1. PICK m \in FileNames : x = Entry("link", <<>>, "rw", m)
      BY <1>1 DEF Links
    <2> QED
      BY <2>1 DEF Entry, Perms
  <1>2. CASE x \in [kind : {"absent", "dir", "file"}, text : Seq(STRING), perm : Perms, to : {""}]
    BY <1>2
  <1> QED
    BY <1>1, <1>2 DEF DirEntries

(* The way through the links, name by name.                                 *)
LEMMA WayIs ==
    ASSUME NEW d \in Directories, NEW n \in FileNames
    PROVE  /\ Way(d, n) \in [0 .. KernelLinks -> FileNames]
           /\ Way(d, n)[0] = n
           /\ \A k \in 1 .. KernelLinks : Way(d, n)[k] = Next1(d, Way(d, n)[k - 1])
  <1> DEFINE K == KernelLinks
             G == [w \in (1 .. K) \X FileNames |-> Next1(d, w[2])]
             Steps(f) == f = [k \in 0 .. K |->
                                IF k = 0 THEN n
                                ELSE IF d[f[k - 1]].kind = "link" THEN d[f[k - 1]].to
                                     ELSE f[k - 1]]
  <1>1. K \in Nat
    BY FilesAssumption
  <1>2. \A m \in FileNames : Next1(d, m) \in FileNames
    BY EntryFacts DEF Next1, Directories
  <1> HIDE DEF K
  <1>3. G \in [(1 .. K) \X FileNames -> FileNames]
    BY <1>2
  <1>4. PICK f \in [0 .. K -> FileNames] :
           f[0] = n /\ \A k \in 1 .. K : f[k] = G[<<k, f[k - 1]>>]
    <2> HIDE DEF G
    <2>1. \E f : Iterates(f, K, FileNames, n, G)
      BY <1>1, <1>3, Recursion
    <2> QED
      BY <2>1 DEF Iterates
  <1>5. \A k \in 1 .. K : f[k] = Next1(d, f[k - 1])
    <2> TAKE k \in 1 .. K
    <2>1. k - 1 \in 0 .. K
      BY <1>1
    <2>2. <<k, f[k - 1]>> \in (1 .. K) \X FileNames
      BY <1>4, <2>1
    <2> QED
      BY <1>4, <2>2
  <1>6. Steps(f)
    <2>1. ASSUME NEW k \in 0 .. K
          PROVE  f[k] = IF k = 0 THEN n
                        ELSE IF d[f[k - 1]].kind = "link" THEN d[f[k - 1]].to ELSE f[k - 1]
      BY <1>1, <1>4, <1>5 DEF Next1
    <2>2. f = [k \in 0 .. K |-> f[k]]
      BY <1>4
    <2> QED
      BY <2>1, <2>2
  <1>7. Steps(Way(d, n))
    <2>1. Way(d, n) = CHOOSE g : Steps(g)
      BY DEF Way, K
    <2> HIDE DEF Steps
    <2> QED
      BY <1>6, <2>1
  <1> DEFINE g == Way(d, n)
  <1> HIDE DEF g
  <1>8. Steps(g)
    BY <1>7 DEF g
  <1>9. g[0] = n /\ \A k \in 1 .. K : g[k] = Next1(d, g[k - 1])
    <2>1. \A k \in 0 .. K :
             g[k] = IF k = 0 THEN n
                    ELSE IF d[g[k - 1]].kind = "link" THEN d[g[k - 1]].to ELSE g[k - 1]
      BY <1>8
    <2>2. 0 \in 0 .. K /\ \A k \in 1 .. K : k \in 0 .. K /\ k # 0
      BY <1>1
    <2> QED
      BY <2>1, <2>2 DEF Next1
  <1> DEFINE S == {k \in 0 .. K : g[k] \in FileNames}
  <1>10. \A k \in 0 .. K : g[k] \in FileNames
    <2>1. 0 \in S
      BY <1>1, <1>9
    <2>2. \A k \in 1 .. K : k - 1 \in S => k \in S
      BY <1>2, <1>9
    <2> HIDE DEF S
    <2>3. \A k \in 0 .. K : k \in S
      BY <1>1, <2>1, <2>2, UpTo
    <2> QED
      BY <2>3 DEF S
  <1>11. g \in [0 .. K -> FileNames]
    <2>1. g = [k \in 0 .. K |-> g[k]]
      BY <1>8
    <2> QED
      BY <1>10, <2>1
  <1> QED
    BY <1>9, <1>11 DEF g, K

(* A name that is no link is where the way ends.                            *)
LEMMA WayEnds ==
    ASSUME NEW d \in Directories, NEW n \in FileNames, NEW j \in 0 .. KernelLinks,
           d[Way(d, n)[j]].kind # "link"
    PROVE  Follow(d, n) = Way(d, n)[j]
  <1> DEFINE K == KernelLinks
             g == Way(d, n)
             S == {i \in 0 .. K - j : g[j + i] = g[j]}
  <1>1. K \in Nat /\ j \in 0 .. K
    BY FilesAssumption
  <1>2. \A k \in 1 .. K : g[k] = Next1(d, g[k - 1])
    BY WayIs
  <1>3. d[g[j]].kind # "link"
    OBVIOUS
  <1> HIDE DEF K, g
  <1>4. 0 \in S /\ K - j \in Nat
    BY <1>1
  <1>5. \A i \in 1 .. K - j : i - 1 \in S => i \in S
    <2> SUFFICES ASSUME NEW i \in 1 .. K - j, i - 1 \in S PROVE i \in S
      OBVIOUS
    <2>1. j + i \in 1 .. K /\ (j + i) - 1 = j + (i - 1) /\ i \in 0 .. K - j
      BY <1>1
    <2>2. g[j + i] = Next1(d, g[j + (i - 1)])
      BY <1>2, <2>1
    <2>3. g[j + (i - 1)] = g[j]
      OBVIOUS
    <2> QED
      BY <1>3, <2>1, <2>2, <2>3 DEF Next1
  <1>6. K - j \in S
    <2> HIDE DEF S
    <2>1. K - j \in 0 .. K - j
      BY <1>4
    <2> QED
      BY <1>4, <1>5, <2>1, UpTo
  <1>7. j + (K - j) = K
    BY <1>1
  <1> QED
    BY <1>6, <1>7 DEF Follow, g, K

(* A name that is no link leads to itself, and what the program resolved is *)
(* where the kernel gets to.                                                *)
LEMMA Resolved ==
    ASSUME NEW d \in Directories, NEW n \in FileNames
    PROVE  /\ Follow(d, n) \in FileNames
           /\ Way(d, n)[LinkMax] \in FileNames
           /\ d[n].kind # "link" => Follow(d, n) = n
           /\ d[Way(d, n)[LinkMax]].kind # "link" => Follow(d, n) = Way(d, n)[LinkMax]
  <1>1. /\ 0 \in 0 .. KernelLinks /\ LinkMax \in 0 .. KernelLinks
        /\ KernelLinks \in 0 .. KernelLinks
    BY FilesAssumption
  <1>2. Way(d, n)[0] = n /\ Way(d, n) \in [0 .. KernelLinks -> FileNames]
    BY WayIs
  <1>3. d[n].kind # "link" => Follow(d, n) = n
    BY <1>1, <1>2, WayEnds
  <1>4. d[Way(d, n)[LinkMax]].kind # "link" => Follow(d, n) = Way(d, n)[LinkMax]
    BY <1>1, WayEnds
  <1> QED
    BY <1>1, <1>2, <1>3, <1>4 DEF Follow
-----------------------------------------------------------------------------
(* Edits. *)

(* needle stands in hay behind i letters.                                   *)
Stands(hay, needle, i) == SubSeq(hay, i + 1, i + Len(needle)) = needle

(* The first place at or after `from`, or none.                             *)
LEMMA FindLiteralIs ==
    ASSUME NEW hay \in Seq(STRING), NEW needle \in Seq(STRING), NEW from \in Nat
    PROVE  LET r == FindLiteral(hay, needle, from)
           IN \/ /\ r = -1
                 /\ needle # <<>> =>
                      \A i \in from .. Len(hay) - Len(needle) : ~Stands(hay, needle, i)
              \/ /\ needle # <<>> /\ r \in from .. Len(hay) - Len(needle)
                 /\ Stands(hay, needle, r)
                 /\ \A i \in from .. r - 1 : ~Stands(hay, needle, i)
  <1> DEFINE at == {i \in from .. Len(hay) - Len(needle) : Stands(hay, needle, i)}
             r == FindLiteral(hay, needle, from)
  <1>1. Len(hay) \in Nat /\ Len(needle) \in Nat /\ (needle # <<>> => Len(needle) > 0)
    OBVIOUS
  <1>2. r = IF needle = <<>> \/ from >= Len(hay) \/ at = {} THEN -1
            ELSE CHOOSE i \in at : \A j \in at : i <= j
    BY DEF FindLiteral, Stands
  <1>3. CASE needle = <<>> \/ at = {}
    <2>1. r = -1
      BY <1>2, <1>3
    <2> QED
      BY <1>3, <2>1
  <1>4. CASE from >= Len(hay) /\ needle # <<>>
    <2>1. r = -1
      BY <1>2, <1>4
    <2>2. from .. Len(hay) - Len(needle) = {}
      BY <1>1, <1>4
    <2> QED
      BY <2>1, <2>2
  <1>5. CASE needle # <<>> /\ at # {} /\ ~(from >= Len(hay))
    <2>1. at \subseteq Nat
      BY <1>1
    <2>2. \A i \in at : i \in from .. Len(hay) - Len(needle) /\ Stands(hay, needle, i)
      OBVIOUS
    <2>3. \A i \in from .. Len(hay) - Len(needle) : i \notin at => ~Stands(hay, needle, i)
      OBVIOUS
    <2>4. r = CHOOSE i \in at : \A j \in at : i <= j
      BY <1>2, <1>5
    <2> HIDE DEF at, r
    <2>5. \E i \in at : \A j \in at : i <= j
      BY <1>5, <2>1, LeastNatural
    <2>6. r \in at /\ \A j \in at : r <= j
      BY <2>4, <2>5
    <2>7. r \in from .. Len(hay) - Len(needle) /\ Stands(hay, needle, r)
      BY <2>2, <2>6
    <2>8. ASSUME NEW i \in from .. r - 1 PROVE ~Stands(hay, needle, i)
      <3>1. i \in from .. Len(hay) - Len(needle) /\ i < r /\ i \in Int /\ r \in Int
        BY <1>1, <2>7
      <3>2. i \notin at
        BY <2>6, <3>1
      <3> QED
        BY <2>3, <3>1, <3>2
    <2> QED
      BY <1>5, <2>7, <2>8 DEF r
  <1> QED
    BY <1>3, <1>4, <1>5

(* Where the k-th hit ends.                                                 *)
HitEnd(r, needle, k) == IF k = 0 THEN 0 ELSE r[k] + Len(needle)

(* r is hits one behind the other, with none between them, at most n.       *)
Found(r, hay, needle, n) ==
    /\ r \in Seq(Nat) /\ Len(r) <= n
    /\ r # <<>> => needle # <<>>
    /\ \A k \in 1 .. Len(r) :
          /\ r[k] \in HitEnd(r, needle, k - 1) .. Len(hay) - Len(needle)
          /\ Stands(hay, needle, r[k])
          /\ \A i \in HitEnd(r, needle, k - 1) .. r[k] - 1 : ~Stands(hay, needle, i)
    /\ HitEnd(r, needle, Len(r)) \in Len(r) .. Len(hay)
    /\ Len(r) < n => FindLiteral(hay, needle, HitEnd(r, needle, Len(r))) = -1

(* The next one.                                                            *)
NextHits(r, hay, needle) ==
    LET behind == IF r = <<>> THEN 0 ELSE r[Len(r)] + Len(needle)
        i == FindLiteral(hay, needle, behind)
    IN IF i < 0 THEN r ELSE Append(r, i)

(* A further search finds the next hit, or that there is none.              *)
LEMMA FoundNext ==
    ASSUME NEW hay \in Seq(STRING), NEW needle \in Seq(STRING), NEW n \in Nat, NEW r,
           Found(r, hay, needle, n)
    PROVE  Found(NextHits(r, hay, needle), hay, needle, n + 1)
  <1> DEFINE end == HitEnd(r, needle, Len(r))
             i == FindLiteral(hay, needle, end)
             s == Append(r, i)
  <1>1. /\ r \in Seq(Nat) /\ Len(r) \in Nat /\ Len(r) <= n /\ end \in Nat
        /\ end \in Len(r) .. Len(hay) /\ Len(hay) \in Nat /\ Len(needle) \in Nat
        /\ needle # <<>> => Len(needle) > 0
    BY DEF Found
  <1>2. NextHits(r, hay, needle) = IF i < 0 THEN r ELSE s
    BY <1>1 DEF NextHits, HitEnd
  <1>3. \/ i = -1
        \/ /\ needle # <<>> /\ i \in end .. Len(hay) - Len(needle)
           /\ Stands(hay, needle, i)
           /\ \A j \in end .. i - 1 : ~Stands(hay, needle, j)
    <2> HIDE DEF end
    <2> QED
      BY <1>1, FindLiteralIs
  <1>4. CASE i = -1
    <2>1. NextHits(r, hay, needle) = r
      BY <1>2, <1>4
    <2>2. Len(r) <= n + 1
      BY <1>1
    <2> QED
      BY <1>4, <2>1, <2>2 DEF Found
  <1>5. CASE /\ needle # <<>> /\ i \in end .. Len(hay) - Len(needle)
             /\ Stands(hay, needle, i)
             /\ \A j \in end .. i - 1 : ~Stands(hay, needle, j)
    <2>0. Len(r) = n
      BY <1>1, <1>5 DEF Found
    <2>1. i \in Nat /\ ~(i < 0)
      BY <1>1, <1>5
    <2> HIDE DEF i
    <2>2. /\ s \in Seq(Nat) /\ Len(s) = Len(r) + 1 /\ s # <<>>
          /\ \A k \in 1 .. Len(r) : s[k] = r[k]
          /\ s[Len(r) + 1] = i
      <3>1. /\ s \in Seq(Nat) /\ Len(s) = Len(r) + 1
            /\ \A k \in 1 .. Len(r) : s[k] = r[k]
            /\ s[Len(r) + 1] = i
        BY <1>1, <2>1
      <3> HIDE DEF s
      <3>2. s # <<>>
        BY <1>1, <3>1
      <3> QED
        BY <3>1, <3>2
    <2> HIDE DEF s
    <2>3. \A k \in 0 .. Len(r) : HitEnd(s, needle, k) = HitEnd(r, needle, k)
      BY <1>1, <2>2 DEF HitEnd
    <2>4. HitEnd(s, needle, Len(s)) = i + Len(needle)
      BY <1>1, <2>2 DEF HitEnd
    <2>5. HitEnd(s, needle, Len(s)) \in Len(s) .. Len(hay)
      BY <1>1, <1>5, <2>1, <2>2, <2>4
    <2>6. ASSUME NEW k \in 1 .. Len(s)
          PROVE  /\ s[k] \in HitEnd(s, needle, k - 1) .. Len(hay) - Len(needle)
                 /\ Stands(hay, needle, s[k])
                 /\ \A j \in HitEnd(s, needle, k - 1) .. s[k] - 1 : ~Stands(hay, needle, j)
      <3>1. CASE k \in 1 .. Len(r)
        <4>1. s[k] = r[k] /\ HitEnd(s, needle, k - 1) = HitEnd(r, needle, k - 1)
          <5>1. k - 1 \in 0 .. Len(r)
            BY <1>1, <3>1
          <5> QED
            BY <2>2, <2>3, <3>1, <5>1
        <4> QED
          BY <3>1, <4>1 DEF Found
      <3>2. CASE k = Len(r) + 1
        <4>1. k - 1 = Len(r) /\ Len(r) \in 0 .. Len(r)
          BY <1>1, <3>2
        <4>2. s[k] = i /\ HitEnd(s, needle, k - 1) = end
          BY <2>2, <2>3, <3>2, <4>1
        <4> HIDE DEF end
        <4> QED
          BY <1>5, <4>2
      <3> QED
        BY <1>1, <2>2, <3>1, <3>2
    <2>7. Len(s) = n + 1
      BY <2>0, <2>2
    <2>8. Found(s, hay, needle, n + 1)
      BY <1>1, <1>5, <2>2, <2>5, <2>6, <2>7 DEF Found
    <2> QED
      BY <1>2, <2>1, <2>8
  <1> QED
    BY <1>3, <1>4, <1>5

(* What edit_file finds is every hit, one behind the other.                 *)
AllFound(r, hay, needle) ==
    /\ Found(r, hay, needle, Len(hay))
    /\ needle # <<>> =>
          \A i \in HitEnd(r, needle, Len(r)) .. Len(hay) - Len(needle) :
             ~Stands(hay, needle, i)

(* For every text: what edit_file matches is every place the old text       *)
(* stands at, from the front, each sought behind the end of the one before, *)
(* and no match overlaps another (the counting loop of edit_file).          *)
THEOREM HitsAreAll ==
    ASSUME NEW hay \in Seq(STRING), NEW needle \in Seq(STRING)
    PROVE  AllFound(Hits(hay, needle), hay, needle)
  <1> DEFINE m == Len(hay)
             X == Seq(Nat)
             G == [w \in (1 .. m) \X X |-> NextHits(w[2], hay, needle)]
             Steps(f) == f = [k \in 0 .. m |->
                                IF k = 0 THEN <<>>
                                ELSE LET r == f[k - 1]
                                         behind == IF r = <<>> THEN 0
                                                   ELSE r[Len(r)] + Len(needle)
                                         i == FindLiteral(hay, needle, behind)
                                     IN IF i < 0 THEN r ELSE Append(r, i)]
  <1>1. m \in Nat /\ Len(needle) \in Nat
    OBVIOUS
  <1>2. \A r \in X : NextHits(r, hay, needle) \in X
    <2> SUFFICES ASSUME NEW r \in X PROVE NextHits(r, hay, needle) \in X
      OBVIOUS
    <2> DEFINE behind == IF r = <<>> THEN 0 ELSE r[Len(r)] + Len(needle)
               i == FindLiteral(hay, needle, behind)
    <2>1. behind \in Nat
      <3>1. CASE r = <<>>
        BY <3>1
      <3>2. CASE r # <<>>
        <4>1. Len(r) \in 1 .. Len(r)
          BY <3>2
        <4>2. r[Len(r)] \in Nat
          BY <4>1
        <4> QED
          BY <3>2, <4>2
      <3> QED
        BY <3>1, <3>2
    <2>2. i = -1 \/ i \in behind .. Len(hay) - Len(needle)
      <3> HIDE DEF behind
      <3> QED
        BY <2>1, FindLiteralIs
    <2>3. ~(i < 0) => i \in Nat
      <3> HIDE DEF behind
      <3> QED
        BY <1>1, <2>1, <2>2
    <2>4. NextHits(r, hay, needle) = IF i < 0 THEN r ELSE Append(r, i)
      BY DEF NextHits
    <2> HIDE DEF i
    <2> QED
      BY <2>3, <2>4
  <1> HIDE DEF m
  <1>3. G \in [(1 .. m) \X X -> X]
    <2> HIDE DEF X
    <2> QED
      BY <1>2
  <1>4. PICK f \in [0 .. m -> X] :
           f[0] = <<>> /\ \A k \in 1 .. m : f[k] = G[<<k, f[k - 1]>>]
    <2>1. <<>> \in X
      OBVIOUS
    <2> HIDE DEF G, X
    <2>2. \E f : Iterates(f, m, X, <<>>, G)
      BY <1>1, <1>3, <2>1, Recursion
    <2> QED
      BY <2>2 DEF Iterates
  <1>5. \A k \in 1 .. m : f[k] = NextHits(f[k - 1], hay, needle)
    <2> HIDE DEF X
    <2> TAKE k \in 1 .. m
    <2>1. k - 1 \in 0 .. m
      BY <1>1
    <2>2. <<k, f[k - 1]>> \in (1 .. m) \X X
      BY <1>4, <2>1
    <2> QED
      BY <1>4, <2>2
  <1>6. Steps(f)
    <2>1. ASSUME NEW k \in 0 .. m
          PROVE  f[k] = IF k = 0 THEN <<>> ELSE NextHits(f[k - 1], hay, needle)
      BY <1>1, <1>4, <1>5
    <2>2. f = [k \in 0 .. m |-> f[k]]
      BY <1>4
    <2> QED
      BY <2>1, <2>2 DEF NextHits
  <1>7. PICK g : Steps(g) /\ Hits(hay, needle) = g[m]
    BY <1>6 DEF Hits, m
  <1>8. g[0] = <<>> /\ \A k \in 1 .. m : g[k] = NextHits(g[k - 1], hay, needle)
    <2>1. \A k \in 0 .. m : g[k] = IF k = 0 THEN <<>> ELSE NextHits(g[k - 1], hay, needle)
      BY <1>7 DEF NextHits
    <2>2. 0 \in 0 .. m /\ \A k \in 1 .. m : k \in 0 .. m /\ k # 0
      BY <1>1
    <2> QED
      BY <2>1, <2>2
  <1> DEFINE S == {k \in 0 .. m : Found(g[k], hay, needle, k)}
  <1>9. 0 \in S
    <2>1. Found(<<>>, hay, needle, 0)
      BY <1>1 DEF Found, HitEnd, m
    <2> QED
      BY <1>1, <1>8, <2>1
  <1>10. ASSUME NEW k \in 1 .. m, k - 1 \in S PROVE k \in S
    <2>1. Found(g[k - 1], hay, needle, k - 1) /\ k - 1 \in Nat /\ (k - 1) + 1 = k
      BY <1>1, <1>10
    <2>2. Found(NextHits(g[k - 1], hay, needle), hay, needle, (k - 1) + 1)
      BY <2>1, FoundNext
    <2>3. k \in 0 .. m
      BY <1>1
    <2> QED
      BY <1>8, <2>1, <2>2, <2>3
  <1>11. Found(Hits(hay, needle), hay, needle, m)
    <2>1. m \in 0 .. m /\ \A k \in 1 .. m : k - 1 \in S => k \in S
      BY <1>1, <1>10
    <2> HIDE DEF S
    <2>2. m \in S
      BY <1>1, <1>9, <2>1, UpTo
    <2> QED
      BY <1>7, <2>2 DEF S
  <1> DEFINE h == Hits(hay, needle)
             end == HitEnd(h, needle, Len(h))
  <1>12. h \in Seq(Nat) /\ Len(h) \in Nat /\ Len(h) <= m /\ end \in Len(h) .. m
         /\ (Len(h) < m => FindLiteral(hay, needle, end) = -1)
    BY <1>11 DEF Found, m
  <1> HIDE DEF h, end
  <1>13. FindLiteral(hay, needle, end) = -1
    <2>1. CASE Len(h) < m
      BY <1>12, <2>1
    <2>2. CASE ~(Len(h) < m)
      <3>1. end >= Len(hay)
        BY <1>1, <1>12, <2>2 DEF m
      <3> QED
        BY <3>1 DEF FindLiteral
    <2> QED
      BY <2>1, <2>2
  <1>14. needle # <<>> => \A i \in end .. Len(hay) - Len(needle) : ~Stands(hay, needle, i)
    <2>1. end \in Nat
      BY <1>1, <1>12
    <2>2. ~(-1 \in end .. Len(hay) - Len(needle))
      BY <2>1
    <2> QED
      BY <1>13, <2>1, <2>2, FindLiteralIs
  <1> QED
    BY <1>11, <1>14 DEF AllFound, h, end, m

(* The letters from one place to another.                                   *)
LEMMA PieceIs ==
    ASSUME NEW S, NEW s \in Seq(S), NEW a \in Nat, NEW b \in a .. Len(s)
    PROVE  /\ SubSeq(s, a + 1, b) \in Seq(S)
           /\ Len(SubSeq(s, a + 1, b)) = b - a
           /\ \A i \in 1 .. b - a : SubSeq(s, a + 1, b)[i] = s[a + i]
  <1>1. a + 1 \in Int /\ b \in Int /\ \A i \in a + 1 .. b : s[i] \in S
    <2>1. \A i \in a + 1 .. b : i \in 1 .. Len(s)
      OBVIOUS
    <2> QED
      BY <2>1
  <1>2. /\ SubSeq(s, a + 1, b) \in Seq(S)
        /\ Len(SubSeq(s, a + 1, b)) = IF a + 1 <= b THEN b - (a + 1) + 1 ELSE 0
        /\ \A i \in 1 .. b - (a + 1) + 1 : SubSeq(s, a + 1, b)[i] = s[(a + 1) + i - 1]
    BY <1>1, SubSeqProperties
  <1>3. /\ (IF a + 1 <= b THEN b - (a + 1) + 1 ELSE 0) = b - a
        /\ b - (a + 1) + 1 = b - a
        /\ \A i \in 1 .. b - a : (a + 1) + i - 1 = a + i
    BY <1>1
  <1> QED
    BY <1>2, <1>3

(* How far k edits have moved what is behind them.                          *)
Shift(old, new, k) == k * (Len(new) - Len(old))

(* Each edit moves what is behind it by the same number of letters.         *)
LEMMA ShiftIs ==
    ASSUME NEW old \in Seq(STRING), NEW new \in Seq(STRING)
    PROVE  /\ Shift(old, new, 0) = 0
           /\ \A k \in Nat : Shift(old, new, k) \in Int
           /\ \A k \in Nat : Shift(old, new, k + 1) = Shift(old, new, k) + (Len(new) - Len(old))
           /\ \A k \in Nat : Shift(old, new, k) <= k * (IF Len(new) > Len(old)
                                                   THEN Len(new) - Len(old) ELSE 0)
  <1> DEFINE c == Len(new) - Len(old)
  <1>1. c \in Int /\ Len(new) \in Nat /\ Len(old) \in Nat
    OBVIOUS
  <1>2. (IF Len(new) > Len(old) THEN c ELSE 0) = IF c > 0 THEN c ELSE 0
    <2>1. Len(new) > Len(old) <=> c > 0
      BY <1>1
    <2> HIDE DEF c
    <2> QED
      BY <2>1
  <1> HIDE DEF c
  <1>3. 0 * c = 0 /\ \A k \in Nat : k * c \in Int /\ (k + 1) * c = k * c + c
    BY <1>1
  <1>4. \A k \in Nat : k * c <= k * (IF c > 0 THEN c ELSE 0)
    BY <1>1
  <1> QED
    BY <1>2, <1>3, <1>4 DEF Shift, c

(* o is the first k pieces with the new text behind each: every letter of   *)
(* hay outside the hits has been moved, every hit replaced.                 *)
Spliced(o, hay, old, new, h, k) ==
    /\ o \in Seq(STRING)
    /\ Len(o) = HitEnd(h, old, k) + Shift(old, new, k)
    /\ \A j \in 1 .. k :
          LET from == h[j] + Shift(old, new, j - 1)
          IN /\ from \in 0 .. Len(o) - Len(new)
             /\ HitEnd(h, old, j - 1) + Shift(old, new, j - 1) \in 0 .. from
             /\ \A i \in 1 .. Len(new) : o[from + i] = new[i]
             /\ \A x \in HitEnd(h, old, j - 1) + 1 .. h[j] :
                   o[x + Shift(old, new, j - 1)] = hay[x]

(* The places of a hit.                                                     *)
LEMMA HitBounds ==
    ASSUME NEW hay \in Seq(STRING), NEW old \in Seq(STRING), NEW h,
           Found(h, hay, old, Len(hay)), NEW k \in 1 .. Len(h)
    PROVE  /\ HitEnd(h, old, k - 1) \in Nat
           /\ h[k] \in HitEnd(h, old, k - 1) .. Len(hay)
           /\ h[k] + Len(old) = HitEnd(h, old, k)
  <1> DEFINE a == HitEnd(h, old, k - 1)
             b == h[k]
  <1>1. /\ k \in Nat /\ k # 0 /\ Len(h) \in Nat /\ Len(hay) \in Nat /\ Len(old) \in Nat
        /\ h \in Seq(Nat)
    BY DEF Found
  <1>2. b \in a .. Len(hay) - Len(old)
    BY DEF Found
  <1>3. a \in Nat
    <2>1. CASE k = 1
      BY <2>1 DEF HitEnd
    <2>2. CASE k # 1
      <3>1. k - 1 \in 1 .. Len(h) /\ k - 1 # 0
        BY <1>1, <2>2
      <3>2. h[k - 1] \in Nat
        BY <1>1, <3>1
      <3> QED
        BY <1>1, <3>1, <3>2 DEF HitEnd
    <2> QED
      BY <2>1, <2>2
  <1>4. b + Len(old) = HitEnd(h, old, k)
    BY <1>1 DEF HitEnd
  <1> HIDE DEF a, b
  <1>5. b \in a .. Len(hay)
    BY <1>1, <1>2, <1>3
  <1> QED
    BY <1>3, <1>4, <1>5 DEF a, b

(* One more piece.                                                          *)
LEMMA SplicedNext ==
    ASSUME NEW hay \in Seq(STRING), NEW old \in Seq(STRING), NEW new \in Seq(STRING),
           NEW h, Found(h, hay, old, Len(hay)), NEW k \in 1 .. Len(h), NEW o,
           Spliced(o, hay, old, new, h, k - 1)
    PROVE  Spliced(o \o SubSeq(hay, HitEnd(h, old, k - 1) + 1, h[k]) \o new, hay, old, new, h, k)
  <1> DEFINE a == HitEnd(h, old, k - 1)
             b == h[k]
             piece == SubSeq(hay, a + 1, b)
             p == o \o piece
             q == p \o new
             sh == Shift(old, new, k - 1)
  <1>1. /\ k \in Nat /\ k - 1 \in Nat /\ Len(h) \in Nat /\ Len(hay) \in Nat
        /\ Len(new) \in Nat /\ Len(old) \in Nat /\ o \in Seq(STRING) /\ Len(o) \in Nat
        /\ new \in Seq(STRING) /\ h \in Seq(Nat) /\ b \in Nat
    BY DEF Found, Spliced
  <1>2. a \in Nat /\ b \in a .. Len(hay) /\ b + Len(old) = HitEnd(h, old, k)
    BY <1>1, HitBounds
  <1>3. /\ sh \in Int /\ Len(o) = a + sh
        /\ Shift(old, new, k) = sh + (Len(new) - Len(old))
    <2>1. (k - 1) + 1 = k
      BY <1>1
    <2>2. Shift(old, new, (k - 1) + 1) = Shift(old, new, k - 1) + (Len(new) - Len(old)) /\ sh \in Int
      BY <1>1, ShiftIs
    <2> QED
      BY <2>1, <2>2 DEF Spliced
  <1> HIDE DEF a, b, sh
  <1>4. /\ piece \in Seq(STRING) /\ Len(piece) = b - a
        /\ \A i \in 1 .. b - a : piece[i] = hay[a + i]
    BY <1>2, PieceIs
  <1> HIDE DEF piece
  <1>5. /\ p \in Seq(STRING) /\ Len(p) = Len(o) + (b - a)
        /\ \A i \in 1 .. Len(o) + (b - a) :
              p[i] = IF i <= Len(o) THEN o[i] ELSE piece[i - Len(o)]
    <2>1. /\ p \in Seq(STRING) /\ Len(p) = Len(o) + Len(piece)
          /\ \A i \in 1 .. Len(o) + Len(piece) :
                p[i] = IF i <= Len(o) THEN o[i] ELSE piece[i - Len(o)]
      <3>1. o \in Seq(STRING) /\ piece \in Seq(STRING)
        BY <1>1, <1>4
      <3> QED
        BY <3>1, ConcatProperties
    <2>2. Len(piece) = b - a
      BY <1>4
    <2> HIDE DEF p
    <2> QED
      BY <2>1, <2>2
  <1> HIDE DEF p
  <1>6. /\ q \in Seq(STRING) /\ Len(q) = Len(p) + Len(new)
        /\ \A i \in 1 .. Len(p) + Len(new) :
              q[i] = IF i <= Len(p) THEN p[i] ELSE new[i - Len(p)]
    BY <1>1, <1>5, ConcatProperties
  <1> HIDE DEF q
  <1>7. /\ Len(q) = HitEnd(h, old, k) + Shift(old, new, k) /\ Len(p) = b + sh
        /\ Len(q) = Len(p) + Len(new) /\ Len(o) = a + sh /\ Len(o) \in Nat
        /\ Len(new) \in Nat /\ a \in Nat /\ b \in Nat /\ a <= b /\ sh \in Int
    <2>1. Len(p) = Len(o) + (b - a) /\ Len(q) = Len(p) + Len(new)
      BY <1>5, <1>6
    <2>2. a \in Nat /\ b \in Nat /\ a <= b
      BY <1>1, <1>2
    <2>3. Len(p) = b + sh
      BY <1>3, <2>1, <2>2
    <2>4. Len(q) = (b + Len(old)) + (sh + (Len(new) - Len(old)))
      BY <1>1, <1>3, <2>1, <2>2, <2>3
    <2> QED
      BY <1>1, <1>2, <1>3, <2>1, <2>2, <2>3, <2>4
  <1>8. ASSUME NEW i \in 1 .. Len(o) PROVE q[i] = o[i]
    <2>1. i \in 1 .. Len(o) + (b - a) /\ i \in 1 .. Len(p) + Len(new) /\ i <= Len(o) /\ i <= Len(p)
      BY <1>7
    <2> QED
      BY <1>5, <1>6, <2>1
  <1>9. ASSUME NEW j \in 1 .. k
        PROVE  LET from == h[j] + Shift(old, new, j - 1)
               IN /\ from \in 0 .. Len(q) - Len(new)
                  /\ HitEnd(h, old, j - 1) + Shift(old, new, j - 1) \in 0 .. from
                  /\ \A i \in 1 .. Len(new) : q[from + i] = new[i]
                  /\ \A x \in HitEnd(h, old, j - 1) + 1 .. h[j] :
                        q[x + Shift(old, new, j - 1)] = hay[x]
    <2>1. CASE j = k
      <3>1. b + sh \in 0 .. Len(q) - Len(new) /\ a + sh \in 0 .. b + sh
        BY <1>7
      <3>2. ASSUME NEW i \in 1 .. Len(new) PROVE q[b + sh + i] = new[i]
        <4>1. /\ b + sh + i \in 1 .. Len(p) + Len(new) /\ ~(b + sh + i <= Len(p))
              /\ (b + sh + i) - Len(p) = i
          BY <1>7
        <4> QED
          BY <1>6, <4>1
      <3>3. ASSUME NEW x \in a + 1 .. b PROVE q[x + sh] = hay[x]
        <4>1. /\ x + sh \in 1 .. Len(p) + Len(new) /\ x + sh <= Len(p)
              /\ x + sh \in 1 .. Len(o) + (b - a) /\ ~(x + sh <= Len(o))
              /\ (x + sh) - Len(o) = x - a /\ x - a \in 1 .. b - a /\ a + (x - a) = x
          BY <1>7
        <4> QED
          BY <1>4, <1>5, <1>6, <4>1
      <3> QED
        BY <2>1, <3>1, <3>2, <3>3 DEF a, b, sh
    <2>2. CASE j # k
      <3> DEFINE from == h[j] + Shift(old, new, j - 1)
                 start == HitEnd(h, old, j - 1)
                 s == Shift(old, new, j - 1)
      <3>1. j \in 1 .. k - 1 /\ j \in 1 .. Len(h) /\ j - 1 \in Nat
        BY <1>1, <2>2
      <3>2. /\ from \in 0 .. Len(o) - Len(new) /\ start + s \in 0 .. from
            /\ \A i \in 1 .. Len(new) : o[from + i] = new[i]
            /\ \A x \in start + 1 .. h[j] : o[x + s] = hay[x]
        BY <3>1 DEF Spliced
      <3>3. h[j] \in Nat /\ s \in Int /\ start \in Int
        <4>0. h[j] \in Nat
          BY <1>1, <3>1
        <4>1. s \in Int
          <5>1. j - 1 \in Nat
            BY <3>1
          <5> QED
            BY <5>1, ShiftIs
        <4>2. start \in Int
          <5>1. CASE j - 1 = 0
            BY <5>1 DEF HitEnd
          <5>2. CASE j - 1 # 0
            <6>1. j - 1 \in 1 .. Len(h)
              BY <1>1, <3>1, <5>2
            <6>2. h[j - 1] \in Nat
              BY <1>1, <6>1
            <6> QED
              BY <1>1, <5>2, <6>2 DEF HitEnd
          <5> QED
            BY <5>1, <5>2
        <4> QED
          BY <4>0, <4>1, <4>2
      <3>4. from = h[j] + s
        OBVIOUS
      <3> HIDE DEF from, start, s
      <3>5. from \in 0 .. Len(q) - Len(new)
        <4>1. from \in 0 .. Len(o) - Len(new)
          BY <3>2
        <4> QED
          BY <1>7, <4>1
      <3>6. ASSUME NEW i \in 1 .. Len(new) PROVE q[from + i] = new[i]
        <4>1. from + i \in 1 .. Len(o)
          <5>1. from \in 0 .. Len(o) - Len(new)
            BY <3>2
          <5> QED
            BY <1>7, <5>1
        <4> QED
          BY <1>8, <3>2, <4>1
      <3>7. ASSUME NEW x \in start + 1 .. h[j] PROVE q[x + s] = hay[x]
        <4>1. x + s \in 1 .. Len(o)
          <5>1. from \in 0 .. Len(o) - Len(new) /\ start + s \in 0 .. from
            BY <3>2
          <5>2. x \in Int /\ start + 1 <= x /\ x <= h[j]
            BY <3>3
          <5>3. start + s >= 0 /\ h[j] + s <= Len(o)
            BY <1>7, <3>3, <3>4, <5>1
          <5> QED
            BY <1>7, <3>3, <5>2, <5>3
        <4> QED
          BY <1>8, <3>2, <4>1
      <3> QED
        BY <3>2, <3>5, <3>6, <3>7 DEF from, start, s
    <2> QED
      BY <2>1, <2>2
  <1>10. Spliced(q, hay, old, new, h, k)
    BY <1>6, <1>7, <1>9 DEF Spliced
  <1> QED
    BY <1>10 DEF q, p, piece, a, b

(* What an edit makes of a text: every hit is replaced, no other letter is  *)
(* touched, and it fits the room that is reserved for it.                   *)
Replaced(out, hay, old, new, h) ==
    /\ out \in Seq(STRING)
    /\ Len(out) = Len(hay) + Shift(old, new, Len(h))
    /\ \A j \in 1 .. Len(h) :
          /\ \A i \in 1 .. Len(new) : out[h[j] + Shift(old, new, j - 1) + i] = new[i]
          /\ \A x \in HitEnd(h, old, j - 1) + 1 .. h[j] :
                out[x + Shift(old, new, j - 1)] = hay[x]
    /\ \A x \in HitEnd(h, old, Len(h)) + 1 .. Len(hay) :
          out[x + Shift(old, new, Len(h))] = hay[x]

(* The rest of the text behind the last piece.                              *)
LEMMA SplicedEnds ==
    ASSUME NEW hay \in Seq(STRING), NEW old \in Seq(STRING), NEW new \in Seq(STRING),
           NEW h, Found(h, hay, old, Len(hay)), NEW o,
           Spliced(o, hay, old, new, h, Len(h))
    PROVE  Replaced(o \o SubSeq(hay, HitEnd(h, old, Len(h)) + 1, Len(hay)), hay, old, new, h)
  <1> DEFINE n == Len(h)
             a == HitEnd(h, old, n)
             b == Len(hay)
             piece == SubSeq(hay, a + 1, b)
             q == o \o piece
             sh == Shift(old, new, n)
  <1>1. /\ n \in Nat /\ b \in Nat /\ Len(new) \in Nat /\ o \in Seq(STRING) /\ Len(o) \in Nat
        /\ a \in n .. b
    BY DEF Found, Spliced
  <1>2. sh \in Int /\ Len(o) = a + sh
    BY <1>1, ShiftIs DEF Spliced
  <1> HIDE DEF a, b, sh
  <1>3. a \in Nat /\ b \in a .. b /\ a <= b
    BY <1>1
  <1>4. /\ piece \in Seq(STRING) /\ Len(piece) = b - a
        /\ \A i \in 1 .. b - a : piece[i] = hay[a + i]
    BY <1>3, PieceIs DEF b
  <1> HIDE DEF piece
  <1>5. /\ q \in Seq(STRING) /\ Len(q) = Len(o) + Len(piece)
        /\ \A i \in 1 .. Len(o) + Len(piece) :
              q[i] = IF i <= Len(o) THEN o[i] ELSE piece[i - Len(o)]
    BY <1>1, <1>4, ConcatProperties
  <1> HIDE DEF q
  <1>6. Len(piece) = b - a
    BY <1>4
  <1>7. Len(q) = b + sh
    BY <1>1, <1>2, <1>3, <1>5, <1>6
  <1>8. ASSUME NEW i \in 1 .. Len(o) PROVE q[i] = o[i]
    <2>1. i \in 1 .. Len(o) + Len(piece) /\ i <= Len(o)
      BY <1>1, <1>3, <1>6
    <2> QED
      BY <1>5, <2>1
  <1>9. ASSUME NEW x \in a + 1 .. b PROVE q[x + sh] = hay[x]
    <2>1. /\ x + sh \in 1 .. Len(o) + Len(piece) /\ ~(x + sh <= Len(o))
          /\ (x + sh) - Len(o) = x - a /\ x - a \in 1 .. b - a /\ a + (x - a) = x
      BY <1>1, <1>2, <1>3, <1>6
    <2> QED
      BY <1>4, <1>5, <2>1
  <1>10. ASSUME NEW j \in 1 .. n
         PROVE  /\ \A i \in 1 .. Len(new) : q[h[j] + Shift(old, new, j - 1) + i] = new[i]
                /\ \A x \in HitEnd(h, old, j - 1) + 1 .. h[j] :
                      q[x + Shift(old, new, j - 1)] = hay[x]
    <2> DEFINE s == Shift(old, new, j - 1)
               hit == h[j]
               start == HitEnd(h, old, j - 1)
    <2>1. /\ hit + s \in 0 .. Len(o) - Len(new) /\ start + s \in 0 .. hit + s
          /\ \A i \in 1 .. Len(new) : o[hit + s + i] = new[i]
          /\ \A x \in start + 1 .. hit : o[x + s] = hay[x]
      BY DEF Spliced
    <2>2. start \in Nat /\ hit \in Nat
      BY HitBounds
    <2>3. s \in Int
      <3>1. j - 1 \in Nat
        BY <1>1
      <3> QED
        BY <3>1, ShiftIs
    <2> HIDE DEF s, hit, start
    <2>4. hit + s >= 0 /\ hit + s <= Len(o) - Len(new) /\ start + s >= 0
      BY <1>1, <2>1, <2>2, <2>3
    <2>5. ASSUME NEW i \in 1 .. Len(new) PROVE q[hit + s + i] = new[i]
      <3>1. hit + s + i \in 1 .. Len(o)
        BY <1>1, <2>2, <2>3, <2>4
      <3> QED
        BY <1>8, <2>1, <3>1
    <2>6. ASSUME NEW x \in start + 1 .. hit PROVE q[x + s] = hay[x]
      <3>1. x + s \in 1 .. Len(o)
        BY <1>1, <2>2, <2>3, <2>4
      <3> QED
        BY <1>8, <2>1, <3>1
    <2> QED
      BY <2>5, <2>6 DEF s, hit, start
  <1>11. Replaced(q, hay, old, new, h)
    BY <1>5, <1>7, <1>9, <1>10 DEF Replaced, a, b, sh
  <1> QED
    BY <1>11 DEF q, piece, a, b

(* For every text and edit: the new text has the replacement at every hit   *)
(* and every other letter of the old one, in order (the copying loop of     *)
(* edit_file).                                                              *)
THEOREM EditedIs ==
    ASSUME NEW hay \in Seq(STRING), NEW e, e.old \in Seq(STRING), e.new \in Seq(STRING)
    PROVE  Replaced(Edited(hay, e), hay, e.old, e.new, Hits(hay, e.old))
  <1> DEFINE old == e.old
             new == e.new
             h == Hits(hay, old)
             m == Len(h)
             piece(k) == SubSeq(hay, HitEnd(h, old, k - 1) + 1, h[k])
             X == Seq(STRING)
             G == [w \in (1 .. m) \X X |-> w[2] \o piece(w[1]) \o new]
             Steps(f) == f = [k \in 0 .. m |->
                                IF k = 0 THEN <<>> ELSE f[k - 1] \o piece(k) \o new]
  <1>1. old \in X /\ new \in X
    OBVIOUS
  <1>2. Found(h, hay, old, Len(hay))
    BY HitsAreAll DEF AllFound
  <1>3. m \in Nat /\ HitEnd(h, old, m) \in m .. Len(hay)
    BY <1>2 DEF Found
  <1>4. Edited(hay, e) = (CHOOSE f : Steps(f))[m] \o SubSeq(hay, HitEnd(h, old, m) + 1, Len(hay))
    BY DEF Edited, HitEnd
  <1> HIDE DEF h, m, old, new
  <1>5. \A k \in 1 .. m : piece(k) \in X
    <2> TAKE k \in 1 .. m
    <2> DEFINE a == HitEnd(h, old, k - 1)
               b == h[k]
    <2>1. a \in Nat /\ b \in a .. Len(hay)
      BY <1>1, <1>2, HitBounds DEF m
    <2> HIDE DEF a, b
    <2>2. SubSeq(hay, a + 1, b) \in X
      BY <2>1, PieceIs
    <2> QED
      BY <2>2 DEF a, b
  <1> HIDE DEF piece
  <1>6. G \in [(1 .. m) \X X -> X]
    <2>1. ASSUME NEW w \in (1 .. m) \X X PROVE w[2] \o piece(w[1]) \o new \in X
      <3>1. w[1] \in 1 .. m /\ w[2] \in X
        OBVIOUS
      <3>2. piece(w[1]) \in X
        BY <1>5, <3>1
      <3> QED
        BY <1>1, <3>1, <3>2
    <2> HIDE DEF X
    <2> QED
      BY <2>1
  <1>7. PICK f \in [0 .. m -> X] : f[0] = <<>> /\ \A k \in 1 .. m : f[k] = G[<<k, f[k - 1]>>]
    <2>1. <<>> \in X
      OBVIOUS
    <2> HIDE DEF G, X
    <2>2. \E f : Iterates(f, m, X, <<>>, G)
      BY <1>3, <1>6, <2>1, Recursion
    <2> QED
      BY <2>2 DEF Iterates
  <1>8. \A k \in 1 .. m : f[k] = f[k - 1] \o piece(k) \o new
    <2> HIDE DEF X
    <2> TAKE k \in 1 .. m
    <2>1. k - 1 \in 0 .. m
      BY <1>3
    <2>2. <<k, f[k - 1]>> \in (1 .. m) \X X
      BY <1>7, <2>1
    <2> QED
      BY <1>7, <2>2
  <1>9. Steps(f)
    <2>1. ASSUME NEW k \in 0 .. m
          PROVE  f[k] = IF k = 0 THEN <<>> ELSE f[k - 1] \o piece(k) \o new
      <3>1. f[0] = <<>>
        BY <1>7
      <3>2. k = 0 \/ k \in 1 .. m
        BY <1>3
      <3>3. \A i \in 1 .. m : i # 0
        OBVIOUS
      <3> QED
        BY <1>8, <3>1, <3>2, <3>3
    <2>2. f = [k \in 0 .. m |-> f[k]]
      BY <1>7
    <2> QED
      BY <2>1, <2>2
  <1> DEFINE g == CHOOSE f_1 : Steps(f_1)
  <1>10. Steps(g)
    <2> HIDE DEF Steps
    <2> QED
      BY <1>9
  <1> HIDE DEF g
  <1>11. g[0] = <<>> /\ \A k \in 1 .. m : g[k] = g[k - 1] \o piece(k) \o new
    <2>1. \A k \in 0 .. m : g[k] = IF k = 0 THEN <<>> ELSE g[k - 1] \o piece(k) \o new
      BY <1>10
    <2>2. 0 \in 0 .. m /\ \A k \in 1 .. m : k \in 0 .. m /\ k # 0
      BY <1>3
    <2> QED
      BY <2>1, <2>2
  <1> DEFINE S == {k \in 0 .. m : Spliced(g[k], hay, old, new, h, k)}
  <1>12. 0 \in S
    <2>1. Spliced(<<>>, hay, old, new, h, 0)
      <3>1. Shift(old, new, 0) = 0
        BY <1>1, ShiftIs
      <3> QED
        BY <3>1 DEF Spliced, HitEnd
    <2> QED
      BY <1>3, <1>11, <2>1
  <1>13. ASSUME NEW k \in 1 .. m, k - 1 \in S PROVE k \in S
    <2>1. Spliced(g[k - 1], hay, old, new, h, k - 1)
      BY <1>13
    <2>2. Spliced(g[k - 1] \o SubSeq(hay, HitEnd(h, old, k - 1) + 1, h[k]) \o new,
                  hay, old, new, h, k)
      BY <1>1, <1>2, <2>1, SplicedNext DEF m
    <2>3. k \in 0 .. m
      BY <1>3
    <2> QED
      BY <1>11, <2>2, <2>3 DEF piece
  <1>14. Spliced(g[m], hay, old, new, h, m)
    <2>1. m \in 0 .. m /\ \A k \in 1 .. m : k - 1 \in S => k \in S
      BY <1>3, <1>13
    <2> HIDE DEF S
    <2>2. m \in S
      BY <1>3, <1>12, <2>1, UpTo
    <2> QED
      BY <2>2 DEF S
  <1>15. Replaced(g[m] \o SubSeq(hay, HitEnd(h, old, m) + 1, Len(hay)), hay, old, new, h)
    BY <1>1, <1>2, <1>14, SplicedEnds DEF m
  <1> QED
    BY <1>4, <1>15 DEF g, h, old, new

(* For every text and edit: the room edit_file reserves, the old text and   *)
(* the growth of every hit, is enough for the new text.                     *)
THEOREM EditedFits ==
    ASSUME NEW hay \in Seq(STRING), NEW e, e.old \in Seq(STRING), e.new \in Seq(STRING)
    PROVE  Len(Edited(hay, e)) <= Room(hay, e)
  <1> DEFINE old == e.old
             new == e.new
             n == Len(Hits(hay, old))
             c == IF Len(new) > Len(old) THEN Len(new) - Len(old) ELSE 0
  <1>1. Len(Edited(hay, e)) = Len(hay) + Shift(old, new, n)
    BY EditedIs DEF Replaced
  <1>2. n \in Nat
    BY HitsAreAll DEF AllFound, Found
  <1>3. Room(hay, e) = Len(hay) + n * c
    BY DEF Room
  <1>4. Shift(old, new, n) <= n * c /\ Shift(old, new, n) \in Int
    BY <1>2, ShiftIs
  <1>5. c \in Int /\ Len(hay) \in Nat
    BY DEF old, new
  <1> HIDE DEF old, new, n, c
  <1>6. n * c \in Int
    BY <1>2, <1>5
  <1> QED
    BY <1>1, <1>3, <1>4, <1>5, <1>6
-----------------------------------------------------------------------------
(* The write. *)

(* What is meant within k calls is meant within more.                       *)
LEMMA MeantIs ==
    /\ Texts \subseteq Meant[0]
    /\ \A d \in Dirs, n \in FileNames : d[n].text \in Meant[0]
    /\ \A k \in 0 .. MaxCalls : Meant[k] \subseteq Seq(STRING) /\ Texts \subseteq Meant[k]
    /\ \A k \in 1 .. MaxCalls :
          /\ Meant[k - 1] \subseteq Meant[k]
          /\ \A t \in Meant[k - 1], e \in Edits : Edited(t, e) \in Meant[k]
  <1> DEFINE K == MaxCalls
             there == {d[n].text : d \in Dirs, n \in FileNames}
             first == Texts \cup there
             X == SUBSET Seq(STRING)
             more(ts) == ts \cup {Edited(t, e) : t \in ts, e \in Edits}
             G == [w \in (1 .. K) \X X |-> more(w[2])]
             Steps(f) == f = [k \in 0 .. K |-> IF k = 0 THEN first ELSE more(f[k - 1])]
  <1>1. K \in Nat
    BY FilesAssumption
  <1>2. first \in X
    <2>1. Texts \subseteq Seq(STRING)
      BY FilesAssumption
    <2>2. ASSUME NEW d \in Dirs, NEW n \in FileNames PROVE d[n].text \in Seq(STRING)
      <3>1. d[n] \in DirEntries
        BY FilesAssumption
      <3> QED
        BY <3>1, EntryFacts
    <2> QED
      BY <2>1, <2>2
  <1>3. \A ts \in X : more(ts) \in X
    <2> SUFFICES ASSUME NEW ts \in X, NEW t \in ts, NEW e \in Edits
                 PROVE  Edited(t, e) \in Seq(STRING)
      OBVIOUS
    <2>1. e.old \in Seq(STRING) /\ e.new \in Seq(STRING)
      BY FilesAssumption
    <2> QED
      BY <2>1, EditedIs DEF Replaced
  <1>4. Meant = CHOOSE f : Steps(f)
    BY DEF Meant
  <1> HIDE DEF K, first, X
  <1>5. G \in [(1 .. K) \X X -> X]
    <2> HIDE DEF more
    <2> QED
      BY <1>3
  <1> HIDE DEF more
  <1>6. PICK f \in [0 .. K -> X] : f[0] = first /\ \A k \in 1 .. K : f[k] = G[<<k, f[k - 1]>>]
    <2> HIDE DEF G
    <2>1. \E f : Iterates(f, K, X, first, G)
      BY <1>1, <1>2, <1>5, Recursion
    <2> QED
      BY <2>1 DEF Iterates
  <1>7. \A k \in 1 .. K : f[k] = more(f[k - 1])
    <2> TAKE k \in 1 .. K
    <2>1. k - 1 \in 0 .. K
      BY <1>1
    <2>2. <<k, f[k - 1]>> \in (1 .. K) \X X
      BY <1>6, <2>1
    <2> QED
      BY <1>6, <2>2
  <1>8. Steps(f)
    <2>1. ASSUME NEW k \in 0 .. K PROVE f[k] = IF k = 0 THEN first ELSE more(f[k - 1])
      <3>1. f[0] = first
        BY <1>6
      <3>2. k = 0 \/ k \in 1 .. K
        BY <1>1
      <3>3. \A i \in 1 .. K : i # 0
        OBVIOUS
      <3> QED
        BY <1>7, <3>1, <3>2, <3>3
    <2>2. f = [k \in 0 .. K |-> f[k]]
      BY <1>6
    <2> QED
      BY <2>1, <2>2
  <1> DEFINE g == Meant
  <1>9. Steps(g)
    <2> HIDE DEF Steps
    <2> QED
      BY <1>4, <1>8
  <1> HIDE DEF g
  <1>10. g[0] = first /\ \A k \in 1 .. K : g[k] = more(g[k - 1])
    <2>1. \A k \in 0 .. K : g[k] = IF k = 0 THEN first ELSE more(g[k - 1])
      BY <1>9
    <2>2. 0 \in 0 .. K /\ \A k \in 1 .. K : k \in 0 .. K /\ k # 0
      BY <1>1
    <2> QED
      BY <2>1, <2>2
  <1> DEFINE S == {k \in 0 .. K : g[k] \in X /\ Texts \subseteq g[k]}
  <1>11. \A k \in 0 .. K : g[k] \in X /\ Texts \subseteq g[k]
    <2>1. 0 \in S
      <3> HIDE DEF there
      <3>1. Texts \subseteq first
        BY DEF first
      <3>2. 0 \in 0 .. K /\ g[0] \in X /\ Texts \subseteq g[0]
        BY <1>1, <1>2, <1>10, <3>1
      <3> QED
        BY <3>2
    <2>2. \A k \in 1 .. K : k - 1 \in S => k \in S
      <3> SUFFICES ASSUME NEW k \in 1 .. K, k - 1 \in S PROVE k \in S
        OBVIOUS
      <3>1. g[k] = more(g[k - 1]) /\ g[k - 1] \in X /\ Texts \subseteq g[k - 1]
        BY <1>10
      <3>2. k \in 0 .. K
        BY <1>1
      <3> QED
        BY <1>3, <3>1, <3>2 DEF more
    <2> HIDE DEF S
    <2>3. \A k \in 0 .. K : k \in S
      BY <1>1, <2>1, <2>2, UpTo
    <2> QED
      BY <2>3 DEF S
  <1>12. Texts \subseteq g[0] /\ \A d \in Dirs, n \in FileNames : d[n].text \in g[0]
    BY <1>10 DEF first
  <1>13. \A k \in 1 .. K : /\ g[k - 1] \subseteq g[k]
                           /\ \A t \in g[k - 1], e \in Edits : Edited(t, e) \in g[k]
    BY <1>10 DEF more
  <1> QED
    BY <1>11, <1>12, <1>13 DEF g, K, X

(* The stages of a write, and those with a copy of its own.                 *)
Stages == {"resolve", "stat", "open", "write", "rename"}
Copying == call.at \in {"write", "rename"}

CallSet ==
    [at : Stages, path : FileNames, text : Seq(STRING), target : FileNames \cup {""},
     perm : Perms, done : Nat, before : Directories, calm : BOOLEAN]
TempSet == [of : FileNames, pid : Pids, seq : Nat, text : Seq(STRING), perm : Perms]

IdOf(t) == [of |-> t.of, pid |-> t.pid, seq |-> t.seq]

FilesTyped ==
    /\ dir \in Directories
    /\ used \in [calls : 0 .. MaxCalls, foreign : Nat, kills : Nat]
    /\ self \in [pid : Pids, seq : Nat]
    /\ temps \in SUBSET TempSet /\ IsFiniteSet(temps)
    /\ \A t, u \in temps : IdOf(t) = IdOf(u) => t = u

(* A write under way: what it resolved still holds as long as no other      *)
(* program has come between, and its copy has what it wrote so far.         *)
CallSound ==
    /\ call \in CallSet
    /\ call.done <= Len(call.text) /\ call.text \in Meant[used.calls]
    /\ call.calm => dir = call.before
    /\ call.at # "resolve" => call.target \in FileNames
    /\ call.calm /\ call.at # "resolve" =>
          call.target = Follow(dir, call.path) /\ dir[call.target].kind # "link"
    /\ call.calm /\ call.at \notin {"resolve", "stat"} /\ dir[call.target].kind = "file" =>
          dir[call.target].perm = call.perm
    /\ Copying =>
          \E t \in temps : /\ IdOf(t) = Temp /\ t.perm = call.perm
                           /\ t.text = SubSeq(call.text, 1, call.done)
    /\ ~Copying => call.done = 0
    /\ call.at = "rename" => call.done = Len(call.text)

FilesInv ==
    /\ FilesTyped /\ TextsAreWhole /\ RepliesAreTrue /\ CopiesAreCounted
    /\ call # NoCall => CallSound

(* What is known of a write under way.                                      *)
LEMMA CallFacts ==
    ASSUME call \in CallSet
    PROVE  /\ call # NoCall
           /\ call.at \in Stages /\ call.path \in FileNames /\ call.text \in Seq(STRING)
           /\ call.target \in FileNames \cup {""} /\ call.perm \in Perms /\ call.done \in Nat
           /\ call.before \in Directories /\ call.calm \in BOOLEAN
           /\ Len(call.text) \in Nat
  <1>1. NoCall.at \notin Stages
    BY DEF NoCall, Stages
  <1>2. call.at \in Stages
    BY DEF CallSet
  <1>3. call.text \in Seq(STRING)
    BY DEF CallSet
  <1>4. call.calm \in BOOLEAN
    BY Zenon DEF CallSet
  <1>5. call.path \in FileNames /\ call.target \in FileNames \cup {""} /\ call.perm \in Perms
        /\ call.done \in Nat /\ call.before \in Directories
    BY DEF CallSet
  <1>6. call # NoCall
    BY <1>1, <1>2
  <1>7. Len(call.text) \in Nat
    BY <1>3
  <1> QED
    BY <1>2, <1>3, <1>4, <1>5, <1>6, <1>7, Zenon

(* No write is under way without a stage of its own.                        *)
LEMMA IdleIs ==
    ASSUME call = NoCall
    PROVE  ~Copying
  BY DEF NoCall, Copying

(* The copy of the write under way is one.                                  *)
LEMMA MineIs ==
    ASSUME FilesTyped, CallSound, Copying
    PROVE  \E t \in temps : /\ Mine = {t} /\ IdOf(t) = Temp /\ t.perm = call.perm
                            /\ t.text = SubSeq(call.text, 1, call.done)
  <1>1. PICK t \in temps : /\ IdOf(t) = Temp /\ t.perm = call.perm
                           /\ t.text = SubSeq(call.text, 1, call.done)
    BY DEF CallSound
  <1>2. Mine = {u \in temps : IdOf(u) = Temp}
    BY DEF Mine, IdOf
  <1>3. \A u \in temps : IdOf(u) = Temp => u = t
    BY <1>1 DEF FilesTyped
  <1>4. Mine = {t}
    BY <1>1, <1>2, <1>3
  <1> QED
    BY <1>1, <1>4

(* The write goes on, touching neither the directory nor the copies.        *)
LEMMA CallMoves ==
    ASSUME FilesInv, CallSound', Copying' <=> Copying, self' \in [pid : Pids, seq : Nat],
           UNCHANGED <<dir, temps, reply, used>>
    PROVE  FilesInv'
  <1>1. FilesTyped'
    BY DEF FilesInv, FilesTyped
  <1>2. TextsAreWhole'
    BY DEF FilesInv, TextsAreWhole
  <1>3. RepliesAreTrue'
    BY DEF FilesInv, RepliesAreTrue
  <1>4. CopiesAreCounted'
    BY DEF FilesInv, CopiesAreCounted, Copying
  <1> QED
    BY <1>1, <1>2, <1>3, <1>4 DEF FilesInv

(* The write ends without its rename.                                       *)
LEMMA EndsUndone ==
    ASSUME FilesInv, CallSound, NEW outcome \in {"refused", "killed"}, End(outcome),
           dir' = dir, temps' \in SUBSET temps, self' \in [pid : Pids, seq : Nat],
           used' \in [calls : 0 .. MaxCalls, foreign : Nat, kills : Nat],
           used'.calls = used.calls, Cardinality(temps') <= used'.kills
    PROVE  FilesInv'
  <1>1. FilesTyped'
    <2>1. IsFiniteSet(temps')
      BY FS_Subset DEF FilesInv, FilesTyped
    <2> QED
      BY <2>1 DEF FilesInv, FilesTyped
  <1>2. TextsAreWhole'
    BY DEF FilesInv, TextsAreWhole
  <1>3. RepliesAreTrue'
    <2>1. /\ reply'.outcome = outcome /\ reply'.calm = call.calm
          /\ reply'.before = call.before
      BY DEF End
    <2>2. call.calm => dir = call.before
      BY DEF CallSound
    <2>3. outcome # "ok"
      OBVIOUS
    <2> QED
      BY <2>1, <2>2, <2>3 DEF RepliesAreTrue
  <1>4. call' = NoCall
    BY DEF End
  <1>5. CopiesAreCounted'
    <2>1. ~Copying'
      BY <1>4 DEF Copying, NoCall
    <2>2. used'.kills \in Nat
      OBVIOUS
    <2>3. Cardinality(temps') <= used'.kills + 0
      BY <2>2
    <2> QED
      BY <2>1, <2>3 DEF CopiesAreCounted, Copying
  <1> QED
    BY <1>1, <1>2, <1>3, <1>4, <1>5 DEF FilesInv, NoCall

(* What the path leads to while no other program comes between.             *)
LEMMA ResolvesKeeps ==
    ASSUME FilesInv, call # NoCall, Resolves
    PROVE  FilesInv'
  <1> DEFINE end == Way(dir, call.path)[LinkMax]
  <1>1. CallSound /\ FilesTyped /\ call \in CallSet /\ dir \in Directories
    BY DEF FilesInv, FilesTyped, CallSound
  <1>2. call.at = "resolve" /\ ~Copying
    BY DEF Resolves, Copying
  <1>3. self' = self /\ UNCHANGED <<dir, temps, used>>
    BY DEF Resolves
  <1>4. ResolveLinks(call.path).name = end
        /\ (ResolveLinks(call.path).ok <=> dir[end].kind # "link")
    BY DEF ResolveLinks
  <1>5. CASE dir[end].kind # "link"
    <2>1. call' = [call EXCEPT !.at = "stat", !.target = end] /\ reply' = reply
      BY <1>4, <1>5 DEF Resolves
    <2>2. end \in FileNames /\ Follow(dir, call.path) = end
      BY <1>1, <1>5, Resolved, CallFacts
    <2> HIDE DEF end
    <2>3. /\ call'.at = "stat" /\ call'.target = end /\ call'.path = call.path
          /\ call'.text = call.text /\ call'.perm = call.perm /\ call'.done = call.done
          /\ call'.before = call.before /\ call'.calm = call.calm
      BY <1>1, <2>1 DEF CallSet
    <2>4. call' \in CallSet
      BY <1>1, <2>1, <2>2 DEF CallSet, Stages
    <2>5. ~Copying'
      BY <2>3 DEF Copying
    <2>6. CallSound'
      BY <1>1, <1>2, <1>3, <1>5, <2>2, <2>3, <2>4, <2>5 DEF CallSound
    <2> QED
      BY <1>1, <1>2, <1>3, <2>1, <2>5, <2>6, CallMoves DEF FilesTyped
  <1>6. CASE ~(dir[end].kind # "link")
    <2>1. End("refused")
      BY <1>4, <1>6 DEF Resolves
    <2>2. Cardinality(temps) <= used.kills
      BY <1>1, <1>2 DEF FilesInv, CopiesAreCounted, Copying, FilesTyped
    <2> QED
      BY <1>1, <1>3, <2>1, <2>2, EndsUndone DEF FilesTyped
  <1> QED
    BY <1>5, <1>6

(* The mode is that of the file the copy is to replace.                     *)
LEMMA StatsKeeps ==
    ASSUME FilesInv, call # NoCall, Stats
    PROVE  FilesInv'
  <1> DEFINE st == Stat(call.target)
  <1>1. CallSound /\ FilesTyped /\ call \in CallSet /\ dir \in Directories
    BY DEF FilesInv, FilesTyped, CallSound
  <1>2. call.at = "stat" /\ ~Copying
    BY DEF Stats, Copying
  <1>3. UNCHANGED <<dir, temps, used>>
    BY DEF Stats
  <1>4. call.target \in FileNames /\ call.at # "resolve"
    BY <1>1, <1>2 DEF CallSound
  <1>5. CASE st.kind = "dir" \/ (st.kind = "file" /\ st.perm = "ro")
    <2>1. End("refused") /\ self' = self
      BY <1>5 DEF Stats
    <2>2. Cardinality(temps) <= used.kills
      BY <1>1, <1>2 DEF FilesInv, CopiesAreCounted, Copying, FilesTyped
    <2> QED
      BY <1>1, <1>3, <2>1, <2>2, EndsUndone DEF FilesTyped
  <1>6. CASE ~(st.kind = "dir" \/ (st.kind = "file" /\ st.perm = "ro"))
    <2>1. /\ call' = [call EXCEPT !.at = "open", !.perm = st.perm]
          /\ self' = [self EXCEPT !.seq = @ + 1] /\ reply' = reply
      BY <1>6 DEF Stats
    <2>2. st.perm \in Perms
      <3>1. Follow(dir, call.target) \in FileNames
        BY <1>1, <1>4, Resolved
      <3>2. dir[Follow(dir, call.target)].perm \in Perms
        BY <1>1, <3>1, EntryFacts DEF Directories
      <3>3. Absent.perm \in Perms
        BY DEF Absent, Entry, Perms
      <3> QED
        BY <3>2, <3>3 DEF Stat
    <2>3. dir[call.target].kind # "link" => st = dir[call.target]
      BY <1>1, <1>4, Resolved DEF Stat
    <2> HIDE DEF st
    <2>4. /\ call'.at = "open" /\ call'.target = call.target /\ call'.path = call.path
          /\ call'.text = call.text /\ call'.perm = st.perm /\ call'.done = call.done
          /\ call'.before = call.before /\ call'.calm = call.calm
      BY <1>1, <2>1 DEF CallSet
    <2>5. call' \in CallSet
      BY <1>1, <2>1, <2>2 DEF CallSet, Stages
    <2>6. ~Copying' /\ self' \in [pid : Pids, seq : Nat]
      BY <1>1, <2>1, <2>4 DEF Copying, FilesTyped
    <2>7. CallSound'
      BY <1>1, <1>2, <1>3, <2>3, <2>4, <2>5, <2>6 DEF CallSound
    <2> QED
      BY <1>2, <1>3, <2>1, <2>6, <2>7, CallMoves
  <1> QED
    BY <1>5, <1>6

(* A copy with a name nobody has: it is one more, and empty.                *)
LEMMA OpensKeeps ==
    ASSUME FilesInv, call # NoCall, Opens
    PROVE  FilesInv'
  <1> DEFINE t == [of |-> call.target, pid |-> self.pid, seq |-> self.seq,
                   text |-> <<>>, perm |-> call.perm]
  <1>1. CallSound /\ FilesTyped /\ call \in CallSet /\ dir \in Directories
    BY DEF FilesInv, FilesTyped, CallSound
  <1>2. call.at = "open" /\ ~Copying
    BY DEF Opens, Copying
  <1>3. /\ UNCHANGED <<dir, self, reply, used>> /\ temps' = temps \cup {t} /\ Mine = {}
        /\ call' = [call EXCEPT !.at = "write"]
    BY DEF Opens
  <1>4. /\ call'.at = "write" /\ call'.target = call.target /\ call'.path = call.path
        /\ call'.text = call.text /\ call'.perm = call.perm /\ call'.done = call.done
        /\ call'.before = call.before /\ call'.calm = call.calm
    BY <1>1, <1>3 DEF CallSet
  <1>5. call' \in CallSet /\ Copying'
    BY <1>1, <1>3, <1>4 DEF CallSet, Stages, Copying
  <1>6. IdOf(t) = Temp /\ IdOf(t) = Temp' /\ t.perm = call.perm /\ t.text = <<>> /\ t \in TempSet
    <2>1. call.target \in FileNames /\ call.perm \in Perms
      BY <1>1, <1>2 DEF CallSound, CallSet
    <2> QED
      BY <1>1, <1>3, <1>4, <2>1 DEF IdOf, Temp, TempSet, FilesTyped
  <1> HIDE DEF t
  <1>7. \A u \in temps : IdOf(u) # IdOf(t)
    BY <1>3, <1>6 DEF Mine, IdOf
  <1>8. FilesTyped'
    <2>1. IsFiniteSet(temps')
      BY <1>1, <1>3, FS_AddElement DEF FilesTyped
    <2> QED
      BY <1>1, <1>3, <1>6, <1>7, <2>1 DEF FilesTyped
  <1>9. TextsAreWhole' /\ RepliesAreTrue'
    BY <1>3 DEF FilesInv, TextsAreWhole, RepliesAreTrue
  <1>10. CopiesAreCounted'
    <2>1. Cardinality(temps) <= used.kills /\ used.kills \in Nat
      BY <1>1, <1>2 DEF FilesInv, CopiesAreCounted, Copying, FilesTyped
    <2>2. IsFiniteSet(temps)
      BY <1>1 DEF FilesTyped
    <2>3. Cardinality(temps) \in Nat
      BY <2>2, FS_CardinalityType
    <2>4. \/ Cardinality(temps \cup {t}) = Cardinality(temps)
          \/ Cardinality(temps \cup {t}) = Cardinality(temps) + 1
      BY <2>2, FS_AddElement
    <2>5. Cardinality(temps') \in Nat
      BY <1>8, FS_CardinalityType DEF FilesTyped
    <2>6. Cardinality(temps') <= used'.kills + 1
      BY <1>3, <2>1, <2>3, <2>4, <2>5
    <2> QED
      BY <1>5, <2>6 DEF CopiesAreCounted, Copying
  <1>11. CallSound'
    <2>1. \E u \in temps' : /\ IdOf(u) = Temp' /\ u.perm = call'.perm
                            /\ u.text = SubSeq(call'.text, 1, call'.done)
      <3>1. call.done = 0
        BY <1>1, <1>2 DEF CallSound
      <3>2. SubSeq(call.text, 1, 0) = <<>>
        BY SubSeqEmpty
      <3> QED
        BY <1>3, <1>4, <1>6, <3>1, <3>2
    <2> QED
      BY <1>1, <1>2, <1>3, <1>4, <1>5, <2>1 DEF CallSound
  <1> QED
    BY <1>8, <1>9, <1>10, <1>11 DEF FilesInv

(* No copy is created, nothing has changed.                                 *)
LEMMA OpenFailsKeeps ==
    ASSUME FilesInv, call # NoCall, OpenFails
    PROVE  FilesInv'
  <1>1. CallSound /\ FilesTyped
    BY DEF FilesInv
  <1>2. ~Copying /\ End("refused") /\ UNCHANGED <<dir, temps, self, used>>
    BY DEF OpenFails, Copying
  <1>3. Cardinality(temps) <= used.kills
    BY <1>1, <1>2 DEF FilesInv, CopiesAreCounted, Copying, FilesTyped
  <1> QED
    BY <1>1, <1>2, <1>3, EndsUndone DEF FilesTyped

(* The copy has what was written so far, and no other copy changes.         *)
LEMMA WritesKeeps ==
    ASSUME FilesInv, call # NoCall, Writes
    PROVE  FilesInv'
  <1>1. CallSound /\ FilesTyped /\ call \in CallSet /\ dir \in Directories
    BY DEF FilesInv, FilesTyped, CallSound
  <1>2. call.at = "write" /\ Copying
    BY DEF Writes, Copying
  <1>3. PICK n \in 1 .. Len(call.text) - call.done :
           /\ temps' = (temps \ Mine) \cup
                  {[t EXCEPT !.text = SubSeq(call.text, 1, call.done + n)] : t \in Mine}
           /\ call' = [call EXCEPT !.done = @ + n]
    BY DEF Writes
  <1>4. PICK t \in temps : Mine = {t} /\ IdOf(t) = Temp /\ t.perm = call.perm
    BY <1>1, <1>2, MineIs
  <1> DEFINE sofar == SubSeq(call.text, 1, call.done + n)
             u == [t EXCEPT !.text = sofar]
  <1>5. UNCHANGED <<dir, self, reply, used>>
    BY DEF Writes
  <1>6. /\ call.done \in Nat /\ Len(call.text) \in Nat /\ call.done + n \in Nat
        /\ call.done + n <= Len(call.text) /\ call.text \in Seq(STRING)
    <2>1. call.done \in Nat /\ Len(call.text) \in Nat /\ call.text \in Seq(STRING)
      BY <1>1, CallFacts
    <2>2. \A k, m \in Nat : \A i \in 1 .. m - k : k + i \in Nat /\ k + i <= m
      OBVIOUS
    <2> QED
      BY <2>1, <2>2
  <1>7. /\ call'.at = "write" /\ call'.target = call.target /\ call'.path = call.path
        /\ call'.text = call.text /\ call'.perm = call.perm /\ call'.done = call.done + n
        /\ call'.before = call.before /\ call'.calm = call.calm
    BY <1>1, <1>2, <1>3 DEF CallSet
  <1>8. call' \in CallSet /\ Copying'
    BY <1>1, <1>3, <1>6, <1>7 DEF CallSet, Copying
  <1>9. sofar \in Seq(STRING)
    <2>1. 0 \in Nat /\ call.done + n \in 0 .. Len(call.text) /\ 0 + 1 = 1
      BY <1>6
    <2>2. SubSeq(call.text, 0 + 1, call.done + n) \in Seq(STRING)
      BY <1>6, <2>1, PieceIs
    <2> QED
      BY <2>1, <2>2
  <1> HIDE DEF sofar
  <1>10. /\ u \in TempSet /\ IdOf(u) = Temp /\ u.perm = call.perm /\ u.text = sofar
         /\ Temp' = Temp
    <2>1. t \in TempSet
      BY <1>1 DEF FilesTyped
    <2>2. u \in TempSet /\ u.text = sofar /\ u.perm = t.perm /\ IdOf(u) = IdOf(t)
      BY <1>9, <2>1 DEF TempSet, IdOf
    <2>3. Temp' = Temp
      BY <1>5, <1>7 DEF Temp
    <2> QED
      BY <1>4, <2>2, <2>3
  <1>11. temps' = (temps \ {t}) \cup {u}
    BY <1>3, <1>4 DEF sofar
  <1> HIDE DEF u
  <1>12. \A v \in temps \ {t} : IdOf(v) # IdOf(u)
    BY <1>1, <1>4, <1>10 DEF FilesTyped
  <1>13. /\ IsFiniteSet(temps') /\ Cardinality(temps') = Cardinality(temps)
    <2>1. IsFiniteSet(temps) /\ Cardinality(temps) \in Nat
      BY <1>1, FS_CardinalityType DEF FilesTyped
    <2>2. IsFiniteSet(temps \ {t}) /\ Cardinality(temps \ {t}) = Cardinality(temps) - 1
      BY <2>1, FS_RemoveElement
    <2>3. u \notin temps \ {t}
      BY <1>12
    <2>4. /\ IsFiniteSet((temps \ {t}) \cup {u})
          /\ Cardinality((temps \ {t}) \cup {u}) = Cardinality(temps \ {t}) + 1
      BY <2>2, <2>3, FS_AddElement
    <2> QED
      BY <1>11, <2>1, <2>2, <2>4
  <1>14. FilesTyped'
    BY <1>1, <1>5, <1>10, <1>11, <1>12, <1>13 DEF FilesTyped
  <1>15. TextsAreWhole' /\ RepliesAreTrue'
    BY <1>5 DEF FilesInv, TextsAreWhole, RepliesAreTrue
  <1>16. CopiesAreCounted'
    BY <1>2, <1>5, <1>8, <1>13 DEF FilesInv, CopiesAreCounted, Copying
  <1>17. CallSound'
    <2>1. \E v \in temps' : /\ IdOf(v) = Temp' /\ v.perm = call'.perm
                            /\ v.text = SubSeq(call'.text, 1, call'.done)
      BY <1>7, <1>10, <1>11 DEF sofar
    <2> QED
      BY <1>1, <1>2, <1>5, <1>6, <1>7, <1>8, <2>1 DEF CallSound
  <1> QED
    BY <1>14, <1>15, <1>16, <1>17 DEF FilesInv

(* Without its copy a write leaves only what kills have left.               *)
LEMMA CopyGone ==
    ASSUME FilesInv, CallSound, Copying
    PROVE  Cardinality(temps \ Mine) <= used.kills
  <1>1. FilesTyped
    BY DEF FilesInv
  <1>2. PICK t \in temps : Mine = {t}
    BY <1>1, MineIs
  <1>3. IsFiniteSet(temps) /\ Cardinality(temps) \in Nat
    BY <1>1, FS_CardinalityType DEF FilesTyped
  <1>4. Cardinality(temps \ {t}) = Cardinality(temps) - 1
    BY <1>3, FS_RemoveElement
  <1>5. Cardinality(temps) <= used.kills + 1 /\ used.kills \in Nat
    BY <1>1 DEF FilesInv, CopiesAreCounted, Copying, FilesTyped
  <1> QED
    BY <1>2, <1>3, <1>4, <1>5

(* The copy goes, and nothing else has changed.                             *)
LEMMA WriteFailsKeeps ==
    ASSUME FilesInv, call # NoCall, WriteFails
    PROVE  FilesInv'
  <1>1. CallSound /\ FilesTyped /\ Copying
    BY DEF FilesInv, WriteFails, Copying
  <1>2. temps' = temps \ Mine /\ End("refused") /\ UNCHANGED <<dir, self, used>>
    BY DEF WriteFails
  <1>3. Cardinality(temps') <= used'.kills
    BY <1>1, <1>2, CopyGone
  <1>4. temps' \in SUBSET temps
    BY <1>2
  <1> QED
    BY <1>1, <1>2, <1>3, <1>4, EndsUndone DEF FilesTyped

(* The copy that is closed has the whole text.                              *)
LEMMA ClosesCopyKeeps ==
    ASSUME FilesInv, call # NoCall, ClosesCopy
    PROVE  FilesInv'
  <1>1. CallSound /\ FilesTyped /\ call \in CallSet
    BY DEF FilesInv, CallSound
  <1>2. /\ call.at = "write" /\ Copying /\ call.done = Len(call.text)
        /\ call' = [call EXCEPT !.at = "rename"]
        /\ UNCHANGED <<dir, temps, self, reply, used>>
    BY DEF ClosesCopy, Copying
  <1>3. /\ call'.at = "rename" /\ call'.target = call.target /\ call'.path = call.path
        /\ call'.text = call.text /\ call'.perm = call.perm /\ call'.done = call.done
        /\ call'.before = call.before /\ call'.calm = call.calm
    BY <1>1, <1>2 DEF CallSet
  <1>4. call' \in CallSet /\ Copying' /\ Temp' = Temp
    BY <1>1, <1>2, <1>3 DEF CallSet, Stages, Copying, Temp
  <1>5. CallSound'
    BY <1>1, <1>2, <1>3, <1>4 DEF CallSound
  <1> QED
    BY <1>1, <1>2, <1>4, <1>5, CallMoves DEF FilesTyped

(* The whole text takes the place of what the target names.                 *)
LEMMA RenamesKeeps ==
    ASSUME FilesInv, call # NoCall, Renames
    PROVE  FilesInv'
  <1> DEFINE new == Entry("file", call.text, call.perm, "")
  <1>1. CallSound /\ FilesTyped /\ call \in CallSet /\ dir \in Directories
    BY DEF FilesInv, FilesTyped, CallSound
  <1>2. call.at = "rename" /\ Copying
    BY DEF Renames, Copying
  <1>3. call.target \in FileNames /\ call.done = Len(call.text) /\ call.text \in Seq(STRING)
        /\ call.perm \in Perms
    BY <1>1, <1>2, CallFacts DEF CallSound
  <1>4. PICK t \in temps : /\ Mine = {t} /\ t.perm = call.perm
                           /\ t.text = SubSeq(call.text, 1, call.done)
    BY <1>1, <1>2, MineIs
  <1>5. t.text = call.text
    BY <1>3, <1>4, SubSeqFull
  <1>6. /\ dir' = [dir EXCEPT ![call.target] = new] /\ temps' = temps \ Mine
        /\ End("ok") /\ UNCHANGED <<self, used>>
    BY <1>4, <1>5 DEF Renames
  <1>7. /\ new \in DirEntries /\ new.text = call.text /\ new.kind = "file"
        /\ new.perm = call.perm
    BY <1>3 DEF Entry, DirEntries
  <1> HIDE DEF new
  <1>8. FilesTyped'
    <2>1. IsFiniteSet(temps') /\ temps' \subseteq temps
      BY <1>1, <1>6, FS_Subset DEF FilesTyped
    <2>2. dir' \in Directories
      BY <1>1, <1>6, <1>7 DEF Directories
    <2> QED
      BY <1>1, <1>6, <2>1, <2>2 DEF FilesTyped
  <1>9. TextsAreWhole'
    <2>1. \A n \in FileNames : dir'[n] = IF n = call.target THEN new ELSE dir[n]
      BY <1>1, <1>6 DEF Directories
    <2>2. call.text \in Meant[used'.calls]
      BY <1>1, <1>6 DEF CallSound
    <2>3. used'.calls = used.calls
      BY <1>6
    <2> QED
      BY <1>7, <2>1, <2>2, <2>3 DEF FilesInv, TextsAreWhole
  <1>10. RepliesAreTrue'
    <2>1. /\ reply'.outcome = "ok" /\ reply'.calm = call.calm /\ reply'.before = call.before
          /\ reply'.path = call.path /\ reply'.text = call.text /\ reply'.perm = call.perm
      BY <1>6 DEF End
    <2>2. ASSUME call.calm
          PROVE  /\ dir = call.before /\ call.target = Follow(call.before, call.path)
                 /\ call.before[call.target].kind = "file" =>
                       call.before[call.target].perm = call.perm
      BY <1>1, <1>2, <2>2 DEF CallSound
    <2> QED
      BY <1>6, <2>1, <2>2 DEF RepliesAreTrue, new
  <1>11. CopiesAreCounted'
    <2>1. Cardinality(temps') <= used'.kills /\ used'.kills \in Nat
      BY <1>1, <1>2, <1>6, CopyGone DEF FilesTyped
    <2>2. call' = NoCall
      BY <1>6 DEF End
    <2>3. ~Copying'
      BY <2>2 DEF Copying, NoCall
    <2>4. Cardinality(temps') <= used'.kills + 0
      BY <2>1
    <2> QED
      BY <2>3, <2>4 DEF CopiesAreCounted, Copying
  <1> QED
    BY <1>6, <1>8, <1>9, <1>10, <1>11 DEF FilesInv, End, NoCall
(* A call begins: it is refused, or writes a text that somebody means.      *)
LEMMA Begins ==
    ASSUME FilesInv, NEW path \in FileNames, NEW text, Begin(path),
           UNCHANGED <<dir, temps, self>>,
           \/ call' = NoCall /\ reply' = Refused(path)
           \/ /\ call' = Writing(path, text) /\ reply' = NoReply
              /\ text \in Meant[used.calls + 1]
    PROVE  FilesInv'
  <1>1. FilesTyped /\ dir \in Directories
    BY DEF FilesInv, FilesTyped
  <1>2. call = NoCall /\ ~Copying /\ used.calls < MaxCalls
        /\ used' = [used EXCEPT !.calls = @ + 1]
    BY IdleIs DEF Begin
  <1>3. used.calls \in 0 .. MaxCalls /\ used.kills \in Nat
    BY <1>1 DEF FilesTyped
  <1>4. /\ used' \in [calls : 0 .. MaxCalls, foreign : Nat, kills : Nat]
        /\ used'.calls = used.calls + 1 /\ used'.kills = used.kills
        /\ used.calls + 1 \in 1 .. MaxCalls
    <2>1. used.calls + 1 \in 1 .. MaxCalls /\ used.calls + 1 \in 0 .. MaxCalls
      BY <1>2, <1>3, FilesAssumption
    <2> QED
      BY <1>1, <1>2, <2>1 DEF FilesTyped
  <1>5. FilesTyped'
    BY <1>1, <1>4 DEF FilesTyped
  <1>6. Meant[used.calls] \subseteq Meant[used'.calls]
    <2>1. (used.calls + 1) - 1 = used.calls
      BY <1>3
    <2>2. Meant[(used.calls + 1) - 1] \subseteq Meant[used.calls + 1]
      BY <1>4, MeantIs
    <2> QED
      BY <1>4, <2>1, <2>2
  <1>7. TextsAreWhole'
    BY <1>6 DEF FilesInv, TextsAreWhole
  <1>8. Cardinality(temps) <= used.kills
    BY <1>1, <1>2 DEF FilesInv, CopiesAreCounted, Copying, FilesTyped
  <1>9. CASE call' = NoCall /\ reply' = Refused(path)
    <2>1. RepliesAreTrue'
      BY <1>9 DEF RepliesAreTrue, Refused
    <2>2. ~Copying'
      BY <1>9 DEF Copying, NoCall
    <2>3. Cardinality(temps') <= used'.kills + 0
      BY <1>3, <1>4, <1>8
    <2>4. CopiesAreCounted'
      BY <2>2, <2>3 DEF CopiesAreCounted, Copying
    <2> QED
      BY <1>5, <1>7, <1>9, <2>1, <2>4 DEF FilesInv, NoCall
  <1>10. CASE /\ call' = Writing(path, text) /\ reply' = NoReply
              /\ text \in Meant[used.calls + 1]
    <2>1. RepliesAreTrue'
      BY <1>10 DEF RepliesAreTrue, NoReply
    <2>2. /\ call'.at = "resolve" /\ call'.target = "" /\ call'.path = path
          /\ call'.text = text /\ call'.perm = "rw" /\ call'.done = 0
          /\ call'.before = dir /\ call'.calm = TRUE
      BY <1>10 DEF Writing
    <2>3. ~Copying'
      BY <2>2 DEF Copying
    <2>4. Cardinality(temps') <= used'.kills + 0
      BY <1>3, <1>4, <1>8
    <2>5. CopiesAreCounted'
      BY <2>3, <2>4 DEF CopiesAreCounted, Copying
    <2>6. text \in Seq(STRING) /\ text \in Meant[used'.calls]
      <3>1. used.calls + 1 \in 0 .. MaxCalls
        BY <1>4
      <3>2. Meant[used.calls + 1] \subseteq Seq(STRING)
        BY <3>1, MeantIs
      <3> QED
        BY <1>4, <1>10, <3>2
    <2>7. call' \in CallSet
      BY <1>1, <1>10, <2>6 DEF Writing, CallSet, Stages, Perms
    <2>8. 0 <= Len(text)
      BY <2>6
    <2>9. CallSound'
      BY <2>2, <2>3, <2>6, <2>7, <2>8 DEF CallSound
    <2> QED
      BY <1>5, <1>7, <2>1, <2>5, <2>9 DEF FilesInv
  <1> QED
    BY <1>9, <1>10

(* An edit writes what it makes of a text that was meant.                   *)
LEMMA EditBeginKeeps ==
    ASSUME FilesInv, NEW path \in FileNames, NEW e \in Edits, EditBegin(path, e)
    PROVE  FilesInv'
  <1> DEFINE end == Follow(dir, path)
             text == Edited(Stat(path).text, e)
  <1>1. /\ Begin(path) /\ UNCHANGED <<dir, temps, self>>
        /\ \/ call' = NoCall /\ reply' = Refused(path)
           \/ Stat(path).kind = "file" /\ call' = Writing(path, text) /\ reply' = NoReply
    BY DEF EditBegin
  <1>2. ASSUME Stat(path).kind = "file" PROVE text \in Meant[used.calls + 1]
    <2>1. Stat(path) = dir[end] /\ dir[end].kind = "file"
      BY <1>2 DEF Stat, Absent, Entry
    <2>2. end \in FileNames
      BY Resolved DEF FilesInv, FilesTyped
    <2>3. Stat(path).text \in Meant[used.calls]
      BY <2>1, <2>2 DEF FilesInv, TextsAreWhole
    <2>4. used.calls + 1 \in 1 .. MaxCalls /\ (used.calls + 1) - 1 = used.calls
      <3>1. used.calls \in 0 .. MaxCalls
        BY DEF FilesInv, FilesTyped
      <3>2. used.calls < MaxCalls
        BY <1>1 DEF Begin
      <3> QED
        BY <3>1, <3>2, FilesAssumption
    <2> HIDE DEF end
    <2>5. \A t \in Meant[(used.calls + 1) - 1] : Edited(t, e) \in Meant[used.calls + 1]
      BY <2>4, MeantIs
    <2> QED
      BY <2>3, <2>4, <2>5
  <1> HIDE DEF text
  <1> QED
    BY <1>1, <1>2, Begins

(* A write_file writes a text that is meant.                                *)
LEMMA WriteBeginKeeps ==
    ASSUME FilesInv, NEW path \in FileNames, NEW text \in Texts, NEW homeless \in BOOLEAN,
           WriteBegin(path, text, homeless)
    PROVE  FilesInv'
  <1>1. /\ Begin(path) /\ UNCHANGED <<dir, temps, self>>
        /\ \/ call' = NoCall /\ reply' = Refused(path)
           \/ call' = Writing(path, text) /\ reply' = NoReply
    BY Zenon DEF WriteBegin
  <1>2. text \in Meant[used.calls + 1]
    <2>1. used.calls \in 0 .. MaxCalls /\ used.calls < MaxCalls
      BY <1>1 DEF FilesInv, FilesTyped, Begin
    <2>2. used.calls + 1 \in 0 .. MaxCalls
      BY <2>1, FilesAssumption
    <2> QED
      BY <2>2, MeantIs
  <1> QED
    BY <1>1, <1>2, Begins

(* Another program leaves whole texts, and the write is no longer calm.     *)
LEMMA ForeignKeeps ==
    ASSUME FilesInv, NEW n \in FileNames, Foreign(n)
    PROVE  FilesInv'
  <1>1. FilesTyped /\ dir \in Directories
    BY DEF FilesInv, FilesTyped
  <1>2. used' = [used EXCEPT !.foreign = @ + 1] /\ reply' = NoReply
        /\ UNCHANGED <<temps, self>>
    BY DEF Foreign
  <1>3. /\ used' \in [calls : 0 .. MaxCalls, foreign : Nat, kills : Nat]
        /\ used'.calls = used.calls /\ used'.kills = used.kills
    BY <1>1, <1>2 DEF FilesTyped
  <1>4. PICK new \in ForeignEntries :
           /\ dir' = [dir EXCEPT ![n] = new]
           /\ call' = IF call = NoCall THEN call
                      ELSE [call EXCEPT !.calm = FALSE, !.before = dir']
    BY DEF Foreign
  <1>5. new \in DirEntries /\ (new.kind = "file" => new.text \in Texts)
    <2>1. ASSUME NEW kind \in {"absent", "dir"}, new = Entry(kind, <<>>, "rw", "")
          PROVE  new \in DirEntries /\ (new.kind = "file" => new.text \in Texts)
      <3>1. <<>> \in Seq(STRING)
        OBVIOUS
      <3>2. "rw" \in Perms
        BY DEF Perms
      <3> QED
        BY <2>1, <3>1, <3>2 DEF Entry, DirEntries
    <2>2. new \in {Absent, Entry("dir", <<>>, "rw", "")} =>
             \E kind \in {"absent", "dir"} : new = Entry(kind, <<>>, "rw", "")
      BY Zenon DEF Absent
    <2>3. CASE new \in Links
      <3>1. PICK m \in FileNames : new = Entry("link", <<>>, "rw", m)
        BY <2>3 DEF Links
      <3> QED
        BY <2>3, <3>1 DEF Entry, DirEntries
    <2>4. CASE new \in [kind : {"file"}, text : Texts, perm : Perms, to : {""}]
      <3>1. new.text \in Texts /\ Texts \subseteq Seq(STRING)
        BY <2>4, FilesAssumption
      <3> QED
        BY <2>4, <3>1 DEF DirEntries
    <2> QED
      BY <1>4, <2>2, <2>1, <2>3, <2>4 DEF ForeignEntries
  <1>6. dir' \in Directories /\ \A m \in FileNames : dir'[m] = IF m = n THEN new ELSE dir[m]
    BY <1>1, <1>4, <1>5 DEF Directories
  <1>7. FilesTyped'
    BY <1>1, <1>2, <1>3, <1>6 DEF FilesTyped
  <1>8. TextsAreWhole'
    <2>1. used.calls \in 0 .. MaxCalls
      BY <1>1 DEF FilesTyped
    <2>2. Texts \subseteq Meant[used.calls]
      BY <2>1, MeantIs
    <2> QED
      BY <1>3, <1>5, <1>6, <2>2 DEF FilesInv, TextsAreWhole
  <1>9. RepliesAreTrue'
    BY <1>2 DEF RepliesAreTrue, NoReply
  <1>10. CASE call = NoCall
    <2>1. call' = NoCall /\ ~Copying
      BY <1>4, <1>10, IdleIs
    <2>2. ~Copying'
      BY <2>1 DEF Copying, NoCall
    <2>3. CopiesAreCounted'
      BY <1>2, <1>3, <2>1, <2>2 DEF FilesInv, CopiesAreCounted, Copying
    <2> QED
      BY <1>7, <1>8, <1>9, <2>1, <2>3 DEF FilesInv
  <1>11. CASE call # NoCall
    <2>1. CallSound /\ call \in CallSet
      BY <1>11 DEF FilesInv, CallSound
    <2>2. call' = [call EXCEPT !.calm = FALSE, !.before = dir']
      BY <1>4, <1>11
    <2>3. /\ call'.at = call.at /\ call'.target = call.target /\ call'.path = call.path
          /\ call'.text = call.text /\ call'.perm = call.perm /\ call'.done = call.done
          /\ call'.calm = FALSE
      BY <2>1, <2>2 DEF CallSet
    <2>4. call' \in CallSet
      BY <1>6, <2>1, <2>2 DEF CallSet
    <2>5. (Copying' <=> Copying) /\ Temp' = Temp
      BY <1>2, <2>3 DEF Copying, Temp
    <2>6. CallSound'
      BY <1>2, <1>3, <2>1, <2>3, <2>4, <2>5 DEF CallSound
    <2>7. CopiesAreCounted'
      BY <1>2, <1>3, <2>5 DEF FilesInv, CopiesAreCounted, Copying
    <2> QED
      BY <1>7, <1>8, <1>9, <2>6, <2>7 DEF FilesInv
  <1> QED
    BY <1>10, <1>11

(* A kill leaves at most the one copy.                                      *)
LEMMA KilledKeeps ==
    ASSUME FilesInv, Killed
    PROVE  FilesInv'
  <1>1. call # NoCall /\ CallSound /\ FilesTyped
    BY DEF FilesInv, Killed
  <1>2. /\ End("killed") /\ UNCHANGED <<dir, temps>>
        /\ used' = [used EXCEPT !.kills = @ + 1] /\ self' \in [pid : Pids, seq : Nat]
    BY DEF Killed
  <1>3. /\ used' \in [calls : 0 .. MaxCalls, foreign : Nat, kills : Nat]
        /\ used'.calls = used.calls /\ used'.kills = used.kills + 1 /\ used.kills \in Nat
    BY <1>1, <1>2 DEF FilesTyped
  <1>4. Cardinality(temps) \in Nat
    BY <1>1, FS_CardinalityType DEF FilesTyped
  <1>5. Cardinality(temps) <= used.kills \/ Cardinality(temps) <= used.kills + 1
    BY <1>3 DEF FilesInv, CopiesAreCounted
  <1>6. Cardinality(temps') <= used'.kills
    BY <1>2, <1>3, <1>4, <1>5
  <1> QED
    BY <1>1, <1>2, <1>3, <1>6, EndsUndone
(* The invariant holds where the tools start.                               *)
LEMMA FilesInvInit == FilesInit => FilesInv
  <1> SUFFICES ASSUME FilesInit PROVE FilesInv
    OBVIOUS
  <1>1. dir \in Dirs /\ temps = {} /\ call = NoCall /\ reply = NoReply
        /\ used = [calls |-> 0, foreign |-> 0, kills |-> 0]
        /\ self = [pid |-> CHOOSE p \in Pids : TRUE, seq |-> 0]
    BY DEF FilesInit, FilesIdle
  <1>2. MaxCalls \in Nat /\ dir \in Directories
    BY <1>1, FilesAssumption DEF Directories
  <1>3. IsFiniteSet(temps) /\ Cardinality(temps) = 0
    BY <1>1, FS_EmptySet
  <1>4. used \in [calls : 0 .. MaxCalls, foreign : Nat, kills : Nat]
        /\ used.calls = 0 /\ used.kills = 0
    BY <1>1, <1>2
  <1>5. self \in [pid : Pids, seq : Nat]
    <2>1. (CHOOSE p \in Pids : TRUE) \in Pids
      BY FilesAssumption
    <2> QED
      BY <1>1, <2>1
  <1>6. FilesTyped
    BY <1>1, <1>2, <1>3, <1>4, <1>5 DEF FilesTyped
  <1>7. TextsAreWhole
    <2>1. \A n \in FileNames : dir[n].text \in Meant[0]
      BY <1>1, MeantIs
    <2> QED
      BY <1>4, <2>1 DEF TextsAreWhole
  <1>8. RepliesAreTrue
    BY <1>1 DEF RepliesAreTrue, NoReply
  <1>9. CopiesAreCounted
    <2>1. ~Copying
      BY <1>1, IdleIs
    <2> QED
      BY <1>3, <1>4, <2>1 DEF CopiesAreCounted, Copying
  <1> QED
    BY <1>1, <1>6, <1>7, <1>8, <1>9 DEF FilesInv

(* Every step of the program, of others and every kill keeps it.            *)
LEMMA FilesInvNext == FilesInv /\ [FilesNext]_files => FilesInv'
  <1> SUFFICES ASSUME FilesInv, [FilesNext]_files PROVE FilesInv'
    OBVIOUS
  <1>1. CASE UNCHANGED files
    <2>1. UNCHANGED <<dir, temps, self, call, reply, used>>
      BY <1>1 DEF files
    <2>2. FilesTyped' /\ TextsAreWhole' /\ RepliesAreTrue' /\ CopiesAreCounted'
      BY <2>1 DEF FilesInv, FilesTyped, TextsAreWhole, RepliesAreTrue, CopiesAreCounted
    <2>3. (CallSound' <=> CallSound) /\ call' = call
      BY <2>1 DEF CallSound, Copying, Temp
    <2> QED
      BY <2>2, <2>3 DEF FilesInv
  <1>2. CASE \E n \in FileNames : \E e \in Edits : EditBegin(n, e)
    BY <1>2, EditBeginKeeps
  <1>3. CASE \E n \in FileNames, t \in Texts, h \in BOOLEAN : WriteBegin(n, t, h)
    BY <1>3, WriteBeginKeeps
  <1>4. CASE call # NoCall /\ (Resolves \/ Stats \/ Opens \/ OpenFails \/ Writes
                               \/ WriteFails \/ ClosesCopy \/ Renames)
    BY <1>4, ResolvesKeeps, StatsKeeps, OpensKeeps, OpenFailsKeeps, WritesKeeps,
       WriteFailsKeeps, ClosesCopyKeeps, RenamesKeeps
  <1>5. CASE Killed
    BY <1>5, KilledKeeps
  <1>6. CASE \E n \in FileNames : Foreign(n)
    BY <1>6, ForeignKeeps
  <1> QED
    BY <1>1, <1>2, <1>3, <1>4, <1>5, <1>6 DEF FilesNext

(* Whatever other programs and the system do between two calls, and         *)
(* wherever the program is killed, no name leads to half a text, an         *)
(* answered write has replaced the file the path leads to and nothing else, *)
(* a refused one nothing, and only kills leave copies (write_atomic).       *)
THEOREM EditsKept == FilesSpec => []EditsAreWhole
  <1>1. FilesInv => EditsAreWhole
    BY DEF FilesInv, EditsAreWhole
  <1> QED
    BY <1>1, FilesInvInit, FilesInvNext, PTL DEF FilesSpec
=============================================================================
