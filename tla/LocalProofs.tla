----------------------------- MODULE LocalProofs ----------------------------
(***************************************************************************)
(* Proofs about what the program keeps and runs on its own machine, for    *)
(* every value of the constants: the configuration store (Settings), the   *)
(* search that latches into it (WebSearch), the one-shot command on both   *)
(* platforms (RunCommand, WinCommand), and the system prompt (Prompt).     *)
(***************************************************************************)
EXTENDS WebSearch, WinCommand, Prompt, Counting, SequenceTheorems, FiniteSetTheorems, TLAPS

-----------------------------------------------------------------------------
(* The keys. *)

(* The keys, in the order the file lists them: the plain ones first.        *)
LEMMA KeyOrder ==
    /\ Len(Plain) \in Nat /\ Len(KeySeq) \in Nat
    /\ \A i \in 1 .. Len(KeySeq) : KeySeq[i] \in Keys
    /\ \A k \in Keys : \E i \in 1 .. Len(KeySeq) : KeySeq[i] = k
    /\ \E i \in 1 .. Len(KeySeq) : i <= Len(Plain) /\ KeySeq[i] = CapKey
    /\ \A i \in 1 .. Len(KeySeq) : KeySeq[i] \in ScopedKeys => i > Len(Plain)
  <1>1. /\ Plain \in Seq(PlainKeys) /\ Scoped \in Seq(ScopedKeys)
        /\ PlainKeys \cap ScopedKeys = {} /\ CapKey \in PlainKeys
    BY SettingsAssumption
  <1>2. /\ Len(Plain) \in Nat /\ Len(Scoped) \in Nat
        /\ DOMAIN Plain = 1 .. Len(Plain) /\ DOMAIN Scoped = 1 .. Len(Scoped)
    BY <1>1
  <1>3. /\ Len(KeySeq) = Len(Plain) + Len(Scoped)
        /\ \A i \in 1 .. Len(KeySeq) :
              KeySeq[i] = IF i <= Len(Plain) THEN Plain[i] ELSE Scoped[i - Len(Plain)]
    BY <1>1 DEF KeySeq
  <1>4. \A i \in 1 .. Len(Plain) : i \in 1 .. Len(KeySeq) /\ KeySeq[i] = Plain[i]
    BY <1>2, <1>3
  <1>5. \A j \in 1 .. Len(Scoped) :
           Len(Plain) + j \in 1 .. Len(KeySeq) /\ KeySeq[Len(Plain) + j] = Scoped[j]
    BY <1>2, <1>3
  <1>6. \A i \in 1 .. Len(KeySeq) :
           \/ i <= Len(Plain) /\ KeySeq[i] \in PlainKeys
           \/ i > Len(Plain) /\ KeySeq[i] \in ScopedKeys
    <2> SUFFICES ASSUME NEW i \in 1 .. Len(KeySeq)
                 PROVE  \/ i <= Len(Plain) /\ KeySeq[i] \in PlainKeys
                        \/ i > Len(Plain) /\ KeySeq[i] \in ScopedKeys
      OBVIOUS
    <2>1. CASE i <= Len(Plain)
      <3>1. i \in 1 .. Len(Plain)
        BY <1>2, <1>3, <2>1
      <3> QED
        BY <1>1, <1>4, <2>1, <3>1
    <2>2. CASE ~(i <= Len(Plain))
      <3>1. i - Len(Plain) \in 1 .. Len(Scoped) /\ i > Len(Plain)
        BY <1>2, <1>3, <2>2
      <3> QED
        BY <1>1, <1>3, <2>2, <3>1
    <2> QED
      BY <2>1, <2>2
  <1>7. \A k \in PlainKeys : \E i \in 1 .. Len(Plain) : Plain[i] = k
    BY <1>2 DEF PlainKeys, Elems
  <1>8. \A k \in ScopedKeys : \E j \in 1 .. Len(Scoped) : Scoped[j] = k
    BY <1>2 DEF ScopedKeys, Elems
  <1>9. \A k \in Keys : \E i \in 1 .. Len(KeySeq) : KeySeq[i] = k
    <2> SUFFICES ASSUME NEW k \in Keys PROVE \E i \in 1 .. Len(KeySeq) : KeySeq[i] = k
      OBVIOUS
    <2>1. CASE k \in PlainKeys
      BY <1>4, <1>7, <2>1
    <2>2. CASE k \in ScopedKeys
      BY <1>5, <1>8, <2>2
    <2> QED
      BY <2>1, <2>2 DEF Keys
  <1>10. \E i \in 1 .. Len(KeySeq) : i <= Len(Plain) /\ KeySeq[i] = CapKey
    <2>1. PICK i \in 1 .. Len(Plain) : Plain[i] = CapKey
      BY <1>1, <1>7
    <2> QED
      BY <1>2, <1>4, <2>1
  <1>11. \A i \in 1 .. Len(KeySeq) : KeySeq[i] \in Keys
    BY <1>6 DEF Keys
  <1>12. \A i \in 1 .. Len(KeySeq) : KeySeq[i] \in ScopedKeys => i > Len(Plain)
    BY <1>1, <1>6
  <1>13. Len(KeySeq) \in Nat
    BY <1>2, <1>3
  <1> QED
    BY <1>2, <1>9, <1>10, <1>11, <1>12, <1>13

(* No key is in both parts, and the cap and the gated ones are in theirs.   *)
LEMMA KeyParts ==
    /\ \A k \in Keys : (k \in PlainKeys) # (k \in ScopedKeys)
    /\ CapKey \in Keys /\ CapKey \in PlainKeys /\ CapKey \notin ScopedKeys
    /\ PinKey \in Keys /\ PinKey \in ScopedKeys
    /\ \A g \in Gated : g[1] \in ScopedKeys
    /\ \A v : <<CapKey, v>> \notin Gated
  <1>1. /\ PlainKeys \cap ScopedKeys = {} /\ CapKey \in PlainKeys
        /\ PinKey \in ScopedKeys /\ \A g \in Gated : g[1] \in ScopedKeys
    BY SettingsAssumption
  <1>2. ASSUME NEW v, <<CapKey, v>> \in Gated PROVE FALSE
    <2>1. <<CapKey, v>>[1] \in ScopedKeys
      BY <1>1, <1>2
    <2> QED
      BY <1>1, <2>1
  <1> QED
    BY <1>1, <1>2 DEF Keys

-----------------------------------------------------------------------------
(* The lines of a file. *)

(* r has a line for every key of the first n that L sets, and no other, the *)
(* cap's before any scoped one.                                             *)
Renders(r, L, n) ==
    /\ r \in Seq(Assignments)
    /\ \A k \in 1 .. Len(r) : r[k][2] = L[r[k][1]] /\ r[k][2] # None
    /\ \A i \in 1 .. n : L[KeySeq[i]] # None => \E k \in 1 .. Len(r) : r[k][1] = KeySeq[i]
    /\ \A k \in 1 .. Len(r) : r[k][1] \in ScopedKeys /\ L[CapKey] # None
          => \E j \in 1 .. Len(r) : j < k /\ r[j][1] = CapKey

(* One more key.                                                            *)
LEMMA RendersOneMore ==
    ASSUME NEW L \in [Keys -> AllValues], NEW n \in 1 .. Len(KeySeq), NEW r,
           Renders(r, L, n - 1)
    PROVE  Renders(IF L[KeySeq[n]] # None THEN Append(r, <<KeySeq[n], L[KeySeq[n]]>>)
                                          ELSE r, L, n)
  <1> DEFINE key == KeySeq[n]
             line == <<key, L[key]>>
             s == Append(r, line)
  <1>1. /\ r \in Seq(Assignments) /\ Len(r) \in Nat /\ key \in Keys
        /\ n \in Nat /\ n - 1 \in Nat /\ \A i \in 1 .. n : i # n => i \in 1 .. n - 1
    BY KeyOrder DEF Renders
  <1>2. CASE L[key] = None
    BY <1>1, <1>2 DEF Renders
  <1>3. CASE L[key] # None
    <2>1. line \in Assignments /\ line[1] = key /\ line[2] = L[key]
      BY <1>1 DEF Assignments
    <2> HIDE DEF line
    <2>2. /\ s \in Seq(Assignments) /\ Len(s) = Len(r) + 1
          /\ \A k \in 1 .. Len(r) : s[k] = r[k] /\ k \in 1 .. Len(s)
          /\ s[Len(s)] = line /\ Len(s) \in 1 .. Len(s)
          /\ \A k \in 1 .. Len(s) : k # Len(s) => k \in 1 .. Len(r)
      BY <1>1, <2>1
    <2> HIDE DEF s
    <2>3. \A k \in 1 .. Len(s) : s[k][2] = L[s[k][1]] /\ s[k][2] # None
      <3> SUFFICES ASSUME NEW k \in 1 .. Len(s)
                   PROVE  s[k][2] = L[s[k][1]] /\ s[k][2] # None
        OBVIOUS
      <3>1. CASE k = Len(s)
        BY <1>3, <2>1, <2>2, <3>1
      <3>2. CASE k \in 1 .. Len(r)
        BY <2>2, <3>2 DEF Renders
      <3> QED
        BY <2>2, <3>1, <3>2
    <2>4. \A i \in 1 .. n : L[KeySeq[i]] # None
             => \E k \in 1 .. Len(s) : s[k][1] = KeySeq[i]
      <3> SUFFICES ASSUME NEW i \in 1 .. n, L[KeySeq[i]] # None
                   PROVE  \E k \in 1 .. Len(s) : s[k][1] = KeySeq[i]
        OBVIOUS
      <3>1. CASE i = n
        BY <2>1, <2>2, <3>1
      <3>2. CASE i # n
        <4>1. PICK k \in 1 .. Len(r) : r[k][1] = KeySeq[i]
          BY <1>1, <3>2 DEF Renders
        <4> QED
          BY <2>2, <4>1
      <3> QED
        BY <3>1, <3>2
    <2>5. \A k \in 1 .. Len(s) : s[k][1] \in ScopedKeys /\ L[CapKey] # None
             => \E j \in 1 .. Len(s) : j < k /\ s[j][1] = CapKey
      <3> SUFFICES ASSUME NEW k \in 1 .. Len(s), s[k][1] \in ScopedKeys, L[CapKey] # None
                   PROVE  \E j \in 1 .. Len(s) : j < k /\ s[j][1] = CapKey
        OBVIOUS
      <3>1. CASE k = Len(s)
        <4>1. n > Len(Plain)
          BY <2>1, <2>2, <3>1, KeyOrder
        <4>2. PICK i \in 1 .. Len(KeySeq) : i <= Len(Plain) /\ KeySeq[i] = CapKey
          BY KeyOrder
        <4>3. i \in 1 .. n - 1
          BY <1>1, <4>1, <4>2, KeyOrder
        <4>4. PICK j \in 1 .. Len(r) : r[j][1] = CapKey
          BY <4>2, <4>3 DEF Renders
        <4>5. j < k /\ j \in 1 .. Len(s) /\ s[j] = r[j]
          BY <1>1, <2>2, <3>1
        <4> QED
          BY <4>4, <4>5
      <3>2. CASE k \in 1 .. Len(r)
        <4>1. r[k][1] \in ScopedKeys
          BY <2>2, <3>2
        <4>2. PICK j \in 1 .. Len(r) : j < k /\ r[j][1] = CapKey
          BY <3>2, <4>1 DEF Renders
        <4> QED
          BY <2>2, <4>2
      <3> QED
        BY <2>2, <3>1, <3>2
    <2>6. Renders(s, L, n)
      BY <2>2, <2>3, <2>4, <2>5 DEF Renders
    <2> QED
      BY <1>3, <2>6 DEF s, line
  <1> QED
    BY <1>2, <1>3

(* A file has a line for every key that is set.                             *)
LEMMA RenderIs ==
    ASSUME NEW L \in [Keys -> AllValues]
    PROVE  Renders(Render(L), L, Len(KeySeq))
  <1> DEFINE m == Len(KeySeq)
             list == [i \in 1 .. m |-> <<KeySeq[i], L[KeySeq[i]]>>]
             Steps(f) == f = [n \in 0 .. Len(list) |->
                               IF n = 0 THEN <<>>
                               ELSE IF list[n][2] # None THEN Append(f[n - 1], list[n])
                               ELSE f[n - 1]]
             X == Seq(Assignments)
             G == [w \in (1 .. m) \X X |->
                     IF list[w[1]][2] # None THEN Append(w[2], list[w[1]]) ELSE w[2]]
  <1>1. /\ m \in Nat /\ Len(list) = m
        /\ \A n \in 1 .. m : /\ list[n] = <<KeySeq[n], L[KeySeq[n]]>>
                             /\ list[n][2] = L[KeySeq[n]]
                             /\ list[n] \in Assignments
    BY KeyOrder DEF Assignments
  <1> HIDE DEF m, list
  <1>2. G \in [(1 .. m) \X X -> X]
    <2>1. ASSUME NEW w \in (1 .. m) \X X
          PROVE  (IF list[w[1]][2] # None THEN Append(w[2], list[w[1]]) ELSE w[2]) \in X
      <3>1. w[1] \in 1 .. m /\ w[2] \in X
        OBVIOUS
      <3>2. list[w[1]] \in Assignments
        BY <1>1, <3>1
      <3> QED
        BY <3>1, <3>2
    <2> QED
      BY <2>1
  <1>3. <<>> \in X
    OBVIOUS
  <1>4. PICK f \in [0 .. m -> X] : f[0] = <<>> /\ \A n \in 1 .. m : f[n] = G[<<n, f[n - 1]>>]
    <2> HIDE DEF G, X
    <2>1. \E f : Iterates(f, m, X, <<>>, G)
      BY <1>1, <1>2, <1>3, Recursion
    <2> QED
      BY <2>1 DEF Iterates
  <1>5. Steps(f)
    <2>1. ASSUME NEW n \in 0 .. m
          PROVE  f[n] = IF n = 0 THEN <<>>
                        ELSE IF list[n][2] # None THEN Append(f[n - 1], list[n])
                        ELSE f[n - 1]
      <3>1. CASE n = 0
        BY <1>4, <3>1
      <3>2. CASE n # 0
        <4>1. n \in 1 .. m /\ n - 1 \in 0 .. m
          BY <1>1, <3>2
        <4>2. <<n, f[n - 1]>> \in (1 .. m) \X X
          BY <1>4, <4>1
        <4>3. f[n] = IF list[n][2] # None THEN Append(f[n - 1], list[n]) ELSE f[n - 1]
          BY <1>4, <4>1, <4>2
        <4> QED
          BY <3>2, <4>3
      <3> QED
        BY <3>1, <3>2
    <2>2. f = [n \in 0 .. m |-> f[n]]
      BY <1>4
    <2> QED
      BY <1>1, <2>1, <2>2
  <1>6. PICK g : Steps(g) /\ Render(L) = g[m]
    <2>1. \E g : Steps(g) /\ Render(L) = g[Len(list)]
      BY <1>5 DEF Render, SelectSeq, list, m
    <2> QED
      BY <1>1, <2>1
  <1> DEFINE S == {n \in 0 .. m : Renders(g[n], L, n)}
  <1>7. \A n \in 0 .. m : g[n] = IF n = 0 THEN <<>>
                        ELSE IF list[n][2] # None THEN Append(g[n - 1], list[n])
                        ELSE g[n - 1]
    BY <1>1, <1>6
  <1>8. 0 \in S
    <2>1. g[0] = <<>>
      BY <1>1, <1>7
    <2>2. Renders(<<>>, L, 0)
      BY DEF Renders
    <2> QED
      BY <1>1, <2>1, <2>2
  <1>9. ASSUME NEW n \in 1 .. m, n - 1 \in S PROVE n \in S
    <2>1. Renders(g[n - 1], L, n - 1)
      BY <1>9
    <2>2. n \in 0 .. m /\ n # 0 /\ n \in 1 .. Len(KeySeq)
      BY <1>1 DEF m
    <2>3. g[n] = IF L[KeySeq[n]] # None THEN Append(g[n - 1], <<KeySeq[n], L[KeySeq[n]]>>)
                 ELSE g[n - 1]
      BY <1>1, <1>7, <2>2
    <2>4. Renders(IF L[KeySeq[n]] # None THEN Append(g[n - 1], <<KeySeq[n], L[KeySeq[n]]>>)
                  ELSE g[n - 1], L, n)
      BY <2>1, <2>2, RendersOneMore
    <2> QED
      BY <2>2, <2>3, <2>4
  <1>10. m \in S
    <2>1. m \in 0 .. m /\ \A n \in 1 .. m : n - 1 \in S => n \in S
      BY <1>1, <1>9
    <2> HIDE DEF S
    <2> QED
      BY <1>1, <1>8, <2>1, UpTo
  <1> QED
    BY <1>6, <1>10 DEF m

-----------------------------------------------------------------------------
(* Reading a file. *)

(* A line is taken into its layer, or left out.                             *)
LEMMA ScanLineType ==
    ASSUME NEW c \in Stores, NEW line, line[2] \in AllValues,
           NEW layer \in {"user", "shadow"}
    PROVE  /\ ScanLine(c, line, layer) \in Stores
           /\ \A of \in DOMAIN c : of # layer => ScanLine(c, line, layer)[of] = c[of]
           /\ \A k \in Keys : ScanLine(c, line, layer)[layer][k] \in {c[layer][k], line[2]}
           /\ DOMAIN ScanLine(c, line, layer) = DOMAIN c
  <1>1. CASE ~(line[1] \in Keys /\ Accepts(c, line[1], line[2]))
    BY <1>1 DEF ScanLine, Stores
  <1>2. CASE line[1] \in Keys /\ Accepts(c, line[1], line[2])
    <2>1. ScanLine(c, line, layer) = [c EXCEPT ![layer][line[1]] = line[2]]
      BY <1>2 DEF ScanLine
    <2> QED
      BY <1>2, <2>1 DEF Stores
  <1> QED
    BY <1>1, <1>2

(* Scanned takes the lines one by one.                                      *)
LEMMA ScannedIs ==
    ASSUME NEW c \in Stores, NEW lines, Len(lines) \in Nat,
           \A n \in 1 .. Len(lines) : lines[n][2] \in AllValues,
           NEW layer \in {"user", "shadow"}
    PROVE  \E f \in [0 .. Len(lines) -> Stores] :
              /\ f[0] = c
              /\ \A n \in 1 .. Len(lines) : f[n] = ScanLine(f[n - 1], lines[n], layer)
              /\ Scanned(c, lines, layer) = f[Len(lines)]
  <1> DEFINE m == Len(lines)
             Steps(f) == f = [n \in 0 .. m |->
                               IF n = 0 THEN c ELSE ScanLine(f[n - 1], lines[n], layer)]
             G == [w \in (1 .. m) \X Stores |-> ScanLine(w[2], lines[w[1]], layer)]
  <1>1. m \in Nat
    OBVIOUS
  <1>2. G \in [(1 .. m) \X Stores -> Stores]
    <2>1. ASSUME NEW w \in (1 .. m) \X Stores
          PROVE  ScanLine(w[2], lines[w[1]], layer) \in Stores
      <3>1. w[1] \in 1 .. m /\ w[2] \in Stores
        OBVIOUS
      <3>2. lines[w[1]][2] \in AllValues
        BY <3>1
      <3> QED
        BY <3>1, <3>2, ScanLineType
    <2> QED
      BY <2>1
  <1>3. PICK f \in [0 .. m -> Stores] : f[0] = c /\ \A n \in 1 .. m : f[n] = G[<<n, f[n - 1]>>]
    <2> HIDE DEF G
    <2>1. \E f : Iterates(f, m, Stores, c, G)
      BY <1>1, <1>2, Recursion
    <2> QED
      BY <2>1 DEF Iterates
  <1>4. \A n \in 1 .. m : f[n] = ScanLine(f[n - 1], lines[n], layer)
    <2> TAKE n \in 1 .. m
    <2>1. n - 1 \in 0 .. m
      BY <1>1
    <2>2. <<n, f[n - 1]>> \in (1 .. m) \X Stores
      BY <1>3, <2>1
    <2> QED
      BY <1>3, <2>2
  <1>5. Steps(f)
    <2>1. ASSUME NEW n \in 0 .. m
          PROVE  f[n] = IF n = 0 THEN c ELSE ScanLine(f[n - 1], lines[n], layer)
      BY <1>1, <1>3, <1>4
    <2>2. f = [n \in 0 .. m |-> f[n]]
      BY <1>3
    <2> QED
      BY <2>1, <2>2
  <1>6. PICK g : Steps(g) /\ Scanned(c, lines, layer) = g[m]
    BY <1>5 DEF Scanned
  <1>7. g[0] = c /\ \A n \in 1 .. m : g[n] = ScanLine(g[n - 1], lines[n], layer)
    <2> HIDE DEF m
    <2>1. \A n \in 0 .. m :
             g[n] = IF n = 0 THEN c ELSE ScanLine(g[n - 1], lines[n], layer)
      BY <1>1, <1>6
    <2>2. 0 \in 0 .. m /\ \A n \in 1 .. m : n \in 0 .. m /\ n # 0
      BY <1>1
    <2> QED
      BY <2>1, <2>2
  <1> DEFINE S == {n \in 0 .. m : g[n] = f[n]}
  <1>8. \A n \in 0 .. m : g[n] = f[n]
    <2>1. 0 \in S
      BY <1>1, <1>3, <1>7
    <2>2. \A n \in 1 .. m : n - 1 \in S => n \in S
      BY <1>4, <1>7
    <2> HIDE DEF S
    <2>3. \A n \in 0 .. m : n \in S
      BY <1>1, <2>1, <2>2, UpTo
    <2> QED
      BY <2>3 DEF S
  <1>9. Scanned(c, lines, layer) = f[m]
    BY <1>1, <1>6, <1>8
  <1> QED
    BY <1>3, <1>4, <1>9
-----------------------------------------------------------------------------
(* Which layer answers. *)

(* The layer that answers is the first of those that have the key.          *)
LEMMA SourceIs ==
    ASSUME NEW c, NEW k
    PROVE  LET of  == IF k \in PlainKeys THEN 1 .. 5 ELSE 4 .. 5
               set == {i \in of : c[Layers[i]][k] # None}
           IN IF set = {} THEN Source(c, k) = "default"
              ELSE \E i \in set : Source(c, k) = Layers[i] /\ \A j \in set : i <= j
  <1> DEFINE of  == IF k \in PlainKeys THEN 1 .. 5 ELSE 4 .. 5
             set == {i \in of : c[Layers[i]][k] # None}
  <1>1. set \subseteq Nat
    OBVIOUS
  <1>2. Source(c, k) = IF set = {} THEN "default"
                       ELSE Layers[CHOOSE i \in set : \A j \in set : i <= j]
    BY DEF Source
  <1> HIDE DEF set
  <1>3. set # {} => \E i \in set : Source(c, k) = Layers[i] /\ \A j \in set : i <= j
    BY <1>1, <1>2, LeastNatural
  <1> QED
    BY <1>2, <1>3 DEF set

(* The layers have their names.                                             *)
LEMMA LayerNames ==
    /\ Layers[1] = "runtime" /\ Layers[2] = "cli" /\ Layers[3] = "env"
    /\ Layers[4] = "shadow" /\ Layers[5] = "user"
  BY DEF Layers

(* A key neither the machinery, the command line nor the environment has    *)
(* set is answered for by the two files.                                    *)
LEMMA FilesAnswer ==
    ASSUME NEW c \in Stores, NEW k \in Keys,
           k \in PlainKeys => c.runtime[k] = None /\ c.cli[k] = None /\ c.env[k] = None
    PROVE  /\ c.shadow[k] # None => Resolve(c, k) # None
           /\ c.user[k] # None => Resolve(c, k) # None
           /\ Resolve(c, k) # None => c.shadow[k] # None \/ c.user[k] # None
  <1> DEFINE of  == IF k \in PlainKeys THEN 1 .. 5 ELSE 4 .. 5
             set == {i \in of : c[Layers[i]][k] # None}
  <1>1. IF set = {} THEN Source(c, k) = "default"
        ELSE \E i \in set : Source(c, k) = Layers[i] /\ \A j \in set : i <= j
    BY SourceIs
  <1>2. set \subseteq {4, 5}
    <2> SUFFICES ASSUME NEW i \in set PROVE i \in {4, 5}
      OBVIOUS
    <2>1. i \in of /\ c[Layers[i]][k] # None
      OBVIOUS
    <2>2. i \in {1, 2, 3, 4, 5} /\ (i \in {1, 2, 3} => k \in PlainKeys)
      BY <2>1
    <2> QED
      BY <2>1, <2>2, LayerNames
  <1>3. (4 \in set <=> c.shadow[k] # None) /\ (5 \in set <=> c.user[k] # None)
    BY LayerNames
  <1> HIDE DEF set
  <1>4. CASE set = {}
    BY <1>1, <1>3, <1>4 DEF Resolve
  <1>5. CASE set # {}
    <2>1. PICK i \in set : Source(c, k) = Layers[i]
      BY <1>1, <1>5
    <2>2. Layers[i] \in {"shadow", "user"} /\ c[Layers[i]][k] # None
      BY <1>2, <1>3, <2>1, LayerNames
    <2>3. Resolve(c, k) = c[Layers[i]][k]
      BY <2>1, <2>2 DEF Resolve
    <2>4. c.shadow[k] # None \/ c.user[k] # None
      BY <2>2
    <2> QED
      BY <2>2, <2>3, <2>4
  <1> QED
    BY <1>4, <1>5

(* A key the shadow file sets, and that neither the machinery, the command  *)
(* line nor the environment answers for, has the shadow's value.            *)
LEMMA ShadowAnswers ==
    ASSUME NEW c \in Stores, NEW k \in Keys, c.runtime[k] = None,
           c.shadow[k] # None, Source(c, k) \notin {"env", "cli"}
    PROVE  Resolve(c, k) = c.shadow[k]
  <1> DEFINE of  == IF k \in PlainKeys THEN 1 .. 5 ELSE 4 .. 5
             set == {i \in of : c[Layers[i]][k] # None}
  <1>1. IF set = {} THEN Source(c, k) = "default"
        ELSE \E i \in set : Source(c, k) = Layers[i] /\ \A j \in set : i <= j
    BY SourceIs
  <1>2. 4 \in set /\ 1 \notin set /\ set \subseteq {1, 2, 3, 4, 5}
    <2>1. 4 \in of
      OBVIOUS
    <2>2. 4 \in set /\ 1 \notin set
      BY <2>1, LayerNames
    <2>3. of \subseteq {1, 2, 3, 4, 5}
      OBVIOUS
    <2> QED
      BY <2>2, <2>3
  <1> HIDE DEF set
  <1>3. PICK i \in set : Source(c, k) = Layers[i] /\ i <= 4
    BY <1>1, <1>2
  <1>4. i = 4
    BY <1>2, <1>3, LayerNames
  <1> QED
    BY <1>3, <1>4, LayerNames DEF Resolve

(* A scoped key the shadow file sets has the shadow's value.                *)
LEMMA ScopedShadowAnswers ==
    ASSUME NEW c \in Stores, NEW k \in ScopedKeys, c.shadow[k] # None
    PROVE  Resolve(c, k) = c.shadow[k]
  <1> DEFINE of  == IF k \in PlainKeys THEN 1 .. 5 ELSE 4 .. 5
             set == {i \in of : c[Layers[i]][k] # None}
  <1>1. IF set = {} THEN Source(c, k) = "default"
        ELSE \E i \in set : Source(c, k) = Layers[i] /\ \A j \in set : i <= j
    BY SourceIs
  <1>2. k \notin PlainKeys /\ k \in Keys
    BY KeyParts DEF Keys
  <1>3. 4 \in set /\ set \subseteq {4, 5}
    BY <1>2, LayerNames
  <1> HIDE DEF set
  <1>4. PICK i \in set : Source(c, k) = Layers[i] /\ i <= 4
    BY <1>1, <1>3
  <1>5. i = 4
    BY <1>3, <1>4
  <1> QED
    BY <1>4, <1>5, LayerNames DEF Resolve

-----------------------------------------------------------------------------
(* A store, written and read again. *)

(* The values a store starts from.                                          *)
LEMMA BlankStore ==
    /\ None \in AllValues /\ "off" \in AllValues
    /\ Empty \in [Keys -> AllValues] /\ \A k \in Keys : Empty[k] = None
    /\ Blank \in Stores
  BY DEF AllValues, Empty, Blank, Stores

(* What a restart makes of the shadow layer L, as the file holds it, over   *)
(* the user's layer U: the same keys with the same values, unless a value   *)
(* is there that needs an output cap none of the two sets.                  *)
LEMMA RestartReads ==
    ASSUME NEW L \in [Keys -> AllValues], NEW U \in [Keys -> AllValues]
    PROVE  LET c == Scanned([Blank EXCEPT !.user = U], Render(L), "shadow")
           IN \/ c.shadow = L
              \/ \E g \in Gated : L[g[1]] = g[2] /\ Resolve(c, CapKey) = None
  <1> DEFINE b == [Blank EXCEPT !.user = U]
             r == Render(L)
             m == Len(r)
  <1>1. /\ b \in Stores /\ b.user = U
        /\ \A k \in Keys : /\ b.runtime[k] = None /\ b.cli[k] = None /\ b.env[k] = None
                           /\ b.shadow[k] = None
    <2>1. /\ b.user = U /\ b.runtime = Empty /\ b.cli = Empty /\ b.env = Empty
          /\ b.shadow = Empty
      BY DEF Blank
    <2>2. b \in Stores
      BY BlankStore DEF Stores
    <2> QED
      BY <2>1, <2>2, BlankStore
  <1>2. /\ r \in Seq(Assignments) /\ m \in Nat
        /\ \A n \in 1 .. m : /\ r[n][2] = L[r[n][1]] /\ r[n][2] # None
                             /\ r[n][1] \in Keys /\ r[n][2] \in AllValues
        /\ \A k \in Keys : L[k] # None => \E n \in 1 .. m : r[n][1] = k
        /\ \A n \in 1 .. m : r[n][1] \in ScopedKeys /\ L[CapKey] # None
              => \E j \in 1 .. m : j < n /\ r[j][1] = CapKey
    <2>1. Renders(r, L, Len(KeySeq))
      BY RenderIs
    <2>2. r \in Seq(Assignments) /\ m \in Nat
      BY <2>1 DEF Renders
    <2>3. \A n \in 1 .. m : r[n] \in Assignments
      BY <2>2
    <2>4. \A n \in 1 .. m : r[n][1] \in Keys /\ r[n][2] \in AllValues
      BY <2>3 DEF Assignments
    <2>5. \A k \in Keys : L[k] # None => \E n \in 1 .. m : r[n][1] = k
      <3> TAKE k \in Keys
      <3>1. PICK i \in 1 .. Len(KeySeq) : KeySeq[i] = k
        BY KeyOrder
      <3> QED
        BY <2>1, <3>1 DEF Renders
    <2> QED
      BY <2>1, <2>2, <2>4, <2>5 DEF Renders
  <1> HIDE DEF b, r, m
  <1>3. PICK f \in [0 .. m -> Stores] :
           /\ f[0] = b
           /\ \A n \in 1 .. m : f[n] = ScanLine(f[n - 1], r[n], "shadow")
           /\ Scanned(b, r, "shadow") = f[m]
    <2>1. /\ b \in Stores /\ Len(r) \in Nat /\ "shadow" \in {"user", "shadow"}
          /\ \A n \in 1 .. Len(r) : r[n][2] \in AllValues
      BY <1>1, <1>2 DEF m
    <2>2. \E f \in [0 .. Len(r) -> Stores] :
             /\ f[0] = b
             /\ \A n \in 1 .. Len(r) : f[n] = ScanLine(f[n - 1], r[n], "shadow")
             /\ Scanned(b, r, "shadow") = f[Len(r)]
      BY <2>1, ScannedIs
    <2> QED
      BY <2>2 DEF m
  <1> DEFINE c == f[m]
             Same(e) == /\ e.user = U
                        /\ \A k \in Keys : /\ e.runtime[k] = None /\ e.cli[k] = None
                                           /\ e.env[k] = None
                                           /\ e.shadow[k] \in {None, L[k]}
             Kept == {n \in 0 .. m : Same(f[n])}
  <1>4. \A n \in 1 .. m :
           /\ f[n - 1] \in Stores /\ n - 1 \in 0 .. m /\ n \in 0 .. m
           /\ f[n] \in Stores
           /\ \A of \in {"user", "runtime", "cli", "env"} : f[n][of] = f[n - 1][of]
           /\ \A k \in Keys : f[n].shadow[k] \in {f[n - 1].shadow[k], r[n][2]}
    <2> TAKE n \in 1 .. m
    <2>1. n - 1 \in 0 .. m /\ n \in 0 .. m
      BY <1>2
    <2>2. f[n - 1] \in Stores /\ f[n] \in Stores
      BY <1>3, <2>1
    <2>3. f[n] = ScanLine(f[n - 1], r[n], "shadow") /\ r[n][2] \in AllValues
      BY <1>2, <1>3
    <2>4. "shadow" \in {"user", "shadow"}
      OBVIOUS
    <2>5. /\ \A of \in DOMAIN f[n - 1] : of # "shadow" => f[n][of] = f[n - 1][of]
          /\ \A k \in Keys : f[n]["shadow"][k] \in {f[n - 1]["shadow"][k], r[n][2]}
      <3> DEFINE e == f[n - 1]
                 line == r[n]
                 g == ScanLine(e, line, "shadow")
      <3>1. e \in Stores /\ line[2] \in AllValues /\ f[n] = g
        BY <2>2, <2>3
      <3> HIDE DEF e, line
      <3>2. /\ \A of \in DOMAIN e : of # "shadow" => g[of] = e[of]
            /\ \A k \in Keys : g["shadow"][k] \in {e["shadow"][k], line[2]}
        BY <2>4, <3>1, ScanLineType
      <3> HIDE DEF g
      <3> QED
        BY <3>1, <3>2 DEF e, line
    <2>6. \A of \in {"user", "runtime", "cli", "env"} :
             of \in DOMAIN f[n - 1] /\ of # "shadow"
      BY <2>2 DEF Stores
    <2> QED
      BY <2>1, <2>2, <2>5, <2>6
  <1>5. \A n \in 1 .. m : \A k \in Keys :
           f[n].shadow[k] # f[n - 1].shadow[k] => r[n][1] = k
    <2> TAKE n \in 1 .. m
    <2> TAKE k \in Keys
    <2> DEFINE e == f[n - 1]
    <2>1. e \in Stores /\ f[n] = ScanLine(e, r[n], "shadow")
      BY <1>3, <1>4
    <2> HIDE DEF e
    <2>2. ScanLine(e, r[n], "shadow").shadow[k] # e.shadow[k] => r[n][1] = k
      BY <2>1 DEF ScanLine, Stores
    <2> QED
      BY <2>1, <2>2 DEF e
  <1>6. \A n \in 0 .. m : Same(f[n])
    <2>1. 0 \in Kept
      BY <1>1, <1>2, <1>3
    <2>2. ASSUME NEW n \in 1 .. m, n - 1 \in Kept PROVE n \in Kept
      <3>1. Same(f[n - 1]) /\ n \in 0 .. m
        BY <1>4, <2>2
      <3>2. \A k \in Keys : f[n].shadow[k] \in {None, L[k]}
        <4> TAKE k \in Keys
        <4>1. f[n].shadow[k] \in {f[n - 1].shadow[k], r[n][2]}
          BY <1>4
        <4>2. f[n].shadow[k] # f[n - 1].shadow[k] => r[n][2] = L[k]
          <5>1. r[n][2] = L[r[n][1]]
            BY <1>2
          <5>2. f[n].shadow[k] # f[n - 1].shadow[k] => r[n][1] = k
            BY <1>5
          <5> QED
            BY <5>1, <5>2
        <4>3. f[n - 1].shadow[k] \in {None, L[k]}
          BY <3>1
        <4> QED
          BY <4>1, <4>2, <4>3
      <3>3. Same(f[n])
        BY <1>4, <3>1, <3>2
      <3> QED
        BY <3>1, <3>3
    <2>3. \A n \in 1 .. m : n - 1 \in Kept => n \in Kept
      BY <2>2
    <2> HIDE DEF Kept
    <2>4. \A n \in 0 .. m : n \in Kept
      BY <1>2, <2>1, <2>3, UpTo
    <2> QED
      BY <2>4 DEF Kept
  <1> HIDE DEF Kept
  <1>7. ASSUME NEW k \in Keys, NEW i \in 0 .. m, f[i].shadow[k] # None
        PROVE  \A n \in 0 .. m : i <= n => f[n].shadow[k] # None
    <2> DEFINE T == {n \in 0 .. m : i <= n => f[n].shadow[k] # None}
    <2>1. 0 \in T
      BY <1>2, <1>7
    <2>2. ASSUME NEW n \in 1 .. m, n - 1 \in T PROVE n \in T
      <3>1. n \in 0 .. m /\ n \in Nat /\ i \in Nat
        BY <1>4
      <3>2. CASE i <= n - 1
        <4>1. f[n - 1].shadow[k] # None /\ r[n][2] # None
          BY <1>2, <2>2, <3>2
        <4>2. f[n].shadow[k] \in {f[n - 1].shadow[k], r[n][2]}
          BY <1>4
        <4> QED
          BY <3>1, <4>1, <4>2
      <3>3. CASE ~(i <= n - 1)
        <4>1. i <= n => i = n
          BY <3>1, <3>3
        <4> QED
          BY <1>7, <3>1, <4>1
      <3> QED
        BY <3>2, <3>3
    <2>3. \A n \in 1 .. m : n - 1 \in T => n \in T
      BY <2>2
    <2> HIDE DEF T
    <2>4. \A n \in 0 .. m : n \in T
      BY <1>2, <2>1, <2>3, UpTo
    <2> QED
      BY <2>4 DEF T
  <1>8. SUFFICES ASSUME \A g \in Gated : L[g[1]] = g[2] => Resolve(c, CapKey) # None
                 PROVE  c.shadow = L
    BY <1>3 DEF b, r
  <1>9. c \in Stores /\ Same(c) /\ m \in 0 .. m
    BY <1>2, <1>3, <1>6
  (* What the cap's line gives is there from then on.                       *)
  <1>10. ASSUME NEW j \in 1 .. m, r[j][1] = CapKey PROVE f[j].shadow[CapKey] # None
    <2> DEFINE e == f[j - 1]
               v == r[j][2]
    <2>1. /\ CapKey \in Keys /\ <<CapKey, v>> \notin Gated
          /\ e \in Stores /\ f[j] = ScanLine(e, r[j], "shadow") /\ v # None
      BY <1>2, <1>3, <1>4, KeyParts
    <2> HIDE DEF e
    <2>2. ScanLine(e, r[j], "shadow") = [e EXCEPT !["shadow"][CapKey] = v]
      BY <1>10, <2>1 DEF ScanLine, Accepts
    <2>3. [e EXCEPT !["shadow"][CapKey] = v].shadow[CapKey] = v
      BY <2>1 DEF Stores
    <2> QED
      BY <2>1, <2>2, <2>3
  <1>11. ASSUME NEW n \in 1 .. m PROVE Accepts(f[n - 1], r[n][1], r[n][2])
    <2> DEFINE k == r[n][1]
               v == r[n][2]
               e == f[n - 1]
    <2>1. SUFFICES ASSUME <<k, v>> \in Gated, Resolve(e, CapKey) = None PROVE FALSE
      BY DEF Accepts
    <2>2. k \in ScopedKeys /\ L[k] = v
      <3>1. <<k, v>>[1] \in ScopedKeys
        BY <2>1, KeyParts
      <3> QED
        BY <1>2, <3>1
    <2>3. Resolve(c, CapKey) # None
      <3>1. L[<<k, v>>[1]] = <<k, v>>[2]
        BY <2>2
      <3> QED
        BY <1>8, <2>1, <3>1
    <2>4. CapKey \in Keys /\ e \in Stores /\ Same(e) /\ n - 1 \in 0 .. m
      BY <1>4, <1>6, KeyParts
    <2> HIDE DEF e, c, k, v
    <2>5. e.shadow[CapKey] = None /\ U[CapKey] = None
      BY <2>1, <2>4, FilesAnswer
    <2>6. c.shadow[CapKey] # None
      BY <1>9, <2>3, <2>4, <2>5, FilesAnswer
    <2>7. L[CapKey] # None
      BY <1>9, <2>4, <2>6
    <2>8. PICK j \in 1 .. m : j < n /\ r[j][1] = CapKey
      BY <1>2, <2>2, <2>7 DEF k
    <2>9. f[j].shadow[CapKey] # None /\ j \in 0 .. m /\ j <= n - 1
      BY <1>2, <1>10, <2>8
    <2>10. f[n - 1].shadow[CapKey] # None
      BY <1>7, <2>4, <2>9
    <2> QED
      BY <2>5, <2>10 DEF e
  <1>12. ASSUME NEW n \in 1 .. m PROVE f[n].shadow[r[n][1]] # None
    <2> DEFINE e == f[n - 1]
    <2>1. /\ e \in Stores /\ f[n] = ScanLine(e, r[n], "shadow")
          /\ r[n][1] \in Keys /\ r[n][2] # None
          /\ Accepts(e, r[n][1], r[n][2])
      BY <1>2, <1>3, <1>4, <1>11
    <2> HIDE DEF e
    <2>2. ScanLine(e, r[n], "shadow").shadow[r[n][1]] = r[n][2]
      BY <2>1 DEF ScanLine, Stores
    <2> QED
      BY <2>1, <2>2
  <1>13. \A k \in Keys : c.shadow[k] = L[k]
    <2> TAKE k \in Keys
    <2>1. CASE L[k] = None
      BY <1>9, <2>1
    <2>2. CASE L[k] # None
      <3>1. PICK n \in 1 .. m : r[n][1] = k
        BY <1>2, <2>2
      <3>2. f[n].shadow[k] # None /\ n \in 0 .. m /\ n <= m
        BY <1>2, <1>12, <3>1
      <3>3. c.shadow[k] # None
        BY <1>7, <1>9, <3>2
      <3> QED
        BY <1>9, <3>3
    <2> QED
      BY <2>1, <2>2
  <1>14. c.shadow \in [Keys -> AllValues]
    BY <1>9 DEF Stores
  <1> HIDE DEF c
  <1> QED
    BY <1>13, <1>14

-----------------------------------------------------------------------------
(* What the actions are made of. *)

(* A file that is read leaves a store, and what was learned as it was.      *)
LEMMA ScannedType ==
    ASSUME NEW c \in Stores, NEW lines, Len(lines) \in Nat,
           \A n \in 1 .. Len(lines) : lines[n][2] \in AllValues,
           NEW layer \in {"user", "shadow"}
    PROVE  /\ Scanned(c, lines, layer) \in Stores
           /\ Scanned(c, lines, layer).runtime = c.runtime
  <1> DEFINE m == Len(lines)
  <1>1. PICK f \in [0 .. m -> Stores] :
           /\ f[0] = c
           /\ \A n \in 1 .. m : f[n] = ScanLine(f[n - 1], lines[n], layer)
           /\ Scanned(c, lines, layer) = f[m]
    BY ScannedIs
  <1>2. m \in Nat /\ m \in 0 .. m
    OBVIOUS
  <1> DEFINE S == {n \in 0 .. m : f[n].runtime = c.runtime}
  <1>3. ASSUME NEW n \in 1 .. m, n - 1 \in S PROVE n \in S
    <2> DEFINE e == f[n - 1]
               line == lines[n]
    <2>1. /\ n \in 0 .. m /\ n - 1 \in 0 .. m /\ e \in Stores /\ e.runtime = c.runtime
          /\ f[n] = ScanLine(e, line, layer) /\ line[2] \in AllValues
      BY <1>1, <1>2, <1>3
    <2> HIDE DEF e, line
    <2>2. "runtime" \in DOMAIN e /\ "runtime" # layer
      BY <2>1 DEF Stores
    <2>3. ScanLine(e, line, layer)["runtime"] = e["runtime"]
      BY <2>1, <2>2, ScanLineType
    <2> QED
      BY <2>1, <2>3
  <1>4. 0 \in S /\ \A n \in 1 .. m : n - 1 \in S => n \in S
    BY <1>1, <1>2, <1>3
  <1>5. m \in S
    <2> HIDE DEF S
    <2> QED
      BY <1>2, <1>4, UpTo
  <1> QED
    BY <1>1, <1>2, <1>5

(* Clearing keys touches nothing else.                                      *)
LEMMA ClearedType ==
    ASSUME NEW c \in Stores, NEW ks
    PROVE  /\ Cleared(c, ks) \in Stores
           /\ Cleared(c, ks).up = c.up /\ Cleared(c, ks).shadow = c.shadow
           /\ \A k \in Keys : Cleared(c, ks).runtime[k]
                                = IF k \in ks THEN None ELSE c.runtime[k]
           /\ Cleared(c, ks).pin = c.pin
  <1> DEFINE r == [k \in Keys |-> IF k \in ks THEN None ELSE c.runtime[k]]
  <1>1. r \in [Keys -> AllValues]
    BY BlankStore DEF Stores
  <1>2. Cleared(c, ks) = [c EXCEPT !.runtime = r]
    BY DEF Cleared
  <1>3. \A k \in Keys : r[k] = IF k \in ks THEN None ELSE c.runtime[k]
    OBVIOUS
  <1> HIDE DEF r
  <1> QED
    BY <1>1, <1>2, <1>3 DEF Stores

(* A save that is under way is one; the others are idle.                    *)
LEMMA SavesAre ==
    ASSUME StoreTypeOK, NEW p \in Insts
    PROVE  /\ UnderWay(p) => save[p] \in Saves
           /\ ~UnderWay(p) => save[p] = Idle
  <1>1. save[p] = Idle \/ save[p] \in Saves
    BY DEF StoreTypeOK
  <1>2. Idle.at = "idle" /\ \A s \in Saves : s.at # "idle"
    BY DEF Idle, Saves
  <1> QED
    BY <1>1, <1>2 DEF UnderWay

(* There is an inode that neither a name nor a save has: two names and the  *)
(* instances' saves, of which the one that opens has none, leave one over.  *)
LEMMA FreeNodeIs ==
    ASSUME StoreTypeOK, disk.tmp = 0
    PROVE  FreeNode \in Nodes /\ FreeNode # disk.shadow
  <1> DEFINE busy == {q \in Insts : save[q].at # "idle"}
             used == {disk.shadow, disk.tmp} \cup {save[q].fd : q \in busy}
             g == [q \in Insts |-> IF q \in busy THEN save[q].fd ELSE 0]
             R == {g[q] : q \in Insts}
             N == Cardinality(Insts)
  <1>1. IsFiniteSet(Insts) /\ N \in Nat
    BY SettingsAssumption, FS_CardinalityType
  <1>2. g \in Surjection(Insts, R)
    BY DEF Surjection
  <1>3. IsFiniteSet(R) /\ Cardinality(R) <= N
    <2> HIDE DEF g, R, N
    <2>1. IsFiniteSet(R) /\ Cardinality(R) <= Cardinality(Insts)
      BY <1>1, <1>2, FS_Surjection
    <2> QED
      BY <2>1 DEF N
  <1>4. {save[q].fd : q \in busy} \subseteq R
    <2>1. \A q \in busy : q \in Insts /\ g[q] = save[q].fd
      OBVIOUS
    <2> HIDE DEF g, busy
    <2> QED
      BY <2>1
  <1> HIDE DEF R, g
  <1>5. /\ IsFiniteSet(R \cup {disk.shadow}) /\ Cardinality(R) \in Nat
        /\ Cardinality(R \cup {disk.shadow}) <= N + 1
        /\ Cardinality(R \cup {disk.shadow}) \in Nat
    <2> HIDE DEF N
    <2> DEFINE x == disk.shadow
               T == R \cup {x}
    <2> HIDE DEF x
    <2>1. IsFiniteSet(T) /\ Cardinality(T) = IF x \in R THEN Cardinality(R) ELSE Cardinality(R) + 1
      BY <1>3, FS_AddElement
    <2>2. Cardinality(R) \in Nat /\ Cardinality(T) \in Nat
      BY <1>3, <2>1, FS_CardinalityType
    <2> QED
      BY <1>1, <1>3, <2>1, <2>2 DEF x
  <1>6. Cardinality(Nodes) = N + 2
    <2> DEFINE M == N + 2
    <2>1. Nodes = 1 .. M /\ 1 \in Int /\ M \in Int
      BY <1>1 DEF Nodes
    <2> HIDE DEF M
    <2>2. Cardinality(1 .. M) = IF 1 > M THEN 0 ELSE M - 1 + 1
      BY <2>1, FS_Interval
    <2> QED
      BY <1>1, <2>1, <2>2 DEF M
  <1>7. Nodes \ used # {}
    <2> SUFFICES ASSUME Nodes \subseteq used PROVE FALSE
      OBVIOUS
    <2>1. 0 \notin Nodes
      BY DEF Nodes
    <2>2. Nodes \subseteq R \cup {disk.shadow}
      BY <1>4, <2>1
    <2>3. Cardinality(Nodes) <= Cardinality(R \cup {disk.shadow})
      BY <1>5, <2>2, FS_Subset
    <2> HIDE DEF N
    <2> QED
      BY <1>1, <1>5, <1>6, <2>3
  <1>8. Nodes \ used \subseteq Nat
    <2> HIDE DEF used
    <2> QED
      BY DEF Nodes
  <1>9. FreeNode = CHOOSE n \in Nodes \ used : \A m \in Nodes \ used : n <= m
    BY DEF FreeNode
  <1> HIDE DEF used
  <1>10. FreeNode \in Nodes \ used
    BY <1>7, <1>8, <1>9, LeastNatural
  <1> QED
    BY <1>10 DEF used

-----------------------------------------------------------------------------
(* The invariant of the store. *)

(* Every value a key may be given is one of them.                           *)
LEMMA GivenValues ==
    /\ \A k \in Keys : \A v \in ValuesOf[k] : v \in AllValues
    /\ \A gives \in Presets \cup Envs : \A k \in DOMAIN gives : gives[k] \in AllValues
    /\ \A file \in UserFiles : \A i \in DOMAIN file : file[i][2] \in AllValues
    /\ None \in AllValues
  <1>1. \A k \in Keys : \A v \in ValuesOf[k] : v \in AllValues
    BY DEF AllValues
  <1>2. \A gives \in Presets \cup Envs : \A k \in DOMAIN gives : gives[k] \in AllValues
    BY DEF AllValues
  <1>3. \A file \in UserFiles : \A i \in DOMAIN file : file[i][2] \in AllValues
    BY DEF AllValues
  <1> QED
    BY <1>1, <1>2, <1>3 DEF AllValues

(* It holds at the start.                                                   *)
LEMMA StoreInvInit ==
    SettingsInit => StoreInv
  <1> SUFFICES ASSUME SettingsInit PROVE StoreInv
    OBVIOUS
  <1> USE DEF SettingsInit
  <1>1. StoreTypeOK
    <2>1. conf \in [Insts -> Stores]
      BY BlankStore
    <2>2. save \in [Insts -> {Idle} \cup Saves]
      OBVIOUS
    <2>3. node \in [Nodes -> Seq(Assignments)]
      OBVIOUS
    <2>4. disk \in [shadow : {0} \cup Nodes, tmp : {0} \cup Nodes]
      OBVIOUS
    <2>5. drafts \subseteq Seq(Assignments) /\ mirror \in Insts \cup {None}
      OBVIOUS
    <2> QED
      BY <2>1, <2>2, <2>3, <2>4, <2>5 DEF StoreTypeOK
  <1>2. \A p \in Insts : ~UnderWay(p)
    BY DEF UnderWay, Idle
  <1>3. Undisturbed
    <2>1. ShadowWhole /\ mirror = None
      BY DEF ShadowWhole
    <2> QED
      BY <1>2, <2>1 DEF Undisturbed
  <1> QED
    BY <1>1, <1>2, <1>3 DEF StoreInv

(* The lines behind the shadow's name are read as they are.                 *)
LEMMA ShadowLinesType ==
    ASSUME StoreTypeOK
    PROVE  ShadowLines \in Seq(Assignments)
  BY DEF ShadowLines, StoreTypeOK

(* What an instance starts from: the files, and nothing learned.            *)
LEMMA LoadedIs ==
    ASSUME StoreTypeOK, NEW file \in UserFiles
    PROVE  /\ Loaded(file, ShadowLines) \in Stores
           /\ Loaded(file, ShadowLines).runtime = Empty
  <1>1. Len(file) \in Nat /\ \A n \in 1 .. Len(file) : file[n][2] \in AllValues
    <2>1. file \in Seq({file[i] : i \in DOMAIN file})
      BY SettingsAssumption
    <2>2. Len(file) \in Nat /\ DOMAIN file = 1 .. Len(file)
      BY <2>1
    <2> QED
      BY <2>2, GivenValues
  <1>2. /\ Scanned(Blank, file, "user") \in Stores
        /\ Scanned(Blank, file, "user").runtime = Blank.runtime
    BY <1>1, BlankStore, ScannedType
  <1> DEFINE lines == ShadowLines
             u == Scanned(Blank, file, "user")
  <1>3. lines \in Seq(Assignments)
    BY ShadowLinesType
  <1> HIDE DEF lines, u
  <1>4. Len(lines) \in Nat /\ \A n \in 1 .. Len(lines) : lines[n][2] \in AllValues
    <2>1. Len(lines) \in Nat /\ \A n \in 1 .. Len(lines) : lines[n] \in Assignments
      BY <1>3
    <2> QED
      BY <2>1 DEF Assignments
  <1>5. u \in Stores /\ u.runtime = Empty
    BY <1>2 DEF u, Blank
  <1>6. Scanned(u, lines, "shadow") \in Stores /\ Scanned(u, lines, "shadow").runtime = u.runtime
    BY <1>4, <1>5, ScannedType
  <1> QED
    BY <1>5, <1>6 DEF Loaded, lines, u

(* An instance that starts is not saving, and nobody mirrors it.            *)
LEMMA StartKeeps ==
    ASSUME StoreInv, NEW p \in Insts, Start(p)
    PROVE  StoreInv'
  <1>1. StoreTypeOK
    BY DEF StoreInv
  <1>2. PICK file \in UserFiles, env \in Envs, cli \in Envs :
           conf' = [conf EXCEPT ![p] =
              [Loaded(file, ShadowLines) EXCEPT
                  !.env = Given(env), !.cli = Given(cli),
                  !.pin = Pin(env, cli), !.up = TRUE]]
    BY DEF Start
  <1>3. Loaded(file, ShadowLines) \in Stores
    BY <1>1, LoadedIs
  <1> DEFINE e == [Loaded(file, ShadowLines) EXCEPT
                  !.env = Given(env), !.cli = Given(cli),
                  !.pin = Pin(env, cli), !.up = TRUE]
  <1>4. e \in Stores
    <2>1. Given(env) \in [Keys -> AllValues] /\ Given(cli) \in [Keys -> AllValues]
      BY GivenValues DEF Given
    <2>2. Pin(env, cli) \in AllValues
      BY GivenValues DEF Pin
    <2> QED
      BY <1>3, <2>1, <2>2 DEF Stores
  <1> HIDE DEF e
  <1>5. conf' = [conf EXCEPT ![p] = e]
    BY <1>2 DEF e
  <1>6. /\ UNCHANGED <<save, disk, node, drafts, mirror, raced>> /\ ~Up(p)
        /\ DOMAIN told' = DOMAIN told
    BY DEF Start, history
  <1>7. StoreTypeOK'
    BY <1>1, <1>4, <1>5, <1>6 DEF StoreTypeOK
  <1>8. ~UnderWay(p) /\ (raced \/ mirror # p)
    <2>1. ~UnderWay(p)
      BY <1>6 DEF StoreInv, Faithful, Up
    <2>2. p # None
      BY SettingsAssumption
    <2> QED
      BY <1>6, <2>1, <2>2 DEF StoreInv, Undisturbed
  <1>9. \A q \in Insts : q # p => conf'[q] = conf[q]
    BY <1>1, <1>5 DEF StoreTypeOK
  <1>10. \A q \in Insts : UnderWay(q)' => UnderWay(q) /\ q # p
    BY <1>6, <1>8 DEF UnderWay
  <1>11. \A q \in Insts : UnderWay(q)' => Faithful(save[q], conf[q])'
    BY <1>6, <1>9, <1>10 DEF StoreInv, Faithful
  <1>12. raced' \/ Undisturbed'
    <2> SUFFICES ASSUME ~raced PROVE Undisturbed'
      BY <1>6
    <2>1. Undisturbed /\ (mirror # None => mirror \in Insts /\ mirror # p)
      BY <1>1, <1>8 DEF StoreInv, StoreTypeOK
    <2>2. ShadowWhole' /\ ShadowLines' = ShadowLines
      BY <1>6, <2>1 DEF Undisturbed, ShadowWhole, ShadowLines
    <2>3. mirror' # None => Up(mirror)' /\ ShadowLines' = Render(conf[mirror].shadow)'
      BY <1>6, <1>9, <2>1, <2>2 DEF Undisturbed, Up
    <2>4. \A q \in Insts : UnderWay(q)' => OnTmp(save[q])' /\ mirror' = None
      BY <1>6, <1>10, <2>1 DEF Undisturbed, OnTmp
    <2>5. \A q, r \in Insts : UnderWay(q)' /\ UnderWay(r)' => q = r
      BY <1>10, <2>1 DEF Undisturbed
    <2> QED
      BY <2>2, <2>3, <2>4, <2>5 DEF Undisturbed
  <1> QED
    BY <1>6, <1>7, <1>11, <1>12 DEF StoreInv

(* An instance that stops leaves the files as they are.                     *)
LEMMA StopKeeps ==
    ASSUME StoreInv, NEW p \in Insts, Stop(p)
    PROVE  StoreInv'
  <1>1. StoreTypeOK
    BY DEF StoreInv
  <1>2. /\ conf' = [conf EXCEPT ![p] = Blank] /\ save' = [save EXCEPT ![p] = Idle]
        /\ mirror' = (IF mirror = p THEN None ELSE mirror)
        /\ UNCHANGED <<disk, node, drafts, raced>>
        /\ DOMAIN told' = DOMAIN told
    BY DEF Stop
  <1>3. StoreTypeOK'
    BY <1>1, <1>2, BlankStore DEF StoreTypeOK
  <1>4. \A q \in Insts : q # p => conf'[q] = conf[q] /\ save'[q] = save[q]
    BY <1>1, <1>2 DEF StoreTypeOK
  <1>5. \A q \in Insts : UnderWay(q)' => UnderWay(q) /\ q # p
    <2>1. save'[p] = Idle
      BY <1>1, <1>2 DEF StoreTypeOK
    <2> QED
      BY <1>4, <2>1 DEF UnderWay, Idle
  <1>6. \A q \in Insts : UnderWay(q)' => Faithful(save[q], conf[q])'
    BY <1>2, <1>4, <1>5 DEF StoreInv, Faithful
  <1>7. raced' \/ Undisturbed'
    <2> SUFFICES ASSUME ~raced PROVE Undisturbed'
      BY <1>2
    <2>1. Undisturbed
      BY DEF StoreInv
    <2>2. ShadowWhole' /\ ShadowLines' = ShadowLines
      BY <1>2, <2>1 DEF Undisturbed, ShadowWhole, ShadowLines
    <2>3. mirror' # None => Up(mirror)' /\ ShadowLines' = Render(conf[mirror].shadow)'
      <3>1. mirror' # None => mirror' = mirror /\ mirror \in Insts /\ mirror # p
        BY <1>1, <1>2 DEF StoreTypeOK
      <3> QED
        BY <1>4, <2>1, <2>2, <3>1 DEF Undisturbed, Up
    <2>4. \A q \in Insts : UnderWay(q)' => OnTmp(save[q])' /\ mirror' = None
      BY <1>2, <1>4, <1>5, <2>1 DEF Undisturbed, OnTmp
    <2>5. \A q, r \in Insts : UnderWay(q)' /\ UnderWay(r)' => q = r
      BY <1>5, <2>1 DEF Undisturbed
    <2> QED
      BY <2>2, <2>3, <2>4, <2>5 DEF Undisturbed
  <1> QED
    BY <1>2, <1>3, <1>6, <1>7 DEF StoreInv

(* A command that changes the layer starts a save of it.                    *)
LEMMA ChangeKeeps ==
    ASSUME StoreInv, NEW p \in Insts, ~UnderWay(p),
           NEW c \in Stores, c.up, NEW gives \in Gives, NEW by \in {"config", "model"},
           by = "model" => DOMAIN gives = {PinKey},
           by = "config" => \A k \in DOMAIN gives : gives[k] # None => k # PinKey,
           Change(p, c, gives, by)
    PROVE  StoreInv'
  <1> DEFINE layer == [k \in Keys |-> IF k \in DOMAIN gives THEN gives[k] ELSE c.shadow[k]]
             text == Render(layer)
             s == [at |-> IF text = <<>> THEN "remove" ELSE "open",
                   text |-> text, gives |-> gives, by |-> by, fd |-> 0]
             e == [c EXCEPT !.shadow = layer]
  <1>1. /\ conf' = [conf EXCEPT ![p] = e] /\ save' = [save EXCEPT ![p] = s]
        /\ drafts' = drafts \cup {text} /\ mirror' = None
        /\ raced' = (raced \/ \E q \in Insts \ {p} : save[q].at # "idle")
        /\ UNCHANGED <<disk, node, told>>
    BY DEF Change
  <1>2. DOMAIN gives \subseteq Keys /\ \A k \in DOMAIN gives : gives[k] \in AllValues
    BY DEF Gives
  <1>3. layer \in [Keys -> AllValues] /\ \A k \in DOMAIN gives : layer[k] = gives[k]
    BY <1>2 DEF Stores
  <1> HIDE DEF layer
  <1>4. text \in Seq(Assignments)
    BY <1>3, RenderIs DEF Renders
  <1>5. e \in Stores /\ e.shadow = layer /\ e.up
    BY <1>3 DEF Stores
  <1>6. s \in Saves
    BY <1>4 DEF Saves
  <1>7. /\ s.text = text /\ s.gives = gives /\ s.by = by
        /\ s.at \in {"remove", "open"} /\ (text = <<>> <=> s.at = "remove")
    OBVIOUS
  <1> HIDE DEF text, s, e
  <1>8. StoreTypeOK
    BY DEF StoreInv
  <1>9. StoreTypeOK'
    <2>1. conf' \in [Insts -> Stores] /\ save' \in [Insts -> {Idle} \cup Saves]
      BY <1>1, <1>5, <1>6, <1>8 DEF StoreTypeOK
    <2>2. drafts' \subseteq Seq(Assignments)
      BY <1>1, <1>4, <1>8 DEF StoreTypeOK
    <2>3. raced' \in BOOLEAN
      BY <1>1, <1>8 DEF StoreTypeOK
    <2> QED
      BY <1>1, <1>8, <2>1, <2>2, <2>3 DEF StoreTypeOK
  <1>10. /\ \A q \in Insts : q # p => conf'[q] = conf[q] /\ save'[q] = save[q]
         /\ conf'[p] = e /\ save'[p] = s
    BY <1>1, <1>8 DEF StoreTypeOK
  <1>11. \A q \in Insts : UnderWay(q)' => Faithful(save[q], conf[q])'
    <2> SUFFICES ASSUME NEW q \in Insts, UnderWay(q)' PROVE Faithful(save[q], conf[q])'
      OBVIOUS
    <2>1. CASE q = p
      <3>1. s.text \in drafts'
        BY <1>1, <1>7
      <3>2. \A k \in DOMAIN s.gives : e.shadow[k] = s.gives[k]
        BY <1>3, <1>5, <1>7
      <3>3. e.up /\ s.text = Render(e.shadow)
        BY <1>5, <1>7 DEF text
      <3> QED
        BY <1>7, <1>10, <2>1, <3>1, <3>2, <3>3 DEF Faithful
    <2>2. CASE q # p
      <3>1. Faithful(save[q], conf[q])
        BY <1>10, <2>2 DEF StoreInv, UnderWay
      <3> QED
        BY <1>1, <1>10, <2>2, <3>1 DEF Faithful
    <2> QED
      BY <2>1, <2>2
  <1>12. raced' \/ Undisturbed'
    <2> SUFFICES ASSUME ~raced' PROVE Undisturbed'
      OBVIOUS
    <2>1. Undisturbed /\ \A q \in Insts : q # p => ~UnderWay(q)
      BY <1>1 DEF StoreInv, UnderWay
    <2>2. \A q \in Insts : UnderWay(q)' => q = p
      BY <1>10, <2>1 DEF UnderWay
    <2>3. OnTmp(save[p])'
      BY <1>7, <1>10 DEF OnTmp
    <2>4. ShadowWhole'
      BY <1>1, <2>1 DEF Undisturbed, ShadowWhole
    <2> QED
      BY <1>1, <2>2, <2>3, <2>4 DEF Undisturbed
  <1> QED
    BY <1>1, <1>9, <1>11, <1>12 DEF StoreInv

(* A refusal only says so.                                                  *)
LEMMA RefuseKeeps ==
    ASSUME StoreInv, NEW p \in Insts, NEW gives, Refuse(p, gives)
    PROVE  StoreInv'
  <1>1. UNCHANGED <<conf, save, disk, node, drafts, mirror, raced>> /\ DOMAIN told' = DOMAIN told
    BY DEF Refuse, Tell, history
  <1>2. StoreTypeOK' /\ (Undisturbed => Undisturbed')
    BY <1>1 DEF StoreInv, StoreTypeOK, Undisturbed, UnderWay, OnTmp, ShadowWhole, ShadowLines, Up
  <1> QED
    BY <1>1, <1>2 DEF StoreInv, Faithful, UnderWay

(* What a command may give.                                                 *)
LEMMA GivesAre ==
    /\ \A k \in Keys : \A v \in ValuesOf[k] : Only(k, v) \in Gives /\ DOMAIN Only(k, v) = {k}
    /\ \A gives \in Presets : gives \in Gives /\ DOMAIN gives \subseteq Keys \ {PinKey}
    /\ \A ks \in SUBSET Keys : [k \in ks |-> None] \in Gives
  <1>1. ASSUME NEW k \in Keys, NEW v \in ValuesOf[k]
        PROVE  Only(k, v) \in Gives /\ DOMAIN Only(k, v) = {k}
    <2>1. Only(k, v) = [x \in {k} |-> v]
      BY DEF Only
    <2>2. v \in AllValues /\ {k} \in SUBSET Keys
      BY GivenValues
    <2>3. [x \in {k} |-> v] \in [{k} -> AllValues]
      BY <2>2
    <2> QED
      BY <2>1, <2>2, <2>3 DEF Gives
  <1>2. ASSUME NEW gives \in Presets
        PROVE  gives \in Gives /\ DOMAIN gives \subseteq Keys \ {PinKey}
    <2>1. /\ DOMAIN gives \subseteq Keys \ {PinKey}
          /\ gives = [k \in DOMAIN gives |-> gives[k]]
      BY SettingsAssumption
    <2>2. \A k \in DOMAIN gives : gives[k] \in AllValues
      BY GivenValues
    <2>3. gives \in [DOMAIN gives -> AllValues]
      BY <2>1, <2>2
    <2> QED
      BY <2>1, <2>3 DEF Gives
  <1>3. ASSUME NEW ks \in SUBSET Keys PROVE [k \in ks |-> None] \in Gives
    <2>1. [k \in ks |-> None] \in [ks -> AllValues]
      BY GivenValues
    <2> QED
      BY <2>1 DEF Gives
  <1> QED
    BY <1>1, <1>2, <1>3

(* Every command keeps the invariant.                                       *)
LEMMA CommandsKeep ==
    ASSUME StoreInv, NEW p \in Insts,
           Commands(p, Keys, ValuesOf[PinKey], Presets)
    PROVE  StoreInv'
  <1>1. conf[p] \in Stores
    BY DEF StoreInv, StoreTypeOK
  <1>2. ASSUME Ready(p) PROVE ~UnderWay(p) /\ conf[p].up
    BY <1>2 DEF Ready, UnderWay, Up
  <1>3. ASSUME NEW k \in Keys, NEW v \in ValuesOf[k], Set(p, k, v) PROVE StoreInv'
    <2>1. /\ Only(k, v) \in Gives /\ DOMAIN Only(k, v) = {k} /\ k # PinKey
          /\ Ready(p) /\ Change(p, conf[p], Only(k, v), "config")
      BY <1>3, GivesAre, KeyParts DEF Set
    <2> DEFINE gives == Only(k, v)
    <2>2. gives \in Gives /\ \A x \in DOMAIN gives : x # PinKey
      BY <2>1
    <2> HIDE DEF gives
    <2>3. Change(p, conf[p], gives, "config")
      BY <2>1 DEF gives
    <2> QED
      BY <1>1, <1>2, <2>1, <2>2, <2>3, ChangeKeeps
  <1>4. ASSUME NEW k \in Keys, NEW v \in ValuesOf[k], Knob(p, k, v) PROVE StoreInv'
    <2>1. /\ Only(k, v) \in Gives /\ DOMAIN Only(k, v) = {k} /\ k # PinKey
          /\ Ready(p)
          /\ Change(p, conf[p], Only(k, v), "config") \/ Refuse(p, Only(k, v))
      BY <1>4, GivesAre DEF Knob
    <2> DEFINE gives == Only(k, v)
    <2>2. gives \in Gives /\ \A x \in DOMAIN gives : x # PinKey
      BY <2>1
    <2> HIDE DEF gives
    <2>3. Change(p, conf[p], gives, "config") \/ Refuse(p, gives)
      BY <2>1 DEF gives
    <2>4. CASE Change(p, conf[p], gives, "config")
      BY <1>1, <1>2, <2>1, <2>2, <2>4, ChangeKeeps
    <2>5. CASE Refuse(p, gives)
      BY <2>5, RefuseKeeps
    <2> QED
      BY <2>3, <2>4, <2>5
  <1>5. ASSUME NEW v \in ValuesOf[PinKey], SetModel(p, v) PROVE StoreInv'
    <2>1. /\ Only(PinKey, v) \in Gives /\ DOMAIN Only(PinKey, v) = {PinKey}
          /\ Ready(p) /\ Change(p, conf[p], Only(PinKey, v), "model")
      BY <1>5, GivesAre, KeyParts DEF SetModel
    <2> DEFINE gives == Only(PinKey, v)
    <2>2. gives \in Gives /\ DOMAIN gives = {PinKey} /\ Change(p, conf[p], gives, "model")
      BY <2>1
    <2> HIDE DEF gives
    <2> QED
      BY <1>1, <1>2, <2>1, <2>2, ChangeKeeps
  <1>6. ASSUME NEW gives \in Presets, Preset(p, gives) PROVE StoreInv'
    <2>1. /\ gives \in Gives /\ \A x \in DOMAIN gives : x # PinKey
          /\ Ready(p)
          /\ Change(p, conf[p], gives, "config") \/ Refuse(p, gives)
      BY <1>6, GivesAre DEF Preset
    <2>2. CASE Change(p, conf[p], gives, "config")
      BY <1>1, <1>2, <2>1, <2>2, ChangeKeeps
    <2>3. CASE Refuse(p, gives)
      BY <2>3, RefuseKeeps
    <2> QED
      BY <2>1, <2>2, <2>3
  <1>7. ASSUME NEW ks \in SUBSET Keys, Reset(p, ks) PROVE StoreInv'
    <2> DEFINE gives == [k \in ks |-> None]
               c == Cleared(conf[p], ks)
    <2>1. gives \in Gives /\ \A x \in DOMAIN gives : gives[x] # None => x # PinKey
      BY GivesAre
    <2>2. c \in Stores /\ c.up = conf[p].up
      BY <1>1, ClearedType
    <2>3. Ready(p) /\ Change(p, c, gives, "config")
      BY <1>7 DEF Reset
    <2> HIDE DEF gives, c
    <2> QED
      BY <1>2, <2>1, <2>2, <2>3, ChangeKeeps
  <1>8. \A k \in Keys : {k} \in SUBSET Keys
    OBVIOUS
  <1>9. Keys \in SUBSET Keys
    OBVIOUS
  <1> QED
    BY <1>3, <1>4, <1>5, <1>6, <1>7, <1>8, <1>9 DEF Commands

-----------------------------------------------------------------------------
(* The steps of a save. *)

(* Whoever else is saving goes on with what it had.                         *)
LEMMA OthersGoOn ==
    ASSUME StoreInv, NEW p \in Insts, drafts' = drafts,
           \A q \in Insts : q # p => conf'[q] = conf[q] /\ save'[q] = save[q],
           UnderWay(p)' => Faithful(save[p], conf[p])'
    PROVE  \A q \in Insts : UnderWay(q)' => Faithful(save[q], conf[q])'
  <1> SUFFICES ASSUME NEW q \in Insts, UnderWay(q)', q # p
               PROVE  Faithful(save[q], conf[q])'
    OBVIOUS
  <1>1. save'[q] = save[q] /\ conf'[q] = conf[q]
    OBVIOUS
  <1>2. Faithful(save[q], conf[q])
    BY <1>1 DEF StoreInv, UnderWay
  <1> QED
    BY <1>1, <1>2 DEF Faithful

(* Where p is the only one to save, nobody else is.                         *)
LEMMA AloneSaves ==
    ASSUME StoreInv, ~raced, NEW p \in Insts, UnderWay(p)
    PROVE  /\ \A q \in Insts : q # p => ~UnderWay(q)
           /\ OnTmp(save[p]) /\ mirror = None /\ ShadowWhole
  BY DEF StoreInv, Undisturbed

(* A save that fails ends, with the layer as it is.                         *)
LEMMA FailKeeps ==
    ASSUME StoreInv, NEW p \in Insts, UnderWay(p), Fail(p),
           node' \in [Nodes -> Seq(Assignments)],
           disk' = disk \/ disk' = [disk EXCEPT !.tmp = 0],
           ~raced => \A n \in Nodes : n # disk.tmp => node'[n] = node[n]
    PROVE  StoreInv'
  <1>1. StoreTypeOK
    BY DEF StoreInv
  <1>2. /\ save' = [save EXCEPT ![p] = Idle] /\ DOMAIN told' = DOMAIN told
        /\ UNCHANGED <<conf, drafts, mirror, raced>>
    BY DEF Fail, Tell, history
  <1>3. StoreTypeOK'
    <2>1. disk' \in [shadow : {0} \cup Nodes, tmp : {0} \cup Nodes]
      BY <1>1 DEF StoreTypeOK
    <2>2. save' \in [Insts -> {Idle} \cup Saves]
      BY <1>1, <1>2 DEF StoreTypeOK
    <2> QED
      BY <1>1, <1>2, <2>1, <2>2 DEF StoreTypeOK
  <1>4. \A q \in Insts : q # p => conf'[q] = conf[q] /\ save'[q] = save[q]
    BY <1>1, <1>2 DEF StoreTypeOK
  <1>5. ~UnderWay(p)'
    BY <1>1, <1>2 DEF StoreTypeOK, UnderWay, Idle
  <1>6. \A q \in Insts : UnderWay(q)' => Faithful(save[q], conf[q])'
    BY <1>2, <1>4, <1>5, OthersGoOn
  <1>7. /\ disk' \in [shadow : {0} \cup Nodes, tmp : {0} \cup Nodes]
        /\ disk'.shadow = disk.shadow /\ (disk'.tmp # 0 => disk'.tmp = disk.tmp)
    BY <1>1, <1>3 DEF StoreTypeOK
  <1>8. disk'.tmp # 0 => disk'.tmp # disk'.shadow
    BY <1>7 DEF StoreInv
  <1>9. raced' \/ Undisturbed'
    <2> SUFFICES ASSUME ~raced PROVE Undisturbed'
      BY <1>2
    <2>1. /\ \A q \in Insts : q # p => ~UnderWay(q)
          /\ OnTmp(save[p]) /\ mirror = None /\ ShadowWhole
      BY AloneSaves
    <2>2. \A q \in Insts : ~UnderWay(q)'
      BY <1>4, <1>5, <2>1 DEF UnderWay
    <2>3. ShadowWhole'
      <3>1. disk.shadow \in {0} \cup Nodes
        BY <1>1 DEF StoreTypeOK
      <3>2. disk.shadow # 0 => disk.shadow # disk.tmp
        BY DEF StoreInv
      <3>3. disk.shadow # 0 => node'[disk.shadow] = node[disk.shadow]
        BY <3>1, <3>2
      <3> QED
        BY <1>2, <1>7, <2>1, <3>3 DEF ShadowWhole
    <2> QED
      BY <1>2, <2>1, <2>2, <2>3 DEF Undisturbed
  <1> QED
    BY <1>3, <1>6, <1>8, <1>9 DEF StoreInv

(* A save that succeeds ends with what the layer means under the name.      *)
LEMMA FinishKeeps ==
    ASSUME StoreInv, NEW p \in Insts, UnderWay(p), Finish(p), UNCHANGED node,
           disk' = [disk EXCEPT !.shadow = 0] \/ disk' = [shadow |-> disk.tmp, tmp |-> 0],
           ~raced => ShadowLines' = save[p].text /\ (disk'.shadow # 0 => save[p].text # <<>>)
    PROVE  StoreInv'
  <1>1. StoreTypeOK /\ save[p] \in Saves
    BY SavesAre DEF StoreInv
  <1> DEFINE gives == save[p].gives
             c == Cleared(conf[p], DOMAIN gives)
  <1>2. /\ conf' = [conf EXCEPT ![p] = c] /\ save' = [save EXCEPT ![p] = Idle]
        /\ mirror' = p /\ UNCHANGED <<drafts, raced>> /\ DOMAIN told' = DOMAIN told
    BY DEF Finish, Tell
  <1>3. c \in Stores /\ c.up = conf[p].up /\ c.shadow = conf[p].shadow
    <2>1. conf[p] \in Stores
      BY <1>1 DEF StoreTypeOK
    <2> QED
      BY <2>1, ClearedType
  <1> HIDE DEF c
  <1>4. disk' \in [shadow : {0} \cup Nodes, tmp : {0} \cup Nodes]
    BY <1>1 DEF StoreTypeOK
  <1>5. StoreTypeOK'
    BY <1>1, <1>2, <1>3, <1>4 DEF StoreTypeOK
  <1>6. /\ \A q \in Insts : q # p => conf'[q] = conf[q] /\ save'[q] = save[q]
        /\ conf'[p] = c /\ save'[p] = Idle
    BY <1>1, <1>2 DEF StoreTypeOK
  <1>7. ~UnderWay(p)'
    BY <1>6 DEF UnderWay, Idle
  <1>8. \A q \in Insts : UnderWay(q)' => Faithful(save[q], conf[q])'
    BY <1>2, <1>6, <1>7, OthersGoOn
  <1>9. disk'.tmp # 0 => disk'.tmp # disk'.shadow
    <2>1. disk \in [shadow : {0} \cup Nodes, tmp : {0} \cup Nodes]
      BY <1>1 DEF StoreTypeOK
    <2> QED
      BY <2>1
  <1>10. raced' \/ Undisturbed'
    <2> SUFFICES ASSUME ~raced PROVE Undisturbed'
      BY <1>2
    <2>1. /\ \A q \in Insts : q # p => ~UnderWay(q)
          /\ OnTmp(save[p]) /\ mirror = None /\ ShadowWhole
      BY AloneSaves
    <2>2. \A q \in Insts : ~UnderWay(q)'
      BY <1>6, <1>7, <2>1 DEF UnderWay
    <2>3. conf[p].up /\ save[p].text = Render(conf[p].shadow) /\ save[p].text \in drafts
      BY DEF StoreInv, Faithful
    <2>4. ShadowWhole'
      <3>1. disk'.shadow # 0 => node'[disk'.shadow] = save[p].text
        BY DEF ShadowLines
      <3> QED
        BY <1>2, <2>3, <3>1 DEF ShadowWhole
    <2>5. Up(p)' /\ ShadowLines' = Render(conf'[p].shadow)
      BY <1>3, <1>6, <2>3 DEF Up
    <2> QED
      BY <1>2, <2>2, <2>4, <2>5 DEF Undisturbed
  <1> QED
    BY <1>5, <1>8, <1>9, <1>10 DEF StoreInv

(* The file is made under the other name.                                   *)
LEMMA SaveOpensKeeps ==
    ASSUME StoreInv, NEW p \in Insts, SaveOpens(p)
    PROVE  StoreInv'
  <1> DEFINE n == IF disk.tmp # 0 THEN disk.tmp ELSE FreeNode
             s == [[save[p] EXCEPT !.at = "write"] EXCEPT !.fd = n]
  <1>1. /\ save[p].at = "open" /\ disk' = [disk EXCEPT !.tmp = n]
        /\ node' = [node EXCEPT ![n] = <<>>]
        /\ UNCHANGED <<conf, told, drafts, mirror, raced>>
    BY DEF SaveOpens, history
  <1>2. StoreTypeOK /\ UnderWay(p)
    BY <1>1 DEF StoreInv, UnderWay
  <1>3. save[p] \in Saves
    BY <1>2, SavesAre
  <1>4. n \in Nodes /\ n # disk.shadow /\ n # 0
    <2>1. disk.tmp \in {0} \cup Nodes /\ 0 \notin Nodes
      BY <1>2 DEF StoreTypeOK, Nodes
    <2>2. CASE disk.tmp # 0
      BY <2>1, <2>2 DEF StoreInv
    <2>3. CASE disk.tmp = 0
      BY <1>2, <2>1, <2>3, FreeNodeIs
    <2> QED
      BY <2>2, <2>3
  <1> HIDE DEF n
  <1>5. /\ s \in Saves /\ s.at = "write" /\ s.fd = n /\ s.text = save[p].text
        /\ s.gives = save[p].gives /\ s.by = save[p].by
    BY <1>3, <1>4 DEF Saves
  <1>6. save' = [save EXCEPT ![p] = s]
    <2>1. save' = [save EXCEPT ![p].at = "write", ![p].fd = n]
      BY DEF SaveOpens, n
    <2> QED
      BY <1>2, <2>1 DEF StoreTypeOK
  <1> HIDE DEF s
  <1>7. StoreTypeOK'
    <2>1. disk' \in [shadow : {0} \cup Nodes, tmp : {0} \cup Nodes]
      BY <1>1, <1>2, <1>4 DEF StoreTypeOK
    <2>2. node' \in [Nodes -> Seq(Assignments)]
      <3>1. <<>> \in Seq(Assignments) /\ node \in [Nodes -> Seq(Assignments)]
        BY <1>2 DEF StoreTypeOK
      <3> QED
        BY <1>1, <3>1
    <2>3. save' \in [Insts -> {Idle} \cup Saves]
      BY <1>2, <1>5, <1>6 DEF StoreTypeOK
    <2> QED
      BY <1>1, <1>2, <2>1, <2>2, <2>3 DEF StoreTypeOK
  <1>8. /\ \A q \in Insts : q # p => conf'[q] = conf[q] /\ save'[q] = save[q]
        /\ save'[p] = s /\ conf'[p] = conf[p]
    BY <1>1, <1>2, <1>6 DEF StoreTypeOK
  <1>9. Faithful(save[p], conf[p])'
    <2>1. Faithful(save[p], conf[p])
      BY <1>2 DEF StoreInv
    <2>2. /\ save'[p].text = save[p].text /\ save'[p].gives = save[p].gives
          /\ save'[p].by = save[p].by /\ conf'[p] = conf[p]
          /\ save[p].at # "remove" /\ save'[p].at # "remove" /\ drafts' = drafts
      BY <1>1, <1>5, <1>8
    <2> QED
      BY <2>1, <2>2 DEF Faithful
  <1>10. \A q \in Insts : UnderWay(q)' => Faithful(save[q], conf[q])'
    BY <1>1, <1>8, <1>9, OthersGoOn
  <1>11. disk'.tmp = n /\ disk'.shadow = disk.shadow /\ node'[n] = <<>>
         /\ \A m \in Nodes : m # n => node'[m] = node[m]
    BY <1>1, <1>2, <1>4 DEF StoreTypeOK
  <1>12. raced' \/ Undisturbed'
    <2> SUFFICES ASSUME ~raced PROVE Undisturbed'
      BY <1>1
    <2>1. /\ \A q \in Insts : q # p => ~UnderWay(q)
          /\ OnTmp(save[p]) /\ mirror = None /\ ShadowWhole
      BY <1>2, AloneSaves
    <2>2. \A q \in Insts : UnderWay(q)' => q = p
      BY <1>8, <2>1 DEF UnderWay
    <2>3. OnTmp(save[p])'
      BY <1>4, <1>5, <1>8, <1>11 DEF OnTmp
    <2>4. ShadowWhole'
      <3>1. disk.shadow \in {0} \cup Nodes
        BY <1>2 DEF StoreTypeOK
      <3> QED
        BY <1>1, <1>4, <1>11, <2>1, <3>1 DEF ShadowWhole
    <2> QED
      BY <1>1, <2>1, <2>2, <2>3, <2>4 DEF Undisturbed
  <1> QED
    BY <1>4, <1>7, <1>10, <1>11, <1>12 DEF StoreInv

(* The file is written.                                                     *)
LEMMA SaveWritesKeeps ==
    ASSUME StoreInv, NEW p \in Insts, SaveWrites(p)
    PROVE  StoreInv'
  <1> DEFINE n == save[p].fd
             text == save[p].text
             lines == text \o SubSeq(node[n], Len(text) + 1, Len(node[n]))
             s == [save[p] EXCEPT !.at = "rename"]
  <1>1. /\ save[p].at = "write" /\ node' = [node EXCEPT ![n] = lines]
        /\ save' = [save EXCEPT ![p].at = "rename"]
        /\ UNCHANGED <<conf, disk, told, drafts, mirror, raced>>
    BY DEF SaveWrites, history
  <1>2. StoreTypeOK /\ UnderWay(p)
    BY <1>1 DEF StoreInv, UnderWay
  <1>3. save[p] \in Saves
    BY <1>2, SavesAre
  <1>4. /\ s \in Saves /\ s.at = "rename" /\ s.fd = n /\ s.text = text
        /\ s.gives = save[p].gives /\ s.by = save[p].by
        /\ text \in Seq(Assignments) /\ n \in {0} \cup Nodes
    BY <1>3 DEF Saves
  <1>5. save' = [save EXCEPT ![p] = s]
    BY <1>1, <1>2 DEF StoreTypeOK
  <1>6. ASSUME n \in Nodes PROVE lines \in Seq(Assignments)
    <2> DEFINE old == node[n]
    <2>1. old \in Seq(Assignments) /\ text \in Seq(Assignments)
      BY <1>2, <1>4, <1>6 DEF StoreTypeOK
    <2> HIDE DEF old, text
    <2>2. Len(old) \in Nat /\ Len(text) \in Nat
      BY <2>1
    <2>3. SubSeq(old, Len(text) + 1, Len(old)) \in Seq(Assignments)
      BY <2>1, <2>2
    <2>4. text \o SubSeq(old, Len(text) + 1, Len(old)) \in Seq(Assignments)
      BY <2>1, <2>3
    <2> QED
      BY <2>4 DEF old, text
  <1>7. ASSUME n \in Nodes, node[n] = <<>> PROVE lines = text
    <2> HIDE DEF text
    <2>1. text \in Seq(Assignments) /\ Len(text) \in Nat /\ Len(<<>>) = 0
      BY <1>4
    <2>2. SubSeq(<<>>, Len(text) + 1, 0) = <<>>
      BY <2>1
    <2> QED
      BY <1>7, <2>1, <2>2
  <1> HIDE DEF s, n, lines
  <1>8. StoreTypeOK'
    <2>1. node' \in [Nodes -> Seq(Assignments)]
      BY <1>1, <1>2, <1>6 DEF StoreTypeOK
    <2>2. save' \in [Insts -> {Idle} \cup Saves]
      BY <1>2, <1>4, <1>5 DEF StoreTypeOK
    <2> QED
      BY <1>1, <1>2, <2>1, <2>2 DEF StoreTypeOK
  <1>9. /\ \A q \in Insts : q # p => conf'[q] = conf[q] /\ save'[q] = save[q]
        /\ save'[p] = s /\ conf'[p] = conf[p]
    BY <1>1, <1>2, <1>5 DEF StoreTypeOK
  <1>10. Faithful(save[p], conf[p])'
    <2>1. Faithful(save[p], conf[p])
      BY <1>2 DEF StoreInv
    <2> QED
      BY <1>1, <1>4, <1>9, <2>1 DEF Faithful
  <1>11. \A q \in Insts : UnderWay(q)' => Faithful(save[q], conf[q])'
    BY <1>1, <1>9, <1>10, OthersGoOn
  <1>12. raced' \/ Undisturbed'
    <2> SUFFICES ASSUME ~raced PROVE Undisturbed'
      BY <1>1
    <2>1. /\ \A q \in Insts : q # p => ~UnderWay(q)
          /\ OnTmp(save[p]) /\ mirror = None /\ ShadowWhole
      BY <1>2, AloneSaves
    <2>2. \A q \in Insts : UnderWay(q)' => q = p
      BY <1>9, <2>1 DEF UnderWay
    <2>3. n = disk.tmp /\ n # 0 /\ n \in Nodes /\ node[n] = <<>>
      BY <1>1, <1>4, <2>1 DEF OnTmp, n
    <2>4. node'[n] = text /\ \A m \in Nodes : m # n => node'[m] = node[m]
      BY <1>1, <1>2, <1>7, <2>3 DEF StoreTypeOK
    <2>5. OnTmp(save[p])'
      BY <1>1, <1>4, <1>9, <2>3, <2>4 DEF OnTmp
    <2>6. ShadowWhole'
      <3>1. disk.shadow \in {0} \cup Nodes /\ n # disk.shadow
        BY <1>2, <2>3 DEF StoreInv, StoreTypeOK
      <3> QED
        BY <1>1, <2>1, <2>4, <3>1 DEF ShadowWhole
    <2> QED
      BY <1>1, <2>1, <2>2, <2>5, <2>6 DEF Undisturbed
  <1> QED
    BY <1>1, <1>8, <1>11, <1>12 DEF StoreInv

(* Every step of a save keeps the invariant.                                *)
LEMMA SavingKeeps ==
    ASSUME StoreInv, NEW p \in Insts, Saving(p)
    PROVE  StoreInv'
  <1>1. StoreTypeOK
    BY DEF StoreInv
  <1>2. UnderWay(p)
    BY DEF Saving, SaveRemoves, SaveOpens, SaveCannotOpen, SaveWrites, SaveCannotWrite,
           SaveRenames, UnderWay
  <1>3. save[p] \in Saves /\ Faithful(save[p], conf[p])
    BY <1>1, <1>2, SavesAre DEF StoreInv
  <1>4. node \in [Nodes -> Seq(Assignments)]
    BY <1>1 DEF StoreTypeOK
  <1>5. CASE SaveRemoves(p)
    <2>1. /\ save[p].at = "remove" /\ disk' = [disk EXCEPT !.shadow = 0]
          /\ Finish(p) /\ UNCHANGED node
      BY <1>5 DEF SaveRemoves
    <2>2. disk'.shadow = 0
      BY <1>1, <2>1 DEF StoreTypeOK
    <2>3. ShadowLines' = save[p].text
      BY <1>3, <2>1, <2>2 DEF Faithful, ShadowLines
    <2> QED
      BY <1>2, <2>1, <2>2, <2>3, FinishKeeps
  <1>6. CASE SaveOpens(p)
    BY <1>6, SaveOpensKeeps
  <1>7. CASE SaveCannotOpen(p)
    <2>1. Fail(p) /\ node' = node /\ disk' = disk
      BY <1>7 DEF SaveCannotOpen
    <2> QED
      BY <1>2, <1>4, <2>1, FailKeeps
  <1>8. CASE SaveWrites(p)
    BY <1>8, SaveWritesKeeps
  <1>9. CASE SaveCannotWrite(p)
    <2> DEFINE n == save[p].fd
               text == save[p].text
               old == node[n]
    <2>1. PICK i \in 0 .. Len(text) - 1 :
             node' = [node EXCEPT ![n] = SubSeq(text, 1, i) \o SubSeq(old, i + 1, Len(old))]
      BY <1>9 DEF SaveCannotWrite
    <2>2. save[p].at = "write" /\ disk' = [disk EXCEPT !.tmp = 0] /\ Fail(p)
      BY <1>9 DEF SaveCannotWrite
    <2>3. ASSUME n \in Nodes
          PROVE  SubSeq(text, 1, i) \o SubSeq(old, i + 1, Len(old)) \in Seq(Assignments)
      <3>1. old \in Seq(Assignments) /\ text \in Seq(Assignments)
        BY <1>3, <1>4, <2>3 DEF Saves
      <3> HIDE DEF old, text
      <3>2. Len(old) \in Nat /\ Len(text) \in Nat /\ i \in Nat /\ i <= Len(text)
        BY <3>1
      <3>3. SubSeq(old, i + 1, Len(old)) \in Seq(Assignments)
        BY <3>1, <3>2
      <3>4. SubSeq(text, 1, i) \in Seq(Assignments)
        BY <3>1, <3>2
      <3> QED
        BY <3>3, <3>4
    <2> HIDE DEF text, old
    <2>4. node' \in [Nodes -> Seq(Assignments)] /\ \A m \in Nodes : m # n => node'[m] = node[m]
      BY <1>4, <2>1, <2>3
    <2>5. ~raced => n = disk.tmp
      <3>1. ~raced => OnTmp(save[p])
        BY <1>2 DEF StoreInv, Undisturbed
      <3> QED
        BY <2>2, <3>1 DEF OnTmp
    <2> HIDE DEF n
    <2>6. ~raced => \A m \in Nodes : m # disk.tmp => node'[m] = node[m]
      BY <2>4, <2>5
    <2> QED
      BY <1>2, <2>2, <2>4, <2>6, FailKeeps
  <1>10. CASE SaveRenames(p)
    <2>1. save[p].at = "rename" /\ node' = node
      BY <1>10 DEF SaveRenames
    <2>2. CASE disk.tmp # 0
      <3>1. disk' = [shadow |-> disk.tmp, tmp |-> 0] /\ Finish(p)
        BY <1>10, <2>2 DEF SaveRenames
      <3>2. ~raced => ShadowLines' = save[p].text /\ save[p].text # <<>>
        <4> SUFFICES ASSUME ~raced PROVE ShadowLines' = save[p].text /\ save[p].text # <<>>
          OBVIOUS
        <4>1. OnTmp(save[p])
          BY <1>2 DEF StoreInv, Undisturbed
        <4>2. node[disk.tmp] = save[p].text
          BY <2>1, <4>1 DEF OnTmp
        <4>3. save[p].text # <<>>
          BY <1>3, <2>1 DEF Faithful
        <4>4. disk'.shadow = disk.tmp
          BY <3>1
        <4> QED
          BY <2>1, <2>2, <4>2, <4>3, <4>4 DEF ShadowLines
      <3> QED
        BY <1>2, <2>1, <3>1, <3>2, FinishKeeps
    <2>3. CASE disk.tmp = 0
      <3>1. Fail(p) /\ disk' = disk
        BY <1>10, <2>3 DEF SaveRenames
      <3> QED
        BY <1>2, <1>4, <2>1, <3>1, FailKeeps
    <2> QED
      BY <2>2, <2>3
  <1> QED
    BY <1>5, <1>6, <1>7, <1>8, <1>9, <1>10 DEF Saving

-----------------------------------------------------------------------------
(* The search beside the store. *)

(* A search touches the runtime layer of its instance, and that only at the *)
(* key that switches searching.                                             *)
LEMMA SearchTouches ==
    ASSUME StoreTypeOK, SearchNext
    PROVE  /\ UNCHANGED <<save, disk, node, told, writes, history>>
           /\ \E e \in Stores : /\ conf' = [conf EXCEPT ![Me] = e]
                                /\ e.shadow = conf[Me].shadow /\ e.up = conf[Me].up
  <1>1. UNCHANGED <<save, disk, node, told, writes, history>>
    BY DEF SearchNext
  <1> DEFINE c == conf[Me]
             latched == [c EXCEPT !.runtime[EnabledKey] = "off"]
             dropped == [c EXCEPT !.runtime[EnabledKey] = None]
  <1>2. Me \in Insts /\ EnabledKey \in Keys /\ c \in Stores
    BY WebSearchAssumption DEF StoreTypeOK, Keys
  <1>3. conf = [conf EXCEPT ![Me] = c]
    BY <1>2 DEF StoreTypeOK
  <1> DEFINE Like(e) == e \in Stores /\ e.shadow = c.shadow /\ e.up = c.up
  <1>4. ASSUME NEW e, Like(e)
        PROVE  /\ Like([e EXCEPT !.runtime[EnabledKey] = "off"])
               /\ Like([e EXCEPT !.runtime[EnabledKey] = None])
    <2> HIDE DEF c
    <2>1. e \in Stores
      BY <1>4
    <2>2. [e EXCEPT !.runtime[EnabledKey] = "off"] \in Stores
      BY <1>2, <2>1, BlankStore DEF Stores
    <2>3. [e EXCEPT !.runtime[EnabledKey] = None] \in Stores
      BY <1>2, <2>1, BlankStore DEF Stores
    <2> QED
      BY <1>4, <2>2, <2>3 DEF Stores
  <1>5. Like(c)
    BY <1>2
  <1>6. Like(NoteEndpoint(c)) /\ \A e : Like(e) => Like(MarkUnreachable(e))
    BY <1>4, <1>5 DEF NoteEndpoint, MarkUnreachable
  <1> HIDE DEF c, Like
  <1>7. \E e : Like(e) /\ conf' = [conf EXCEPT ![Me] = e]
    <2>1. CASE conf' = conf
      BY <1>3, <1>5, <2>1
    <2>2. CASE SearchStep /\ conf' # conf
      <3>1. \/ Unreachable(c) \/ GivenUp(c, "memory")
            \/ \E how \in {"status", "results"} : Answered(c, how)
        BY <2>2 DEF SearchStep, c
      <3> QED
        BY <1>5, <1>6, <3>1 DEF Unreachable, GivenUp, Answered
    <2>3. CASE SearchBegin /\ conf' # conf
      <3>1. SearchOpens(NoteEndpoint(c))
        BY <2>3 DEF SearchBegin, c
      <3> QED
        BY <1>6, <3>1 DEF SearchOpens, GivenUp, Unreachable
    <2> QED
      BY <2>1, <2>2, <2>3 DEF SearchNext, SearchCancel, SearchTick
  <1> QED
    BY <1>1, <1>7 DEF Like, c

(* The step of a search keeps the invariant of the store.                   *)
LEMMA SearchKeepsStore ==
    ASSUME StoreInv, SearchNext
    PROVE  StoreInv'
  <1>1. StoreTypeOK
    BY DEF StoreInv
  <1>2. PICK e \in Stores : /\ conf' = [conf EXCEPT ![Me] = e]
                            /\ e.shadow = conf[Me].shadow /\ e.up = conf[Me].up
    BY <1>1, SearchTouches
  <1>3. /\ UNCHANGED <<save, disk, node, drafts, mirror, raced>> /\ DOMAIN told' = DOMAIN told
    BY <1>1, SearchTouches DEF history
  <1>4. StoreTypeOK'
    BY <1>1, <1>2, <1>3 DEF StoreTypeOK
  <1>5. \A q \in Insts : conf'[q].shadow = conf[q].shadow /\ conf'[q].up = conf[q].up
    BY <1>1, <1>2 DEF StoreTypeOK
  <1>6. \A q \in Insts : UnderWay(q)' => Faithful(save[q], conf[q])'
    <2> SUFFICES ASSUME NEW q \in Insts, UnderWay(q)' PROVE Faithful(save[q], conf[q])'
      OBVIOUS
    <2>1. Faithful(save[q], conf[q]) /\ save'[q] = save[q] /\ drafts' = drafts
      BY <1>3 DEF StoreInv, UnderWay
    <2>2. conf'[q].shadow = conf[q].shadow /\ conf'[q].up = conf[q].up
      BY <1>5
    <2> QED
      BY <2>1, <2>2 DEF Faithful
  <1>7. raced' \/ Undisturbed'
    <2> SUFFICES ASSUME ~raced PROVE Undisturbed'
      BY <1>3
    <2>1. Undisturbed /\ mirror \in Insts \cup {None}
      BY <1>1 DEF StoreInv, StoreTypeOK
    <2>2. ShadowWhole' /\ ShadowLines' = ShadowLines
      BY <1>3, <2>1 DEF Undisturbed, ShadowWhole, ShadowLines
    <2>3. mirror' # None => Up(mirror)' /\ ShadowLines' = Render(conf[mirror].shadow)'
      BY <1>3, <1>5, <2>1, <2>2 DEF Undisturbed, Up
    <2>4. \A q \in Insts : UnderWay(q)' => OnTmp(save[q])' /\ mirror' = None
      BY <1>3, <2>1 DEF Undisturbed, OnTmp, UnderWay
    <2>5. \A q, r \in Insts : UnderWay(q)' /\ UnderWay(r)' => q = r
      BY <1>3, <2>1 DEF Undisturbed, UnderWay
    <2> QED
      BY <2>2, <2>3, <2>4, <2>5 DEF Undisturbed
  <1> QED
    BY <1>3, <1>4, <1>6, <1>7 DEF StoreInv

(* Every step of the store and of the search on it.                         *)
LocalStoreNext == StoreNext(Insts, Keys, ValuesOf[PinKey], Presets) \/ SearchNext

(* Every step keeps the invariant of the store.                             *)
LEMMA StoreInvNext ==
    StoreInv /\ [LocalStoreNext]_<<settings, web>> => StoreInv'
  <1> SUFFICES ASSUME StoreInv, [LocalStoreNext]_<<settings, web>> PROVE StoreInv'
    OBVIOUS
  <1>1. CASE StoreNext(Insts, Keys, ValuesOf[PinKey], Presets)
    <2>1. \E p \in Insts :
             Start(p) \/ Saving(p) \/ Commands(p, Keys, ValuesOf[PinKey], Presets) \/ Stop(p)
      BY <1>1 DEF StoreNext
    <2> QED
      BY <2>1, StartKeeps, SavingKeeps, CommandsKeep, StopKeeps
  <1>2. CASE SearchNext
    BY <1>2, SearchKeepsStore
  <1>3. CASE UNCHANGED <<settings, web>>
    <2>1. UNCHANGED <<conf, save, disk, node, told, drafts, mirror, raced>>
      BY <1>3 DEF settings
    <2>2. StoreTypeOK' /\ (Undisturbed => Undisturbed')
      BY <2>1 DEF StoreInv, StoreTypeOK, Undisturbed, UnderWay, OnTmp, ShadowWhole,
                  ShadowLines, Up
    <2> QED
      BY <2>1, <2>2 DEF StoreInv, Faithful, UnderWay
  <1> QED
    BY <1>1, <1>2, <1>3 DEF LocalStoreNext

(* The configuration store keeps its invariant: whoever starts, types,      *)
(* saves, is killed or searches.                                            *)
THEOREM StoreInvariant == SearchSpec => []StoreInv
  <1>1. SettingsInit /\ WebInit => StoreInv
    BY StoreInvInit
  <1>2. StoreInv /\ [LocalStoreNext]_<<settings, web>> => StoreInv'
    BY StoreInvNext
  <1> QED
    BY <1>1, <1>2, PTL DEF SearchSpec, LocalStoreNext

(* The shadow file is whole, and a restart reads back what was saved        *)
(* (conf.c).                                                                *)
THEOREM StoreIsKept == SearchSpec => []StoreKept
  <1>1. ASSUME StoreInv PROVE StoreKept
    <2>1. ShadowWhole
      BY <1>1 DEF StoreInv, Undisturbed, ShadowWhole
    <2>2. ASSUME NEW p \in Insts, mirror = p, ~raced
          PROVE  LET c == Scanned([Blank EXCEPT !.user = conf[p].user], ShadowLines, "shadow")
                 IN \/ c.shadow = conf[p].shadow
                    \/ \E g \in Gated : /\ conf[p].shadow[g[1]] = g[2]
                                        /\ Resolve(c, CapKey) = None
      <3>1. ShadowLines = Render(conf[p].shadow)
        BY <1>1, <2>2, SettingsAssumption DEF StoreInv, Undisturbed
      <3>2. conf[p].shadow \in [Keys -> AllValues] /\ conf[p].user \in [Keys -> AllValues]
        BY <1>1 DEF StoreInv, StoreTypeOK, Stores
      <3> DEFINE L == conf[p].shadow
                 U == conf[p].user
      <3> HIDE DEF L, U
      <3>3. LET c == Scanned([Blank EXCEPT !.user = U], Render(L), "shadow")
            IN \/ c.shadow = L
               \/ \E g \in Gated : L[g[1]] = g[2] /\ Resolve(c, CapKey) = None
        BY <3>2, RestartReads DEF L, U
      <3> QED
        BY <3>1, <3>3 DEF L, U
    <2> QED
      BY <2>1, <2>2 DEF StoreKept, RestartKeeps
  <1>2. StoreInv => StoreKept
    BY <1>1
  <1> QED
    BY <1>2, StoreInvariant, PTL

-----------------------------------------------------------------------------
(* What a command is told. *)

(* A save that finishes, and names no layer that pins its keys, has set     *)
(* them.                                                                    *)
LEMMA FinishTellsTheTruth ==
    ASSUME StoreInv, NEW p \in Insts, UnderWay(p), Finish(p),
           told'[p].said = "saved", NEW k \in DOMAIN told'[p].gives,
           told'[p].gives[k] # None
    PROVE  ScopedFor(conf'[p], k) = told'[p].gives[k]
  <1> DEFINE gives == save[p].gives
             c == Cleared(conf[p], DOMAIN gives)
             by == save[p].by
  <1>1. StoreTypeOK /\ save[p] \in Saves /\ Faithful(save[p], conf[p]) /\ conf[p] \in Stores
    BY SavesAre DEF StoreInv, StoreTypeOK
  <1>2. /\ conf' = [conf EXCEPT ![p] = c]
        /\ told' = [told EXCEPT ![p] = [said |-> IF Pinned(c, by, gives) THEN "pinned" ELSE "saved",
                                        gives |-> gives]]
    BY DEF Finish, Tell
  <1>3. /\ conf'[p] = c
        /\ told'[p].gives = gives
        /\ told'[p].said = IF Pinned(c, by, gives) THEN "pinned" ELSE "saved"
    BY <1>1, <1>2 DEF StoreTypeOK
  <1>4. /\ c \in Stores /\ c.shadow = conf[p].shadow
        /\ \A x \in Keys : x \in DOMAIN gives => c.runtime[x] = None
    BY <1>1, ClearedType
  <1>5. DOMAIN gives \subseteq Keys /\ by \in {"config", "model"}
    BY <1>1 DEF Saves, Gives
  <1>6. /\ k \in DOMAIN gives /\ k \in Keys /\ gives[k] # None /\ ~Pinned(c, by, gives)
        /\ c.runtime[k] = None
    BY <1>3, <1>4, <1>5
  <1>7. c.shadow[k] = gives[k]
    BY <1>1, <1>4, <1>6 DEF Faithful
  <1>8. /\ by = "model" => k = PinKey
        /\ by = "config" => k # PinKey
    BY <1>1, <1>6 DEF Faithful
  <1> HIDE DEF c, gives, by
  <1>9. CASE by = "model"
    <2>1. c.pin = None
      BY <1>6, <1>9 DEF Pinned
    <2>2. ScopedFor(c, k) = Resolve(c, k)
      BY <2>1 DEF ScopedFor
    <2>3. k \in ScopedKeys
      BY <1>8, <1>9, KeyParts
    <2>4. Resolve(c, k) = c.shadow[k]
      BY <1>4, <1>6, <1>7, <2>3, ScopedShadowAnswers
    <2> QED
      BY <1>3, <1>7, <2>2, <2>4
  <1>10. CASE by = "config"
    <2>1. Source(c, k) \notin {"env", "cli"}
      BY <1>6, <1>10 DEF Pinned
    <2>2. ScopedFor(c, k) = Resolve(c, k)
      BY <1>8, <1>10 DEF ScopedFor
    <2>3. Resolve(c, k) = c.shadow[k]
      BY <1>4, <1>6, <1>7, <2>1, ShadowAnswers
    <2> QED
      BY <1>3, <1>7, <2>2, <2>3
  <1> QED
    BY <1>5, <1>9, <1>10

(* Only a finished save tells a command that its key is saved.              *)
LEMMA OnlyFinishSaves ==
    ASSUME StoreInv, [LocalStoreNext]_<<settings, web>>, NEW p \in Insts,
           told'[p] # told[p], told'[p].said = "saved"
    PROVE  UnderWay(p) /\ Finish(p)
  <1>1. DOMAIN told = Insts
    BY DEF StoreInv, StoreTypeOK
  <1>2. ASSUME NEW q \in Insts, NEW said, NEW gives, Tell(q, said, gives)
        PROVE  q = p /\ said = "saved"
    <2>1. told'[p] = IF q = p THEN [said |-> said, gives |-> gives] ELSE told[p]
      BY <1>1, <1>2 DEF Tell
    <2> QED
      BY <2>1
  <1>3. ASSUME NEW q \in Insts, told' = [told EXCEPT ![q] = Untold] PROVE FALSE
    <2>1. told'[p] = IF q = p THEN Untold ELSE told[p]
      BY <1>1, <1>3
    <2> QED
      BY <2>1 DEF Untold
  <1>4. told' # told
    OBVIOUS
  <1>5. PICK q \in Insts :
           \/ Start(q) \/ Stop(q) \/ Saving(q)
           \/ Commands(q, Keys, ValuesOf[PinKey], Presets)
    <2>1. ~SearchNext /\ ~UNCHANGED <<settings, web>>
      BY <1>4 DEF SearchNext, settings
    <2> QED
      BY <2>1 DEF LocalStoreNext, StoreNext
  <1>6. ~Start(q) /\ ~Stop(q)
    BY <1>3 DEF Start, Stop
  <1>7. ~Commands(q, Keys, ValuesOf[PinKey], Presets)
    <2>1. ASSUME NEW c, NEW gives, NEW by, Change(q, c, gives, by) PROVE FALSE
      BY <1>4, <2>1 DEF Change
    <2>2. ASSUME NEW gives, Refuse(q, gives) PROVE FALSE
      BY <1>2, <2>2 DEF Refuse
    <2> QED
      BY <2>1, <2>2 DEF Commands, Set, Knob, SetModel, Preset, Reset
  <1>8. Saving(q)
    BY <1>5, <1>6, <1>7
  <1>9. ~Fail(q)
    BY <1>2 DEF Fail
  <1>10. UnderWay(q) /\ Finish(q)
    BY <1>4, <1>8, <1>9 DEF Saving, SaveRemoves, SaveOpens, SaveCannotOpen, SaveWrites,
                            SaveCannotWrite, SaveRenames, UnderWay
  <1>11. q = p
    BY <1>2, <1>10 DEF Finish
  <1> QED
    BY <1>10, <1>11

(* A command that is told its key is set has set it (report_write).         *)
THEOREM CommandsAreToldTheTruth == SearchSpec => TellsTheTruth
  <1> DEFINE Truth ==
        \A p \in Insts :
         told'[p] # told[p] /\ told'[p].said = "saved" =>
            \A k \in DOMAIN told'[p].gives :
                LET v == told'[p].gives[k]
                IN v # None => ScopedFor(conf'[p], k) = v
  <1>1. ASSUME StoreInv, [LocalStoreNext]_<<settings, web>> PROVE Truth
    <2> SUFFICES ASSUME NEW p \in Insts, told'[p] # told[p], told'[p].said = "saved",
                        NEW k \in DOMAIN told'[p].gives, told'[p].gives[k] # None
                 PROVE  ScopedFor(conf'[p], k) = told'[p].gives[k]
      OBVIOUS
    <2>1. UnderWay(p) /\ Finish(p)
      BY <1>1, OnlyFinishSaves
    <2> QED
      BY <1>1, <2>1, FinishTellsTheTruth
  <1>2. StoreInv /\ [LocalStoreNext]_<<settings, web>> => [Truth]_settings
    BY <1>1
  <1> QED
    BY <1>2, StoreInvariant, PTL DEF SearchSpec, LocalStoreNext, TellsTheTruth

-----------------------------------------------------------------------------
(* The latch. *)

(* The runtime layer has a value of its own for the key that switches       *)
(* searching.                                                               *)
LEMMA RuntimeAfter ==
    ASSUME NEW c \in Stores
    PROVE  /\ MarkUnreachable(c).runtime[EnabledKey] = "off"
           /\ NoteEndpoint(c).runtime[EnabledKey] \in {c.runtime[EnabledKey], None}
  <1>1. EnabledKey \in Keys
    BY WebSearchAssumption DEF Keys
  <1> QED
    BY <1>1 DEF MarkUnreachable, NoteEndpoint, Stores

(* A search begins only where nothing is latched.                           *)
LEMMA EnabledIsUnlatched ==
    ASSUME StoreTypeOK, Enabled
    PROVE  conf[Me].runtime[EnabledKey] # "off"
  <1> DEFINE c == conf[Me]
             k == EnabledKey
             of  == IF k \in PlainKeys THEN 1 .. 5 ELSE 4 .. 5
             set == {i \in of : c[Layers[i]][k] # None}
  <1>1. k \in PlainKeys
    BY WebSearchAssumption
  <1>2. IF set = {} THEN Source(c, k) = "default"
        ELSE \E i \in set : Source(c, k) = Layers[i] /\ \A j \in set : i <= j
    BY SourceIs
  <1>3. SUFFICES ASSUME c.runtime[k] = "off" PROVE FALSE
    OBVIOUS
  <1>4. 1 \in set /\ \A i \in set : i >= 1
    BY <1>1, <1>3, LayerNames DEF None
  <1> HIDE DEF set
  <1>5. PICK i \in set : Source(c, k) = Layers[i] /\ i <= 1
    BY <1>2, <1>4
  <1>6. set \subseteq 1 .. 5
    BY <1>1 DEF set
  <1>7. i = 1
    BY <1>4, <1>5, <1>6
  <1>8. Resolve(c, k) = "off"
    BY <1>3, <1>5, <1>7, LayerNames DEF Resolve
  <1> QED
    BY <1>8 DEF Enabled, None

(* What the store's own steps do to that value: they leave it or drop it.   *)
LEMMA StoreStepsDrop ==
    ASSUME StoreInv, NEW p \in Insts,
           \/ Start(p) \/ Saving(p) \/ Stop(p)
           \/ Commands(p, Keys, ValuesOf[PinKey], Presets)
    PROVE  /\ conf'[Me].runtime[EnabledKey] \in {conf[Me].runtime[EnabledKey], None}
           /\ Stop(Me) => conf'[Me].runtime[EnabledKey] = None
  <1>1. /\ Me \in Insts /\ EnabledKey \in Keys /\ StoreTypeOK
        /\ \A q \in Insts : conf[q] \in Stores
        /\ conf \in [Insts -> Stores]
    BY WebSearchAssumption DEF Keys, StoreInv, StoreTypeOK
  <1> DEFINE Drops(e, q) == \A k \in Keys : e.runtime[k] \in {conf[q].runtime[k], None}
  <1>2. ASSUME NEW e, NEW q \in Insts, conf' = [conf EXCEPT ![q] = e], Drops(e, q)
        PROVE  conf'[Me].runtime[EnabledKey] \in {conf[Me].runtime[EnabledKey], None}
    <2>1. CASE q = Me
      BY <1>1, <1>2, <2>1
    <2>2. CASE q # Me
      BY <1>1, <1>2, <2>2
    <2> QED
      BY <2>1, <2>2
  <1>3. ASSUME Stop(p)
        PROVE  /\ conf'[Me].runtime[EnabledKey] \in {conf[Me].runtime[EnabledKey], None}
               /\ p = Me => conf'[Me].runtime[EnabledKey] = None
    <2>1. conf' = [conf EXCEPT ![p] = Blank]
      BY <1>3 DEF Stop
    <2>2. \A k \in Keys : Blank.runtime[k] = None
      BY BlankStore DEF Blank
    <2>3. Drops(Blank, p)
      BY <2>2
    <2>4. p = Me => conf'[Me] = Blank
      BY <1>1, <2>1
    <2> HIDE DEF Drops
    <2> QED
      BY <1>1, <1>2, <2>1, <2>2, <2>3, <2>4
  <1>4. ASSUME Start(p)
        PROVE  conf'[Me].runtime[EnabledKey] \in {conf[Me].runtime[EnabledKey], None}
    <2>1. PICK file \in UserFiles, env \in Envs, cli \in Envs :
           conf' = [conf EXCEPT ![p] =
              [Loaded(file, ShadowLines) EXCEPT
                  !.env = Given(env), !.cli = Given(cli),
                  !.pin = Pin(env, cli), !.up = TRUE]]
      BY <1>4 DEF Start
    <2> DEFINE l == Loaded(file, ShadowLines)
               e == [l EXCEPT !.env = Given(env), !.cli = Given(cli),
                              !.pin = Pin(env, cli), !.up = TRUE]
    <2>2. l \in Stores /\ l.runtime = Empty
      BY <1>1, LoadedIs
    <2>3. conf' = [conf EXCEPT ![p] = e]
      BY <2>1
    <2> HIDE DEF l
    <2>4. e.runtime = Empty
      BY <2>2 DEF Stores
    <2>5. Drops(e, p)
      BY <2>4, BlankStore
    <2> HIDE DEF Drops, e
    <2> QED
      BY <1>2, <2>3, <2>5
  <1>5. ASSUME NEW c \in Stores, NEW gives, NEW by, Change(p, c, gives, by), Drops(c, p)
        PROVE  conf'[Me].runtime[EnabledKey] \in {conf[Me].runtime[EnabledKey], None}
    <2> DEFINE layer == [k \in Keys |-> IF k \in DOMAIN gives THEN gives[k] ELSE c.shadow[k]]
               e == [c EXCEPT !.shadow = layer]
    <2>1. conf' = [conf EXCEPT ![p] = e]
      BY <1>5 DEF Change
    <2> HIDE DEF layer
    <2>2. e.runtime = c.runtime
      BY DEF Stores
    <2>3. Drops(e, p)
      BY <1>5, <2>2
    <2> HIDE DEF Drops, e
    <2> QED
      BY <1>2, <2>1, <2>3
  <1>6. /\ Drops(conf[p], p)
        /\ \A ks : Cleared(conf[p], ks) \in Stores /\ Drops(Cleared(conf[p], ks), p)
    BY <1>1, ClearedType
  <1>7. ASSUME Commands(p, Keys, ValuesOf[PinKey], Presets)
        PROVE  conf'[Me].runtime[EnabledKey] \in {conf[Me].runtime[EnabledKey], None}
    <2>1. ASSUME NEW gives, Refuse(p, gives) PROVE conf' = conf
      BY <2>1 DEF Refuse
    <2>2. \/ conf' = conf
          \/ \E c \in Stores : (\E gives, by : Change(p, c, gives, by)) /\ Drops(c, p)
      <3> HIDE DEF Drops
      <3> QED
        BY <1>1, <1>6, <1>7, <2>1 DEF Commands, Set, Knob, SetModel, Preset, Reset
    <2> HIDE DEF Drops
    <2> QED
      BY <1>5, <2>2
  <1>8. ASSUME Saving(p)
        PROVE  conf'[Me].runtime[EnabledKey] \in {conf[Me].runtime[EnabledKey], None}
    <2>1. conf' = conf \/ conf' = [conf EXCEPT ![p] = Cleared(conf[p], DOMAIN save[p].gives)]
      BY <1>8 DEF Saving, SaveRemoves, SaveOpens, SaveCannotOpen, SaveWrites,
                  SaveCannotWrite, SaveRenames, Fail, Finish
    <2> HIDE DEF Drops
    <2> QED
      BY <1>2, <1>6, <2>1
  <1>9. Stop(Me) => conf'[Me].runtime[EnabledKey] = None
    <2>1. ASSUME Stop(Me) PROVE conf'[Me].runtime[EnabledKey] = None
      <3>1. conf'[Me] = Blank
        BY <1>1, <2>1 DEF Stop
      <3> QED
        BY <1>1, <3>1, BlankStore DEF Blank
    <2> QED
      BY <2>1
  <1> QED
    BY <1>3, <1>4, <1>7, <1>8, <1>9

(* A step of the search latches only what did not answer.                   *)
LEMMA SearchKeepsLatch ==
    ASSUME StoreTypeOK, SearchInv, SearchNext
    PROVE  SearchInv'
  <1> DEFINE c == conf[Me]
             off(e) == e.runtime[EnabledKey] = "off"
  <1>1. /\ Me \in Insts /\ c \in Stores /\ conf \in [Insts -> Stores]
    BY WebSearchAssumption DEF StoreTypeOK
  <1>2. \A e : conf' = [conf EXCEPT ![Me] = e] => conf'[Me] = e
    BY <1>1
  <1>3. (off(c) => probed \in silent) /\ (Searching => ~off(c))
    BY DEF SearchInv, LatchIsEarned
  <1>4. SUFFICES (off(conf'[Me]) => probed' \in silent') /\ (Searching' => ~off(conf'[Me]))
    BY DEF SearchInv, LatchIsEarned
  <1>5. ASSUME NEW e, Unreachable(e) PROVE probed' \in silent' /\ ~Searching'
    BY <1>5 DEF Unreachable, Ended, Searching
  <1>6. ASSUME NEW e, NEW how, GivenUp(e, how)
        PROVE  conf'[Me] = e /\ silent' = silent /\ ~Searching'
    BY <1>2, <1>6 DEF GivenUp, Ended, Searching
  <1>7. ASSUME NEW e, NEW how, Answered(e, how)
        PROVE  conf'[Me] = e /\ ~Searching'
    BY <1>2, <1>7 DEF Answered, Ended, Searching
  <1> HIDE DEF c, off
  <1>8. CASE SearchCancel \/ SearchTick
    <2>1. conf' = conf /\ probed' = probed /\ silent' = silent /\ (Searching' => Searching)
      BY <1>8 DEF SearchCancel, SearchTick, NoSearch, Searching
    <2> QED
      BY <1>3, <2>1 DEF c
  <1>9. CASE SearchStep
    <2>1. ~off(c) /\ probed' = probed
      BY <1>3, <1>9 DEF SearchStep
    <2>2. \/ Unreachable(c) \/ GivenUp(c, "memory")
          \/ \E how \in {"status", "results"} : Answered(c, how)
      BY <1>9 DEF SearchStep, c
    <2> QED
      BY <1>5, <1>6, <1>7, <2>1, <2>2
  <1>10. CASE SearchBegin
    <2>1. CASE ~Enabled
      <3>1. conf' = conf /\ probed' = probed /\ silent' = silent /\ ~Searching'
        BY <1>10, <2>1 DEF SearchBegin, Ended, Searching
      <3> QED
        BY <1>3, <3>1 DEF c
    <2>2. CASE Enabled
      <3> DEFINE e == NoteEndpoint(c)
      <3>1. SearchOpens(e)
        BY <1>10, <2>2 DEF SearchBegin, c
      <3>2. ~off(c)
        BY <2>2, EnabledIsUnlatched DEF off, c
      <3>3. ~off(e)
        BY <1>1, <3>2, RuntimeAfter DEF off, None
      <3> HIDE DEF e
      <3>4. CASE Unreachable(e)
        BY <1>5, <3>4
      <3>5. CASE \E how : GivenUp(e, how)
        BY <1>6, <3>3, <3>5
      <3>6. CASE conf' = [conf EXCEPT ![Me] = e]
        BY <1>2, <3>3, <3>6
      <3> QED
        BY <3>1, <3>4, <3>5, <3>6 DEF SearchOpens
    <2> QED
      BY <2>1, <2>2
  <1> QED
    BY <1>8, <1>9, <1>10 DEF SearchNext

(* Every step keeps the latch earned.                                       *)
LEMMA SearchInvNext ==
    StoreInv /\ SearchInv /\ [LocalStoreNext]_<<settings, web>> => SearchInv'
  <1> SUFFICES ASSUME StoreInv, SearchInv, [LocalStoreNext]_<<settings, web>>
               PROVE  SearchInv'
    OBVIOUS
  <1>1. CASE SearchNext
    BY <1>1, SearchKeepsLatch DEF StoreInv
  <1>2. CASE UNCHANGED <<settings, web>>
    BY <1>2 DEF SearchInv, LatchIsEarned, Searching, settings, web
  <1>3. CASE StoreNext(Insts, Keys, ValuesOf[PinKey], Presets)
    <2>1. PICK p \in Insts :
            \/ /\ Start(p) \/ Saving(p) \/ Commands(p, Keys, ValuesOf[PinKey], Presets)
               /\ UNCHANGED web
            \/ /\ Stop(p) /\ UNCHANGED <<searches, silent>>
               /\ IF p = Me THEN SearchLost ELSE UNCHANGED <<search, probed>>
      BY <1>3 DEF StoreNext
    <2>2. /\ conf'[Me].runtime[EnabledKey] \in {conf[Me].runtime[EnabledKey], None}
          /\ Stop(Me) => conf'[Me].runtime[EnabledKey] = None
      BY <2>1, StoreStepsDrop
    <2>3. "off" # None
      BY DEF None
    <2>4. CASE UNCHANGED <<search, probed, silent>>
      BY <2>2, <2>3, <2>4 DEF SearchInv, LatchIsEarned, Searching
    <2>5. CASE Stop(Me)
      BY <2>2, <2>3, <2>5 DEF SearchInv, LatchIsEarned
    <2> QED
      BY <2>1, <2>4, <2>5 DEF web
  <1> QED
    BY <1>1, <1>2, <1>3 DEF LocalStoreNext

(* The latch that keeps web_search from dialling was earned by the endpoint *)
(* probed last (tools_websearch.c).                                         *)
THEOREM LatchWasEarned == SearchSpec => []LatchIsEarned
  <1>1. SettingsInit /\ WebInit => SearchInv
    <2> SUFFICES ASSUME SettingsInit, WebInit PROVE SearchInv
      OBVIOUS
    <2>1. conf[Me] = Blank
      BY WebSearchAssumption DEF SettingsInit
    <2>2. conf[Me].runtime[EnabledKey] = None
      BY <2>1, BlankStore, WebSearchAssumption DEF Blank, Keys
    <2> QED
      BY <2>2 DEF SearchInv, LatchIsEarned, None
  <1>2. StoreInv /\ SearchInv /\ [LocalStoreNext]_<<settings, web>> => SearchInv'
    BY SearchInvNext
  <1>3. SearchInv => LatchIsEarned
    BY DEF SearchInv
  <1> QED
    BY <1>1, <1>2, <1>3, StoreInvariant, PTL DEF SearchSpec, LocalStoreNext
-----------------------------------------------------------------------------
(* The one-shot command on POSIX. *)

(* What a step reads leaves the count right: every byte is read or in the   *)
(* pipe, and at the end all of them are read, at least up to the cap.       *)
LEMMA DrainedCounts ==
    ASSUME CommandInv, Running, NEW e \in Drained
    PROVE  /\ e \in Execs
           /\ e.eof => AllPrinted(e.len)
           /\ ~e.eof => /\ e.len + (pipe - (e.len - exec.len)) = printed
                        /\ e.len < CaptureMax /\ pipe - (e.len - exec.len) \in Nat
           /\ e.at = "running"
  <1>1. exec \in Execs /\ pipe \in Nat /\ printed \in Nat
        /\ CaptureMax \in Nat /\ SilenceMs \in Nat
    BY RunCommandAssumption DEF CommandInv, Running, NoExec
  <1>2. CASE exec.eof
    <2>1. e = exec /\ AllPrinted(exec.len)
      BY <1>2 DEF Drained, CommandInv
    <2> QED
      BY <1>1, <1>2, <2>1 DEF Execs
  <1>3. CASE ~exec.eof
    <2>1. exec.len + pipe = printed /\ exec.len < CaptureMax
      BY <1>3 DEF CommandInv
    <2>2. PICK got \in 0 .. pipe :
            e = Reads(got) /\ (exec.len + got < CaptureMax => got = pipe)
      BY <1>1, <1>3, <2>1 DEF Drained, Execs
    <2>3. e \in Execs
      <3> DEFINE ended == exec.eof \/ exec.len + got >= CaptureMax
                          \/ (got = pipe /\ holders = {})
                 rest == IF got > 0 THEN SilenceMs ELSE exec.left
                 len == exec.len + got
      <3>1. ended \in BOOLEAN
        BY Zenon
      <3>2. rest \in Nat /\ len \in Nat
        BY <1>1 DEF Execs
      <3>3. e = [exec EXCEPT !.len = len, !.left = rest, !.eof = ended]
        BY <2>2, Zenon DEF Reads
      <3> HIDE DEF ended, rest, len
      <3> QED
        BY <1>1, <3>1, <3>2, <3>3 DEF Execs
    <2>4. e.len = exec.len + got
          /\ (e.eof <=> exec.len + got >= CaptureMax \/ (got = pipe /\ holders = {}))
      BY <1>1, <1>3, <2>2 DEF Reads, Execs
    <2>5. e.at = "running" /\ exec.len \in Nat
      BY <1>1, <2>3 DEF Execs
    <2> QED
      BY <1>1, <2>1, <2>2, <2>3, <2>4, <2>5 DEF AllPrinted
  <1> QED
    BY <1>2, <1>3

(* A step of the command keeps the invariant.                               *)
LEMMA CommandStepKeeps ==
    ASSUME CommandInv, CommandStep
    PROVE  CommandInv'
  <1>1. PICK e \in Drained :
          /\ pipe' = IF e.eof THEN 0 ELSE pipe - (e.len - exec.len)
          /\ IF e.eof THEN Settle(e)
             ELSE IF SilenceMs > 0 /\ e.left = 0
             THEN KilledAndReaped /\ Told("silent", e.len)
             ELSE /\ exec' = e
                  /\ UNCHANGED <<child, status, holders, answer>>
    BY DEF CommandStep
  <1>2. Running /\ printed' = printed /\ printed \in Nat
    BY DEF CommandStep, CommandInv
  <1>3. /\ e \in Execs /\ e.at = "running"
        /\ e.eof => AllPrinted(e.len)
        /\ ~e.eof => /\ e.len + (pipe - (e.len - exec.len)) = printed
                     /\ e.len < CaptureMax /\ pipe - (e.len - exec.len) \in Nat
    BY <1>2, DrainedCounts
  <1>4. child \in {"runs", "zombie"} /\ answer = NoAnswer
        /\ (child = "zombie" => status = "own")
    BY <1>2 DEF CommandInv
  <1>5. pipe' \in Nat
    BY <1>1, <1>3
  <1>6. CASE e.eof
    <2>1. \/ child = "zombie" /\ child' = "reaped" /\ status' = status /\ Told("exit", e.len)
          \/ /\ child = "runs" /\ exec' \in {[e EXCEPT !.grace = GraceMs], e}
             /\ child' = child /\ status' = status /\ answer' = answer
          \/ child' = "reaped" /\ Told("closed", e.len)
      <3>1. e.grace = -1 \/ e.grace > 0 \/ e.grace = 0
        BY <1>3 DEF Execs
      <3>2. Settle(e)
        BY <1>1, <1>6
      <3>3. CASE child = "zombie"
        BY <3>2, <3>3 DEF Settle
      <3>4. CASE child = "runs"
        BY <3>1, <3>2, <3>4 DEF Settle, KilledAndReaped
      <3> QED
        BY <1>4, <3>3, <3>4
    <2>2. CASE child = "zombie" /\ child' = "reaped" /\ status' = status /\ Told("exit", e.len)
      BY <2>2, <1>2, <1>3, <1>4, <1>5, <1>6
         DEF CommandInv, Told, NoExec, Running, ExitIsTold, AllPrinted
    <2>3. CASE /\ child = "runs" /\ exec' \in {[e EXCEPT !.grace = GraceMs], e}
               /\ child' = child /\ status' = status /\ answer' = answer
      <3>1. exec' \in Execs /\ exec'.len = e.len /\ exec'.eof /\ exec'.at = "running"
        BY <2>3, <1>3, <1>6, RunCommandAssumption DEF Execs
      <3> QED
        BY <2>3, <3>1, <1>2, <1>3, <1>4, <1>5, <1>6
           DEF CommandInv, Running, ExitIsTold, AllPrinted, NoAnswer
    <2>4. CASE child' = "reaped" /\ Told("closed", e.len)
      BY <2>4, <1>2, <1>5 DEF CommandInv, Told, NoExec, Running, ExitIsTold
    <2> QED
      BY <2>1, <2>2, <2>3, <2>4
  <1>7. CASE ~e.eof
    <2>1. CASE SilenceMs > 0 /\ e.left = 0
      BY <2>1, <1>1, <1>2, <1>5, <1>7
         DEF CommandInv, Told, NoExec, Running, ExitIsTold, KilledAndReaped
    <2>2. CASE ~(SilenceMs > 0 /\ e.left = 0)
      BY <2>2, <1>1, <1>2, <1>3, <1>4, <1>5, <1>7
         DEF CommandInv, Running, ExitIsTold, NoAnswer
    <2> QED
      BY <2>1, <2>2
  <1> QED
    BY <1>6, <1>7

(* Every action of the command keeps its invariant.                         *)
LEMMA CommandInvNext ==
    ASSUME CommandInv, [CommandNext]_oneshot
    PROVE  CommandInv'
  <1> USE DEF CommandInv, Running, ExitIsTold, AllPrinted
  <1>1. ASSUME CommandBegin PROVE CommandInv'
    BY <1>1, RunCommandAssumption DEF CommandBegin, Execs, NoAnswer
  <1>2. ASSUME CommandCancel PROVE CommandInv'
    BY <1>2 DEF CommandCancel, KilledAndReaped, NoExec, NoAnswer
  <1>3. ASSUME CommandTick PROVE CommandInv'
    <2>1. exec \in Execs
      BY <1>3 DEF CommandTick, NoExec
    <2>2. exec' \in Execs /\ exec'.len = exec.len /\ exec'.eof = exec.eof
          /\ exec'.at = "running"
      <3> DEFINE left == IF exec.left > 0 THEN exec.left - 1 ELSE exec.left
                 grace == IF exec.grace > 0 THEN exec.grace - 1 ELSE exec.grace
      <3>1. left \in Nat
        BY <2>1 DEF Execs
      <3>2. grace \in {-1} \cup Nat
        <4>1. exec.grace = -1 \/ exec.grace \in Nat
          BY <2>1 DEF Execs
        <4> QED
          BY <4>1
      <3>3. exec' = [exec EXCEPT !.left = left, !.grace = grace]
        BY <1>3, Zenon DEF CommandTick
      <3> HIDE DEF left, grace
      <3> QED
        BY <2>1, <3>1, <3>2, <3>3 DEF Execs
    <2> QED
      BY <1>3, <2>2 DEF CommandTick, process
  <1>4. ASSUME Prints PROVE CommandInv'
    <2>1. exec \in Execs /\ ~exec.eof /\ answer = NoAnswer
      BY <1>4 DEF Prints, Read, NoExec
    <2> QED
      BY <1>4, <2>1 DEF Prints, Execs, NoAnswer
  <1>5. ASSUME BrokenPipe \/ Exits PROVE CommandInv'
    BY <1>5 DEF BrokenPipe, Exits, NoAnswer
  <1>6. ASSUME Forks \/ \E h \in {"shell", "rest"} : Closes(h) PROVE CommandInv'
    BY <1>6 DEF Forks, Closes
  <1>7. ASSUME UNCHANGED oneshot PROVE CommandInv'
    BY <1>7 DEF oneshot
  <1>8. ASSUME CommandStep PROVE CommandInv'
    BY <1>8, CommandStepKeeps
  <1> QED
    BY <1>1, <1>2, <1>3, <1>4, <1>5, <1>6, <1>7, <1>8 DEF CommandNext

(* The exit told of a command is the shell's own, with every byte it        *)
(* printed up to the cap (tools_spawn_posix.c).                             *)
THEOREM CommandsAreAccounted == CommandSpec => []CommandInv
  <1>1. CommandInit => CommandInv
    BY DEF CommandInit, CommandInv, NoExec, NoAnswer, Running, ExitIsTold
  <1>2. CommandInv /\ [CommandNext]_oneshot => CommandInv'
    BY CommandInvNext
  <1> QED
    BY <1>1, <1>2, PTL DEF CommandSpec
-----------------------------------------------------------------------------
(* The one-shot command on Windows. *)

(* The fields of a reader's state.                                          *)
LEMMA OsFields ==
    ASSUME NEW o \in OsStates
    PROVE  /\ o.got \in Nat /\ o.pipe \in Nat /\ o.printed \in Nat
           /\ o.owner \in BOOLEAN /\ o.eof \in BOOLEAN
  BY DEF OsStates

(* What changes one command leaves the others as they are.                  *)
LEMMA OneCommand ==
    ASSUME WinInv, NEW c \in Runs, NEW o \in OsStates, NEW j \in JobStates,
           os' = [os EXCEPT ![c] = o], job' = [job EXCEPT ![c] = j], Accounted(o, j)
    PROVE  /\ os' \in [Runs -> OsStates] /\ job' \in [Runs -> JobStates]
           /\ \A d \in Runs : Accounted(os'[d], job'[d])
           /\ os'[c] = o /\ job'[c] = j
           /\ \A d \in Runs : d # c => os'[d] = os[d] /\ job'[d] = job[d]
  <1>1. os \in [Runs -> OsStates] /\ job \in [Runs -> JobStates]
        /\ \A d \in Runs : Accounted(os[d], job[d])
    BY DEF WinInv
  <1>2. os'[c] = o /\ job'[c] = j
        /\ \A d \in Runs : d # c => os'[d] = os[d] /\ job'[d] = job[d]
    BY <1>1
  <1>3. os' \in [Runs -> OsStates] /\ job' \in [Runs -> JobStates]
    BY <1>1
  <1> QED
    BY <1>1, <1>2, <1>3

(* What happens behind the loop's back keeps what the loop knows: the       *)
(* command stays where it is, what ended stays ended, and the end of its    *)
(* output stays seen.                                                       *)
LEMMA BehindTheLoop ==
    ASSUME WinInv, NEW c \in Runs, NEW o \in OsStates, NEW j \in JobStates,
           os' = [os EXCEPT ![c] = o], job' = [job EXCEPT ![c] = j], Accounted(o, j),
           UNCHANGED <<drive, heard>>,
           o.state = os[c].state, j.reaped = job[c].reaped,
           Gone(os[c]) => Gone(o), os[c].eof => o.eof
    PROVE  WinInv'
  <1>1. /\ os' \in [Runs -> OsStates] /\ job' \in [Runs -> JobStates]
        /\ \A d \in Runs : Accounted(os'[d], job'[d])
        /\ os'[c] = o /\ job'[c] = j
        /\ \A d \in Runs : d # c => os'[d] = os[d] /\ job'[d] = job[d]
    BY OneCommand
  <1>2. \A d \in Runs : /\ os'[d].state = os[d].state
                        /\ Gone(os[d]) => Gone(os'[d])
                        /\ os[d].eof => os'[d].eof
                        /\ job'[d].reaped = job[d].reaped
    BY <1>1
  <1>3. drive \in Drives /\ DriveKept /\ drive' = drive /\ heard' = heard
    BY DEF WinInv
  <1>4. \A d : Driven(d) => Driven(d)'
    BY <1>2 DEF Driven
  <1>5. drive.at = "joins" => drive.free \in Runs
    BY <1>3 DEF Drives
  <1>6. drive.at = "drained" => drive.of \in Runs
    BY <1>3 DEF Drives
  <1>7. drive.at = "ends" => drive.of \in Runs
    BY <1>3 DEF Drives
  <1>8. DriveKept'
    BY <1>2, <1>3, <1>4, <1>5, <1>6, <1>7 DEF DriveKept
  <1> QED
    BY <1>1, <1>3, <1>8 DEF WinInv
(* A byte printed is in the pipe, and its reader is not past the end.        *)
LEMMA ChildPrintsKeeps ==
    ASSUME WinInv, NEW c \in Runs, ChildPrints(c)
    PROVE  WinInv'
  <1> DEFINE k == os[c]
             pipe1 == k.pipe + 1   printed1 == k.printed + 1
             o == [k EXCEPT !.pipe = pipe1, !.printed = printed1]
             j == job[c]
  <1>1. k \in OsStates /\ job[c] \in JobStates /\ Accounted(k, job[c])
        /\ os \in [Runs -> OsStates] /\ job \in [Runs -> JobStates]
    BY DEF WinInv
  <1>2. k.got \in Nat /\ k.pipe \in Nat /\ k.printed \in Nat
    BY <1>1, OsFields
  <1>3. os' = [os EXCEPT ![c] = o]
    BY <1>1 DEF ChildPrints
  <1>4. job' = [job EXCEPT ![c] = j] /\ UNCHANGED <<drive, heard>>
    BY <1>1 DEF ChildPrints
  <1>5. Held(k)
    BY DEF ChildPrints
  <1> HIDE DEF k
  <1>6. o \in OsStates /\ j \in JobStates
    <2>1. pipe1 \in Nat /\ printed1 \in Nat
      BY <1>2
    <2> HIDE DEF pipe1, printed1
    <2> QED
      BY <1>1, <2>1 DEF OsStates, JobStates
  <1>7. Accounted(o, j) /\ o.state = k.state /\ j.reaped = job[c].reaped
        /\ (Gone(k) => Gone(o)) /\ (k.eof => o.eof)
    BY <1>1, <1>2, <1>5 DEF Accounted, Fed, Held, Gone, Past, OsStates, JobStates
  <1> HIDE DEF o, j
  <1> QED
    BY <1>1, <1>3, <1>4, <1>6, <1>7, BehindTheLoop DEF k

(* A child that runs may start another.                                     *)
LEMMA ChildForksKeeps ==
    ASSUME WinInv, NEW c \in Runs, ChildForks(c)
    PROVE  WinInv'
  <1> DEFINE k == os[c]
             o == [k EXCEPT !.grand = TRUE]
             j == job[c]
  <1>1. k \in OsStates /\ job[c] \in JobStates /\ Accounted(k, job[c])
        /\ os \in [Runs -> OsStates] /\ job \in [Runs -> JobStates]
    BY DEF WinInv
  <1>2. k.got \in Nat /\ k.pipe \in Nat /\ k.printed \in Nat
    BY <1>1, OsFields
  <1>3. os' = [os EXCEPT ![c] = o]
    BY <1>1 DEF ChildForks
  <1>4. job' = [job EXCEPT ![c] = j] /\ UNCHANGED <<drive, heard>>
    BY <1>1 DEF ChildForks
  <1>5. k.child = "runs"
    BY DEF ChildForks
  <1> HIDE DEF k
  <1>6. o \in OsStates /\ j \in JobStates
    BY <1>1, <1>2 DEF OsStates, JobStates
  <1>7. Accounted(o, j) /\ o.state = k.state /\ j.reaped = job[c].reaped
        /\ (Gone(k) => Gone(o)) /\ (k.eof => o.eof)
    BY <1>1, <1>2, <1>5 DEF Accounted, Fed, Held, Gone, Past, OsStates, JobStates
  <1> HIDE DEF o, j
  <1> QED
    BY <1>1, <1>3, <1>4, <1>6, <1>7, BehindTheLoop DEF k

(* What the child started may end.                                          *)
LEMMA GrandEndsKeeps ==
    ASSUME WinInv, NEW c \in Runs, GrandEnds(c)
    PROVE  WinInv'
  <1> DEFINE k == os[c]
             o == [k EXCEPT !.grand = FALSE]
             j == job[c]
  <1>1. k \in OsStates /\ job[c] \in JobStates /\ Accounted(k, job[c])
        /\ os \in [Runs -> OsStates] /\ job \in [Runs -> JobStates]
    BY DEF WinInv
  <1>2. k.got \in Nat /\ k.pipe \in Nat /\ k.printed \in Nat
    BY <1>1, OsFields
  <1>3. os' = [os EXCEPT ![c] = o]
    BY <1>1 DEF GrandEnds
  <1>4. job' = [job EXCEPT ![c] = j] /\ UNCHANGED <<drive, heard>>
    BY <1>1 DEF GrandEnds
  <1>5. k.grand
    BY DEF GrandEnds
  <1> HIDE DEF k
  <1>6. o \in OsStates /\ j \in JobStates
    BY <1>1, <1>2 DEF OsStates, JobStates
  <1>7. Accounted(o, j) /\ o.state = k.state /\ j.reaped = job[c].reaped
        /\ (Gone(k) => Gone(o)) /\ (k.eof => o.eof)
    BY <1>1, <1>2, <1>5 DEF Accounted, Fed, Held, Gone, Past, OsStates, JobStates
  <1> HIDE DEF o, j
  <1> QED
    BY <1>1, <1>3, <1>4, <1>6, <1>7, BehindTheLoop DEF k

(* A child that was ending is seen to have ended.                           *)
LEMMA ChildGoneKeeps ==
    ASSUME WinInv, NEW c \in Runs, ChildGone(c)
    PROVE  WinInv'
  <1> DEFINE k == os[c]
             o == [k EXCEPT !.child = "dead"]
             j == job[c]
  <1>1. k \in OsStates /\ job[c] \in JobStates /\ Accounted(k, job[c])
        /\ os \in [Runs -> OsStates] /\ job \in [Runs -> JobStates]
    BY DEF WinInv
  <1>2. k.got \in Nat /\ k.pipe \in Nat /\ k.printed \in Nat
    BY <1>1, OsFields
  <1>3. os' = [os EXCEPT ![c] = o]
    BY <1>1 DEF ChildGone
  <1>4. job' = [job EXCEPT ![c] = j] /\ UNCHANGED <<drive, heard>>
    BY <1>1 DEF ChildGone
  <1>5. k.child = "ending"
    BY DEF ChildGone
  <1> HIDE DEF k
  <1>6. o \in OsStates /\ j \in JobStates
    BY <1>1, <1>2 DEF OsStates, JobStates
  <1>7. Accounted(o, j) /\ o.state = k.state /\ j.reaped = job[c].reaped
        /\ (Gone(k) => Gone(o)) /\ (k.eof => o.eof)
    BY <1>1, <1>2, <1>5 DEF Accounted, Fed, Held, Gone, Past, OsStates, JobStates
  <1> HIDE DEF o, j
  <1> QED
    BY <1>1, <1>3, <1>4, <1>6, <1>7, BehindTheLoop DEF k

(* What the reader takes from the pipe is in its hands.                     *)
LEMMA ReadGetsKeeps ==
    ASSUME WinInv, NEW c \in Runs, ReadGets(c)
    PROVE  WinInv'
  <1> DEFINE k == os[c]
             o == [k EXCEPT !.thread = "got", !.got = k.pipe, !.pipe = 0]
             j == job[c]
  <1>1. k \in OsStates /\ job[c] \in JobStates /\ Accounted(k, job[c])
        /\ os \in [Runs -> OsStates] /\ job \in [Runs -> JobStates]
    BY DEF WinInv
  <1>2. k.got \in Nat /\ k.pipe \in Nat /\ k.printed \in Nat
    BY <1>1, OsFields
  <1>3. os' = [os EXCEPT ![c] = o]
    BY <1>1 DEF ReadGets
  <1>4. job' = [job EXCEPT ![c] = j] /\ UNCHANGED <<drive, heard>>
    BY <1>1 DEF ReadGets
  <1>5. k.thread = "reading" /\ k.pipe > 0
    BY DEF ReadGets
  <1> HIDE DEF k
  <1>6. o \in OsStates /\ j \in JobStates
    BY <1>1, <1>2 DEF OsStates, JobStates
  <1>7. Accounted(o, j) /\ o.state = k.state /\ j.reaped = job[c].reaped
        /\ (Gone(k) => Gone(o)) /\ (k.eof => o.eof)
    BY <1>1, <1>2, <1>5 DEF Accounted, Fed, Held, Gone, Past, OsStates, JobStates
  <1> HIDE DEF o, j
  <1> QED
    BY <1>1, <1>3, <1>4, <1>6, <1>7, BehindTheLoop DEF k

(* The reader ends when nobody is left who could print.                     *)
LEMMA ReadEndsKeeps ==
    ASSUME WinInv, NEW c \in Runs, ReadEnds(c)
    PROVE  WinInv'
  <1> DEFINE k == os[c]
             o == [k EXCEPT !.thread = "ending"]
             j == job[c]
  <1>1. k \in OsStates /\ job[c] \in JobStates /\ Accounted(k, job[c])
        /\ os \in [Runs -> OsStates] /\ job \in [Runs -> JobStates]
    BY DEF WinInv
  <1>2. k.got \in Nat /\ k.pipe \in Nat /\ k.printed \in Nat
    BY <1>1, OsFields
  <1>3. os' = [os EXCEPT ![c] = o]
    BY <1>1 DEF ReadEnds
  <1>4. job' = [job EXCEPT ![c] = j] /\ UNCHANGED <<drive, heard>>
    BY <1>1 DEF ReadEnds
  <1>5. k.thread = "reading" /\ k.pipe = 0 /\ ~Held(k)
    BY DEF ReadEnds
  <1> HIDE DEF k
  <1>6. o \in OsStates /\ j \in JobStates
    BY <1>1, <1>2 DEF OsStates, JobStates
  <1>7. Accounted(o, j) /\ o.state = k.state /\ j.reaped = job[c].reaped
        /\ (Gone(k) => Gone(o)) /\ (k.eof => o.eof)
    BY <1>1, <1>2, <1>5 DEF Accounted, Fed, Held, Gone, Past, OsStates, JobStates
  <1> HIDE DEF o, j
  <1> QED
    BY <1>1, <1>3, <1>4, <1>6, <1>7, BehindTheLoop DEF k

(* The end is marked by a reader past it.                                   *)
LEMMA MarksEofKeeps ==
    ASSUME WinInv, NEW c \in Runs, MarksEof(c)
    PROVE  WinInv'
  <1> DEFINE k == os[c]
             o == [k EXCEPT !.thread = "signalling", !.eof = TRUE]
             j == job[c]
  <1>1. k \in OsStates /\ job[c] \in JobStates /\ Accounted(k, job[c])
        /\ os \in [Runs -> OsStates] /\ job \in [Runs -> JobStates]
    BY DEF WinInv
  <1>2. k.got \in Nat /\ k.pipe \in Nat /\ k.printed \in Nat
    BY <1>1, OsFields
  <1>3. os' = [os EXCEPT ![c] = o]
    BY <1>1 DEF MarksEof
  <1>4. job' = [job EXCEPT ![c] = j] /\ UNCHANGED <<drive, heard>>
    BY <1>1 DEF MarksEof
  <1>5. k.thread = "ending"
    BY DEF MarksEof
  <1> HIDE DEF k
  <1>6. o \in OsStates /\ j \in JobStates
    BY <1>1, <1>2 DEF OsStates, JobStates
  <1>7. Accounted(o, j) /\ o.state = k.state /\ j.reaped = job[c].reaped
        /\ (Gone(k) => Gone(o)) /\ (k.eof => o.eof)
    BY <1>1, <1>2, <1>5 DEF Accounted, Fed, Held, Gone, Past, OsStates, JobStates
  <1> HIDE DEF o, j
  <1> QED
    BY <1>1, <1>3, <1>4, <1>6, <1>7, BehindTheLoop DEF k

(* The event is the reader's last act.                                      *)
LEMMA SignalsKeeps ==
    ASSUME WinInv, NEW c \in Runs, Signals(c)
    PROVE  WinInv'
  <1> DEFINE k == os[c]
             o == [k EXCEPT !.thread = "done", !.event = TRUE]
             j == job[c]
  <1>1. k \in OsStates /\ job[c] \in JobStates /\ Accounted(k, job[c])
        /\ os \in [Runs -> OsStates] /\ job \in [Runs -> JobStates]
    BY DEF WinInv
  <1>2. k.got \in Nat /\ k.pipe \in Nat /\ k.printed \in Nat
    BY <1>1, OsFields
  <1>3. os' = [os EXCEPT ![c] = o]
    BY <1>1 DEF Signals
  <1>4. job' = [job EXCEPT ![c] = j] /\ UNCHANGED <<drive, heard>>
    BY <1>1 DEF Signals
  <1>5. k.thread = "signalling"
    BY DEF Signals
  <1> HIDE DEF k
  <1>6. o \in OsStates /\ j \in JobStates
    BY <1>1, <1>2 DEF OsStates, JobStates
  <1>7. Accounted(o, j) /\ o.state = k.state /\ j.reaped = job[c].reaped
        /\ (Gone(k) => Gone(o)) /\ (k.eof => o.eof)
    BY <1>1, <1>2, <1>5 DEF Accounted, Fed, Held, Gone, Past, OsStates, JobStates
  <1> HIDE DEF o, j
  <1> QED
    BY <1>1, <1>3, <1>4, <1>6, <1>7, BehindTheLoop DEF k

(* A child ends with a code of its own, which may be the one that means it  *)
(* is still active.                                                         *)
LEMMA ChildEndsKeeps ==
    ASSUME WinInv, NEW c \in Runs, ChildEnds(c)
    PROVE  WinInv'
  <1>0. PICK code \in {"own", "259"} :
          os' = [os EXCEPT ![c].child = "ending", ![c].code = code]
    BY DEF ChildEnds
  <1> DEFINE k == os[c]
             o == [k EXCEPT !.child = "ending", !.code = code]
             j == job[c]
  <1>1. k \in OsStates /\ job[c] \in JobStates /\ Accounted(k, job[c])
        /\ os \in [Runs -> OsStates] /\ job \in [Runs -> JobStates]
    BY DEF WinInv
  <1>3. os' = [os EXCEPT ![c] = o]
    BY <1>0, <1>1
  <1>4. job' = [job EXCEPT ![c] = j] /\ UNCHANGED <<drive, heard>>
    BY <1>1 DEF ChildEnds
  <1>5. k.child = "runs"
    BY DEF ChildEnds
  <1> HIDE DEF k
  <1>6. o \in OsStates /\ j \in JobStates
    BY <1>1 DEF OsStates, JobStates
  <1>7. Accounted(o, j) /\ o.state = k.state /\ j.reaped = job[c].reaped
        /\ (Gone(k) => Gone(o)) /\ (k.eof => o.eof)
    BY <1>1, <1>5 DEF Accounted, Fed, Held, Gone, Past, OsStates, JobStates
  <1> HIDE DEF o, j
  <1> QED
    BY <1>1, <1>3, <1>4, <1>6, <1>7, BehindTheLoop DEF k

(* A reader without its owner drops what it has; only one that has it goes  *)
(* on to feed.                                                              *)
LEMMA ReadsOwnerKeeps ==
    ASSUME WinInv, NEW c \in Runs, ReadsOwner(c)
    PROVE  WinInv'
  <1> DEFINE k == os[c]
             next == IF k.owner THEN "feeding" ELSE "reading"
             o == [k EXCEPT !.thread = next]
             j == job[c]
  <1>1. k \in OsStates /\ job[c] \in JobStates /\ Accounted(k, job[c])
        /\ os \in [Runs -> OsStates] /\ job \in [Runs -> JobStates]
    BY DEF WinInv
  <1>2. k.got \in Nat /\ k.pipe \in Nat /\ k.printed \in Nat
    BY <1>1, OsFields
  <1>3. os' = [os EXCEPT ![c] = o]
    BY <1>1 DEF ReadsOwner
  <1>4. job' = [job EXCEPT ![c] = j] /\ UNCHANGED <<drive, heard>>
    BY <1>1 DEF ReadsOwner
  <1>5. k.thread = "got"
    BY DEF ReadsOwner
  <1> HIDE DEF k
  <1>6. o \in OsStates /\ j \in JobStates
    BY <1>1 DEF OsStates, JobStates
  <1>7. Accounted(o, j) /\ o.state = k.state /\ j.reaped = job[c].reaped
        /\ (Gone(k) => Gone(o)) /\ (k.eof => o.eof)
    BY <1>1, <1>2, <1>5 DEF Accounted, Fed, Held, Gone, Past, OsStates, JobStates
  <1> HIDE DEF o, j
  <1> QED
    BY <1>1, <1>3, <1>4, <1>6, <1>7, BehindTheLoop DEF k

(* What the reader had in its hands is in the job, if the job is there.     *)
LEMMA FeedsKeeps ==
    ASSUME WinInv, NEW c \in Runs, Feeds(c)
    PROVE  WinInv'
  <1> DEFINE k == os[c]
             i == job[c]
             total == IF i.there THEN i.total + k.got ELSE i.total
             o == [k EXCEPT !.thread = "reading", !.got = 0]
             j == [i EXCEPT !.total = total]
  <1>1. k \in OsStates /\ i \in JobStates /\ Accounted(k, i)
        /\ os \in [Runs -> OsStates] /\ job \in [Runs -> JobStates]
    BY DEF WinInv
  <1>2. k.got \in Nat /\ k.pipe \in Nat /\ k.printed \in Nat /\ i.total \in Nat
    BY <1>1, OsFields DEF JobStates
  <1>3. os' = [os EXCEPT ![c] = o]
    BY <1>1 DEF Feeds
  <1>4. job' = [job EXCEPT ![c] = j] /\ UNCHANGED <<drive, heard>>
    <2>1. i.there => job' = [job EXCEPT ![c] = j]
      BY <1>1 DEF Feeds
    <2>2. ~i.there => job' = job /\ j = i
      BY <1>1 DEF Feeds, JobStates
    <2> HIDE DEF j
    <2> QED
      BY <1>1, <2>1, <2>2 DEF Feeds
  <1>5. k.thread = "feeding"
    BY DEF Feeds
  <1> HIDE DEF k, i
  <1>6. o \in OsStates /\ j \in JobStates
    <2>1. total \in Nat
      BY <1>2
    <2> HIDE DEF total
    <2> QED
      BY <1>1, <2>1 DEF OsStates, JobStates
  <1>7. Accounted(o, j)
    <2>1. o.got = 0 /\ o.pipe = k.pipe /\ o.printed = k.printed /\ o.thread = "reading"
          /\ o.state = k.state /\ o.eof = k.eof /\ o.child = k.child /\ o.code = k.code
          /\ o.owner = k.owner
      BY <1>1 DEF OsStates
    <2>2. j.there = i.there /\ j.reaped = i.reaped /\ (i.there => j.total = i.total + k.got)
      BY <1>1 DEF JobStates
    <2> HIDE DEF o, j, total
    <2> QED
      BY <1>1, <1>2, <1>5, <2>1, <2>2 DEF Accounted, Fed, Past
  <1>8. o.state = k.state /\ j.reaped = i.reaped /\ (Gone(k) => Gone(o)) /\ (k.eof => o.eof)
    BY <1>1 DEF Gone, OsStates, JobStates
  <1> HIDE DEF o, j
  <1> QED
    BY <1>1, <1>3, <1>4, <1>6, <1>7, <1>8, BehindTheLoop DEF k, i

(* What the step knows at each of its places.                               *)
LEMMA DriveFields ==
    ASSUME drive \in Drives
    PROVE  /\ drive.of \in {0} \cup Runs
           /\ drive.at = "waits" => /\ drive.of \in Runs /\ drive.left \in Nat
                                    /\ drive.last \in Nat /\ drive.again \in BOOLEAN
           /\ drive.at = "drained" => /\ drive.of \in Runs /\ drive.left \in Nat
                                      /\ drive.last \in Nat /\ drive.eof \in BOOLEAN
           /\ drive.at = "ends" => /\ drive.of \in Runs /\ drive.eof \in BOOLEAN
                                   /\ drive.note \in {"silent", "exit"}
           /\ drive.at = "joins" => /\ drive.free \in Runs /\ drive.of \in {0} \cup Runs
                                    /\ drive.then \in {"sweeps", "frees"}
  BY DEF Drives

(* A command begins with nothing printed and nothing read.                  *)
LEMMA WinBeginKeeps ==
    ASSUME WinInv, NEW c \in Runs, WinBegin(c)
    PROVE  WinInv'
  <1>0. PICK grouped \in BOOLEAN :
          os' = [os EXCEPT ![c] = [NoOs EXCEPT !.state = "job", !.owner = TRUE,
                                     !.thread = "reading", !.child = "runs",
                                     !.grouped = grouped]]
    BY DEF WinBegin
  <1> DEFINE o == [NoOs EXCEPT !.state = "job", !.owner = TRUE, !.thread = "reading",
                               !.child = "runs", !.grouped = grouped]
             j == [job[c] EXCEPT !.there = TRUE, !.handle = TRUE]
  <1>1. job[c] = NoJob /\ job \in [Runs -> JobStates]
    BY DEF WinInv, WinBegin, Accounted
  <1>2. os' = [os EXCEPT ![c] = o] /\ job' = [job EXCEPT ![c] = j]
    BY <1>0, <1>1 DEF WinBegin
  <1>3. o \in OsStates /\ j \in JobStates
    BY <1>1 DEF OsStates, JobStates, NoOs
  <1>4. o.state = "job" /\ Accounted(o, j) /\ ~j.reaped
    BY <1>1 DEF Accounted, Fed, Past, NoOs, NoJob
  <1> HIDE DEF o, j
  <1>5. /\ os' \in [Runs -> OsStates] /\ job' \in [Runs -> JobStates]
        /\ \A d \in Runs : Accounted(os'[d], job'[d])
        /\ os'[c] = o /\ job'[c] = j
    BY <1>2, <1>3, <1>4, OneCommand
  <1>6. drive' = [at |-> "waits", of |-> c, left |-> WinBudget, last |-> 0, again |-> FALSE]
        /\ heard' = [note |-> "none"]
    BY DEF WinBegin
  <1>7. drive' \in Drives
    BY <1>6, WinCommandAssumption DEF Drives
  <1>8. Driven(c)'
    BY <1>4, <1>5 DEF Driven
  <1>9. DriveKept'
    BY <1>6, <1>8 DEF DriveKept
  <1> QED
    BY <1>5, <1>6, <1>7, <1>9 DEF WinInv

(* The drain sees the end only of what has ended.                           *)
LEMMA WinDrainsKeeps ==
    ASSUME WinInv, WinDrains
    PROVE  WinInv'
  <1>1. drive.at = "waits" /\ drive \in Drives /\ Driven(drive.of)
    BY DEF WinInv, WinDrains, WinDue, DriveKept
  <1>2. drive.of \in Runs /\ drive.left \in Nat /\ drive.last \in Nat
    BY <1>1, DriveFields
  <1>c. PICK c \in Runs : c = drive.of
    BY <1>2
  <1> DEFINE k == os[c]
             gone == Gone(k)
             handle == job[c].handle /\ Handle(k) /\ ~gone
             o == [k EXCEPT !.event = FALSE, !.exited = gone]
             j == [job[c] EXCEPT !.handle = handle, !.reaped = gone]
  <1>3. k \in OsStates /\ job[c] \in JobStates /\ Accounted(k, job[c]) /\ k.state = "job"
        /\ os \in [Runs -> OsStates] /\ job \in [Runs -> JobStates]
    BY <1>1, <1>c DEF WinInv, Driven
  <1>4. os' = [os EXCEPT ![c] = o]
    BY <1>3, <1>c DEF WinDrains
  <1>5. job' = [job EXCEPT ![c] = j]
    BY <1>3, <1>c DEF WinDrains
  <1>6. drive' = [at |-> "drained", of |-> c, left |-> drive.left, last |-> drive.last,
                  eof |-> k.eof] /\ heard' = heard
    BY <1>c DEF WinDrains
  <1>7. gone \in BOOLEAN /\ handle \in BOOLEAN
    BY Zenon DEF Gone
  <1>8. k.eof \in BOOLEAN
    BY <1>3, OsFields
  <1> HIDE DEF k, handle
  <1>9. o.state = k.state /\ o.thread = k.thread /\ o.child = k.child /\ o.code = k.code
        /\ o.got = k.got /\ o.pipe = k.pipe /\ o.printed = k.printed /\ o.eof = k.eof
        /\ o.owner = k.owner /\ o.grand = k.grand
    BY <1>3 DEF OsStates
  <1>10. j.there = job[c].there /\ j.total = job[c].total /\ j.reaped = gone
    BY <1>3 DEF JobStates
  <1> HIDE DEF gone
  <1>11. o \in OsStates /\ j \in JobStates
    BY <1>3, <1>7 DEF OsStates, JobStates
  <1> HIDE DEF o, j
  <1>12. Accounted(o, j) /\ (Gone(o) <=> Gone(k))
    BY <1>3, <1>9, <1>10 DEF Accounted, Fed, Held, Gone
  <1>13. /\ os' \in [Runs -> OsStates] /\ job' \in [Runs -> JobStates]
         /\ \A d \in Runs : Accounted(os'[d], job'[d])
         /\ os'[c] = o /\ job'[c] = j
    BY <1>4, <1>5, <1>8, <1>11, <1>12, OneCommand
  <1>14. drive' \in Drives
    BY <1>2, <1>6, <1>8 DEF Drives
  <1>15. Driven(c)' /\ (k.eof => os'[c].eof)
    BY <1>3, <1>8, <1>9, <1>10, <1>12, <1>13 DEF Driven, gone
  <1>16. DriveKept'
    BY <1>6, <1>15 DEF DriveKept
  <1> QED
    BY <1>6, <1>13, <1>14, <1>16 DEF WinInv

(* A step that changes neither a command nor its job keeps the invariant    *)
(* when it keeps what is known at the new place.                            *)
LEMMA OnlyTheDrive ==
    ASSUME WinInv, UNCHANGED <<os, job, heard>>, drive' \in Drives, DriveKept'
    PROVE  WinInv'
  BY DEF WinInv

(* The judgement: a call ends with an exit only when the child has ended.   *)
LEMMA WinJudgesKeeps ==
    ASSUME WinInv, WinJudges
    PROVE  WinInv'
  <1>1. drive.at = "drained" /\ drive \in Drives /\ Driven(drive.of)
        /\ (drive.eof => os[drive.of].eof)
    BY DEF WinInv, WinJudges, DriveKept
  <1>2. drive.of \in Runs /\ drive.left \in Nat /\ drive.eof \in BOOLEAN
    BY <1>1, DriveFields
  <1>c. PICK c \in Runs : c = drive.of
    BY <1>2
  <1> DEFINE k == os[c]
             live == ~job[c].reaped /\ ~Gone(k)
             handle == job[c].handle /\ live
             again == ~job[c].handle
             o == [k EXCEPT !.exited = ~live]
             j == [job[c] EXCEPT !.reaped = ~live, !.handle = handle]
             note == IF live THEN "silent" ELSE "exit"
  <1>3. k \in OsStates /\ job[c] \in JobStates /\ Accounted(k, job[c]) /\ k.state = "job"
        /\ os \in [Runs -> OsStates] /\ job \in [Runs -> JobStates]
        /\ (job[c].reaped => Gone(k)) /\ (drive.eof => k.eof)
    BY <1>1, <1>c DEF WinInv, Driven
  <1>4. os' = [os EXCEPT ![c] = o]
    BY <1>3, <1>c DEF WinJudges
  <1>5. job' = [job EXCEPT ![c] = j]
    BY <1>3, <1>c DEF WinJudges
  <1>6. /\ heard' = heard
        /\ \/ \E left \in {WinBudget, drive.left} :
                drive' = [at |-> "waits", of |-> c, left |-> left, last |-> job[c].total,
                          again |-> again]
           \/ drive' = [at |-> "ends", of |-> c, eof |-> drive.eof, note |-> note]
    BY <1>c DEF WinJudges
  <1>7. live \in BOOLEAN /\ handle \in BOOLEAN /\ again \in BOOLEAN
    BY Zenon
  <1>8. note \in {"silent", "exit"} /\ (note = "exit" => ~live)
        /\ (~live => Gone(k))
    BY <1>3
  <1>9. job[c].total \in Nat
    BY <1>3 DEF JobStates
  <1> HIDE DEF k, handle, again, note
  <1>10. o.state = k.state /\ o.thread = k.thread /\ o.child = k.child /\ o.code = k.code
         /\ o.got = k.got /\ o.pipe = k.pipe /\ o.printed = k.printed /\ o.eof = k.eof
         /\ o.owner = k.owner /\ o.grand = k.grand
    BY <1>3 DEF OsStates
  <1>11. j.there = job[c].there /\ j.total = job[c].total /\ j.reaped = ~live
    BY <1>3 DEF JobStates
  <1> HIDE DEF live
  <1>12. o \in OsStates /\ j \in JobStates
    BY <1>3, <1>7 DEF OsStates, JobStates
  <1> HIDE DEF o, j
  <1>13. Accounted(o, j) /\ (Gone(o) <=> Gone(k))
    BY <1>3, <1>10, <1>11 DEF Accounted, Fed, Held, Gone
  <1>14. /\ os' \in [Runs -> OsStates] /\ job' \in [Runs -> JobStates]
         /\ \A d \in Runs : Accounted(os'[d], job'[d])
         /\ os'[c] = o /\ job'[c] = j
    BY <1>4, <1>5, <1>12, <1>13, OneCommand
  <1>15. drive' \in Drives
    BY <1>2, <1>6, <1>7, <1>8, <1>9, WinCommandAssumption DEF Drives
  <1>16. Driven(c)' /\ (drive.eof => os'[c].eof) /\ (note = "exit" => Gone(os'[c]))
    BY <1>3, <1>8, <1>10, <1>11, <1>13, <1>14 DEF Driven
  <1>17. DriveKept'
    BY <1>6, <1>16 DEF DriveKept
  <1> QED
    BY <1>6, <1>14, <1>15, <1>17 DEF WinInv

(* What is told of an exit: a child that has ended of its own, and if the   *)
(* end of its output was seen, all of it.                                   *)
LEMMA WinTakesKeeps ==
    ASSUME WinInv, WinTakes
    PROVE  WinInv'
  <1>1. drive.at = "ends" /\ drive \in Drives /\ Driven(drive.of)
        /\ (drive.eof => os[drive.of].eof)
        /\ (drive.note = "exit" => Gone(os[drive.of]))
    BY DEF WinInv, WinTakes, DriveKept
  <1>c. PICK c \in Runs : c = drive.of
    BY <1>1, DriveFields
  <1>2. os[c] \in OsStates /\ job[c] \in JobStates /\ Accounted(os[c], job[c])
        /\ os[c].state = "job"
    BY <1>1, <1>c DEF WinInv, Driven
  <1>3. heard' = [note |-> drive.note, len |-> job[c].total, whole |-> drive.eof,
                  code |-> os[c].code, printed |-> os[c].printed]
        /\ drive' = [at |-> "sweeps", of |-> c] /\ os' = os /\ job' = job
    BY <1>c DEF WinTakes
  <1>4. heard'.note = "exit" => heard'.code = "own"
    BY <1>1, <1>2, <1>3, <1>c DEF Gone, Accounted
  <1>5. heard'.whole => heard'.len = heard'.printed
    <2>1. os[c].got \in Nat /\ os[c].pipe \in Nat /\ os[c].printed \in Nat
          /\ job[c].total \in Nat
      BY <1>2, OsFields DEF JobStates
    <2>2. os[c].eof => os[c].got = 0 /\ os[c].pipe = 0
      BY <1>2 DEF Accounted, Fed, Past
    <2>3. job[c].total + os[c].got + os[c].pipe = os[c].printed
      BY <1>2 DEF Accounted, Fed
    <2>4. os[c].eof => job[c].total = os[c].printed
      BY <2>1, <2>2, <2>3
    <2> QED
      BY <1>1, <1>3, <1>c, <2>4
  <1>6. drive' \in Drives
    BY <1>3 DEF Drives
  <1>7. Driven(c)'
    BY <1>1, <1>3, <1>c DEF Driven
  <1>8. DriveKept'
    BY <1>3, <1>7 DEF DriveKept
  <1> QED
    BY <1>3, <1>4, <1>5, <1>6, <1>8 DEF WinInv

(* The step is left at once by a cancelled turn, and a close that has no    *)
(* job goes over the orphans only.                                          *)
LEMMA WinLeavesKeeps ==
    ASSUME WinInv, WinCancel \/ WinQuits \/ WinTick
    PROVE  WinInv'
  <1>1. drive \in Drives /\ DriveKept /\ UNCHANGED <<os, job, heard>>
    BY DEF WinInv, WinCancel, WinQuits, WinTick
  <1>2. \A d : Driven(d)' <=> Driven(d)
    BY <1>1 DEF Driven
  <1>3. CASE WinCancel
    <2>1. drive.of \in Runs /\ Driven(drive.of)
      BY <1>1, <1>3, DriveFields DEF WinCancel, DriveKept
    <2>2. drive' = [at |-> "sweeps", of |-> drive.of]
      BY <1>3 DEF WinCancel
    <2>3. drive' \in Drives
      BY <2>1, <2>2 DEF Drives
    <2>4. DriveKept'
      BY <1>2, <2>1, <2>2 DEF DriveKept
    <2> QED
      BY <1>1, <2>3, <2>4, OnlyTheDrive
  <1>4. CASE WinQuits
    <2>1. drive' = [at |-> "sweeps", of |-> 0]
      BY <1>4 DEF WinQuits
    <2>2. drive' \in Drives
      BY <2>1 DEF Drives
    <2>3. DriveKept'
      BY <2>1 DEF DriveKept
    <2> QED
      BY <1>1, <2>2, <2>3, OnlyTheDrive
  <1>5. CASE WinTick
    <2>1. drive.at \in {"waits", "drained"} /\ drive.left \in Nat /\ drive.left > 0
          /\ drive' = [drive EXCEPT !.left = @ - 1]
      BY <1>1, <1>5, DriveFields DEF WinTick
    <2> DEFINE left == drive.left - 1
    <2>2. left \in Nat /\ drive' = [drive EXCEPT !.left = left]
      BY <2>1
    <2> HIDE DEF left
    <2>3. drive' \in Drives /\ drive'.at = drive.at /\ drive'.of = drive.of
          /\ (drive.at = "drained" => drive'.eof = drive.eof)
      BY <1>1, <2>1, <2>2 DEF Drives
    <2>4. DriveKept'
      BY <1>1, <1>2, <2>1, <2>3 DEF DriveKept
    <2> QED
      BY <1>1, <2>3, <2>4, OnlyTheDrive
  <1> QED
    BY <1>3, <1>4, <1>5

(* What nm_proc_os_free does to a reader before it is waited for.           *)
LEMMA CancelledIs ==
    ASSUME NEW k \in OsStates
    PROVE  /\ Cancelled(k) \in OsStates /\ Cancelled(k).state = k.state
           /\ Cancelled(k).child = k.child /\ Cancelled(k).owner = k.owner
           /\ Cancelled(k).thread = "feeding" => k.thread = "feeding"
  <1> DEFINE thread == IF k.thread = "reading" THEN "ending" ELSE k.thread
  <1>1. thread \in {"none", "reading", "got", "feeding", "ending", "signalling", "done"}
        /\ (thread = "feeding" => k.thread = "feeding")
    BY DEF OsStates
  <1>2. Cancelled(k) = [k EXCEPT !.thread = thread]
    BY DEF Cancelled
  <1> HIDE DEF thread
  <1> QED
    BY <1>1, <1>2 DEF OsStates

(* An orphan that has ended is freed; when there is none the close goes on. *)
LEMMA WinSweepsKeeps ==
    ASSUME WinInv, WinSweeps
    PROVE  WinInv'
  <1> DEFINE over == {d \in Runs : os[d].state = "orphan" /\ Gone(os[d])}
  <1>1. drive \in Drives /\ drive.at = "sweeps" /\ drive.of \in {0} \cup Runs
        /\ (drive.of = 0 \/ Driven(drive.of))
    BY DriveFields DEF WinInv, WinSweeps, DriveKept
  <1>2. job' = job /\ heard' = heard
    BY DEF WinSweeps
  <1>3. CASE over = {}
    <2> DEFINE at == IF drive.of = 0 THEN "quit" ELSE "kills"
    <2>1. os' = os /\ drive' = [drive EXCEPT !.at = at]
      BY <1>3, Zenon DEF WinSweeps
    <2>2. at \in {"quit", "kills"} /\ (at = "kills" => drive.of # 0)
      OBVIOUS
    <2> HIDE DEF at
    <2>3. drive' \in Drives /\ drive'.at = at /\ drive'.of = drive.of
      BY <1>1, <2>1, <2>2 DEF Drives
    <2>4. \A d : Driven(d) => Driven(d)'
      BY <1>2, <2>1 DEF Driven
    <2>5. DriveKept'
      BY <1>1, <2>2, <2>3, <2>4 DEF DriveKept
    <2> QED
      BY <1>2, <2>1, <2>3, <2>5, OnlyTheDrive
  <1>4. CASE over # {}
    <2>1. PICK c \in over :
            /\ os' = [os EXCEPT ![c] = Cancelled([@ EXCEPT !.state = "freeing"])]
            /\ drive' = [at |-> "joins", of |-> drive.of, free |-> c, then |-> "sweeps"]
      BY <1>4 DEF WinSweeps
    <2>2. c \in Runs /\ os[c].state = "orphan"
      OBVIOUS
    <2> DEFINE k == os[c]
               shot == [k EXCEPT !.state = "freeing"]
               o == Cancelled(shot)
               j == job[c]
    <2>3. k \in OsStates /\ j \in JobStates /\ Accounted(k, j)
          /\ os \in [Runs -> OsStates] /\ job \in [Runs -> JobStates]
      BY <2>2 DEF WinInv
    <2>4. os' = [os EXCEPT ![c] = o] /\ job' = [job EXCEPT ![c] = j]
      BY <1>2, <2>1, <2>3
    <2>5. shot \in OsStates /\ shot.state = "freeing" /\ shot.child # "runs"
      BY <2>2, <2>3 DEF OsStates, Accounted
    <2> HIDE DEF k, shot, j
    <2>6. o \in OsStates /\ o.state = "freeing" /\ o.child # "runs"
      BY <2>5, CancelledIs
    <2> HIDE DEF o
    <2>7. Accounted(o, j)
      BY <2>6 DEF Accounted
    <2>8. /\ os' \in [Runs -> OsStates] /\ job' \in [Runs -> JobStates]
          /\ \A d \in Runs : Accounted(os'[d], job'[d])
          /\ os'[c] = o
          /\ \A d \in Runs : d # c => os'[d] = os[d] /\ job'[d] = job[d]
      BY <2>2, <2>3, <2>4, <2>6, <2>7, OneCommand DEF j
    <2>9. drive' \in Drives
      BY <1>1, <2>1, <2>2 DEF Drives
    <2>10. \A d : Driven(d) => Driven(d)'
      BY <2>2, <2>8 DEF Driven
    <2>11. DriveKept'
      BY <1>1, <2>1, <2>6, <2>8, <2>10 DEF DriveKept
    <2> QED
      BY <1>2, <2>8, <2>9, <2>11 DEF WinInv
  <1> QED
    BY <1>3, <1>4

(* The kill: the child does not run any more, whoever frees its state.      *)
LEMMA WinKillsKeeps ==
    ASSUME WinInv, NEW dies \in BOOLEAN, WinKills(dies)
    PROVE  WinInv'
  <1>1. drive \in Drives /\ drive.at = "kills" /\ Driven(drive.of)
    BY DEF WinInv, WinKills, DriveKept
  <1>c. PICK c \in Runs : c = drive.of
    BY <1>1 DEF Driven
  <1> DEFINE k == os[c]
             i == job[c]
             fate == IF dies THEN "dead" ELSE IF k.child = "runs" THEN "ending" ELSE k.child
             code == IF k.child = "runs" THEN "killed" ELSE k.code
             grand == k.grand /\ ~k.grouped
             killed == [k EXCEPT !.child = fate, !.code = code, !.grand = grand]
             shot == IF i.reaped THEN k ELSE killed
             freeing == [shot EXCEPT !.state = "freeing"]
             orphan == [shot EXCEPT !.state = "orphan"]
  <1>2. k \in OsStates /\ i \in JobStates /\ Accounted(k, i) /\ k.state = "job"
        /\ os \in [Runs -> OsStates] /\ job \in [Runs -> JobStates]
        /\ (i.reaped => Gone(k))
    BY <1>1, <1>c DEF WinInv, Driven
  <1>3. job' = job /\ heard' = heard
    BY DEF WinKills
  <1>4. \/ /\ os' = [os EXCEPT ![c] = Cancelled(freeing)]
           /\ drive' = [at |-> "joins", of |-> c, free |-> c, then |-> "frees"]
        \/ /\ os' = [os EXCEPT ![c] = orphan]
           /\ drive' = [at |-> "frees", of |-> c]
    BY <1>c DEF WinKills
  <1> HIDE DEF k, i
  <1>5. fate \in {"none", "ending", "dead"} /\ code \in {"none", "own", "259", "killed"}
    BY <1>2 DEF OsStates
  <1>6. grand \in BOOLEAN
    BY Zenon
  <1> HIDE DEF fate, code, grand
  <1>7. killed \in OsStates /\ killed.child # "runs"
    BY <1>2, <1>5, <1>6 DEF OsStates
  <1> HIDE DEF killed
  <1>8. shot \in OsStates /\ shot.child # "runs"
    BY <1>2, <1>7 DEF Gone
  <1> HIDE DEF shot
  <1>9. /\ freeing \in OsStates /\ freeing.state = "freeing" /\ freeing.child # "runs"
        /\ orphan \in OsStates /\ orphan.state = "orphan" /\ orphan.child # "runs"
    BY <1>8 DEF OsStates
  <1> HIDE DEF freeing, orphan
  <1>10. /\ Cancelled(freeing) \in OsStates /\ Cancelled(freeing).state = "freeing"
         /\ Cancelled(freeing).child # "runs"
    BY <1>9, CancelledIs
  <1>11. job' = [job EXCEPT ![c] = i]
    BY <1>2, <1>3 DEF i
  <1>12. Accounted(Cancelled(freeing), i) /\ Accounted(orphan, i)
    BY <1>9, <1>10 DEF Accounted
  <1>13. ASSUME NEW o \in OsStates, Accounted(o, i), os' = [os EXCEPT ![c] = o]
         PROVE  /\ os' \in [Runs -> OsStates] /\ job' \in [Runs -> JobStates]
                /\ \A d \in Runs : Accounted(os'[d], job'[d])
                /\ os'[c] = o
    BY <1>2, <1>11, <1>13, OneCommand
  <1>14. CASE /\ os' = [os EXCEPT ![c] = Cancelled(freeing)]
              /\ drive' = [at |-> "joins", of |-> c, free |-> c, then |-> "frees"]
    <2>1. /\ os' \in [Runs -> OsStates] /\ job' \in [Runs -> JobStates]
          /\ \A d \in Runs : Accounted(os'[d], job'[d])
          /\ os'[c] = Cancelled(freeing)
      BY <1>10, <1>12, <1>13, <1>14
    <2>2. drive' \in Drives
      BY <1>14 DEF Drives
    <2>3. DriveKept'
      BY <1>10, <1>14, <2>1 DEF DriveKept
    <2> QED
      BY <1>3, <2>1, <2>2, <2>3 DEF WinInv
  <1>15. CASE /\ os' = [os EXCEPT ![c] = orphan]
              /\ drive' = [at |-> "frees", of |-> c]
    <2>1. /\ os' \in [Runs -> OsStates] /\ job' \in [Runs -> JobStates]
          /\ \A d \in Runs : Accounted(os'[d], job'[d])
          /\ os'[c] = orphan
      BY <1>9, <1>12, <1>13, <1>15
    <2>2. drive' \in Drives
      BY <1>15 DEF Drives
    <2>3. DriveKept'
      BY <1>9, <1>15, <2>1 DEF DriveKept
    <2> QED
      BY <1>3, <2>1, <2>2, <2>3 DEF WinInv
  <1> QED
    BY <1>4, <1>14, <1>15

(* The close waits for the reader; one that got back into a read that does  *)
(* not end has no job to feed any more.                                     *)
LEMMA WinJoinsKeeps ==
    ASSUME WinInv, WinJoins
    PROVE  WinInv'
  <1>1. /\ drive \in Drives /\ drive.at = "joins" /\ os[drive.free].state = "freeing"
        /\ \/ drive.then = "sweeps" /\ (drive.of = 0 \/ Driven(drive.of))
           \/ drive.then = "frees" /\ drive.of = drive.free
    BY DEF WinInv, WinJoins, DriveKept
  <1>2. drive.free \in Runs /\ drive.of \in {0} \cup Runs
    BY <1>1, DriveFields
  <1>c. PICK c \in Runs : c = drive.free
    BY <1>2
  <1> DEFINE k == os[c]
             j == job[c]
             o == Joins(k)
  <1>3. k \in OsStates /\ j \in JobStates /\ Accounted(k, j) /\ k.state = "freeing"
        /\ os \in [Runs -> OsStates] /\ job \in [Runs -> JobStates]
    BY <1>1, <1>c DEF WinInv
  <1>4. os' = [os EXCEPT ![c] = o] /\ job' = [job EXCEPT ![c] = j] /\ heard' = heard
        /\ drive' = [at |-> drive.then, of |-> drive.of]
        /\ (k.thread = "done" \/ k.thread = "reading")
    BY <1>3, <1>c DEF WinJoins, Stuck
  <1> HIDE DEF k, j
  <1>7. o \in OsStates /\ Accounted(o, j) /\ o.state \in {"freed", "leaked"}
    <2>1. CASE k.thread = "done"
      <3>1. o = [NoOs EXCEPT !.state = "freed", !.thread = "done"]
        BY <2>1 DEF Joins
      <3> HIDE DEF o
      <3>2. o \in OsStates
        BY <3>1 DEF NoOs, OsStates
      <3>3. o.state = "freed" /\ o.thread = "done"
        BY <3>1 DEF NoOs
      <3> QED
        BY <3>2, <3>3 DEF Accounted
    <2>2. CASE k.thread = "reading"
      <3>1. o = [k EXCEPT !.state = "leaked", !.owner = FALSE]
        BY <2>2 DEF Joins
      <3> QED
        BY <1>3, <2>2, <3>1 DEF OsStates, Accounted
    <2> QED
      BY <1>4, <2>1, <2>2
  <1> HIDE DEF o
  <1>8. /\ os' \in [Runs -> OsStates] /\ job' \in [Runs -> JobStates]
        /\ \A d \in Runs : Accounted(os'[d], job'[d])
        /\ os'[c] = o
        /\ \A d \in Runs : d # c => os'[d] = os[d] /\ job'[d] = job[d]
    BY <1>3, <1>4, <1>7, OneCommand
  <1>9. drive' \in Drives
    BY <1>1, <1>2, <1>4 DEF Drives
  <1>10. \A d : Driven(d) => Driven(d)'
    BY <1>3, <1>8 DEF Driven, k
  <1>11. DriveKept'
    BY <1>1, <1>4, <1>7, <1>8, <1>10, <1>c DEF DriveKept
  <1> QED
    BY <1>4, <1>8, <1>9, <1>11 DEF WinInv

(* proc_free: no command that is still the program's loses its job.         *)
LEMMA WinFreesKeeps ==
    ASSUME WinInv, WinFrees
    PROVE  WinInv'
  <1>1. drive.at = "frees" /\ drive.of \in Runs
        /\ os[drive.of].state \in {"orphan", "freed", "leaked"}
    BY DEF WinInv, WinFrees, DriveKept
  <1>c. PICK c \in Runs : c = drive.of
    BY <1>1
  <1> DEFINE o == os[c]
             j == [job[c] EXCEPT !.there = FALSE, !.handle = FALSE]
  <1>2. o \in OsStates /\ job[c] \in JobStates /\ Accounted(o, job[c])
        /\ o.state \in {"orphan", "freed", "leaked"}
        /\ os \in [Runs -> OsStates] /\ job \in [Runs -> JobStates]
    BY <1>1, <1>c DEF WinInv
  <1>3. os' = [os EXCEPT ![c] = o] /\ job' = [job EXCEPT ![c] = j] /\ heard' = heard
        /\ drive' = Undriven
    BY <1>2, <1>c DEF WinFrees
  <1> HIDE DEF o
  <1>4. j \in JobStates
    BY <1>2 DEF JobStates
  <1> HIDE DEF j
  <1>5. Accounted(o, j)
    BY <1>2 DEF Accounted
  <1>6. /\ os' \in [Runs -> OsStates] /\ job' \in [Runs -> JobStates]
        /\ \A d \in Runs : Accounted(os'[d], job'[d])
    BY <1>2, <1>3, <1>4, <1>5, OneCommand
  <1>7. drive' \in Drives /\ DriveKept'
    BY <1>3 DEF Undriven, Drives, DriveKept
  <1> QED
    BY <1>3, <1>6, <1>7 DEF WinInv

(* At the start no command has begun.                                       *)
LEMMA WinInvInit == WinInit => WinInv
  <1> SUFFICES ASSUME WinInit PROVE WinInv
    OBVIOUS
  <1>1. NoOs \in OsStates /\ NoJob \in JobStates /\ Accounted(NoOs, NoJob)
    BY DEF NoOs, NoJob, OsStates, JobStates, Accounted
  <1>2. Undriven \in Drives /\ DriveKept
    BY DEF WinInit, Undriven, Drives, DriveKept
  <1> QED
    BY <1>1, <1>2 DEF WinInit, WinInv

(* Every action keeps the invariant.                                        *)
LEMMA WinInvNext ==
    ASSUME WinInv, [WinNext]_windows
    PROVE  WinInv'
  <1>1. ASSUME NEW c \in Runs, Reader(c) PROVE WinInv'
    BY <1>1, ReadGetsKeeps, ReadsOwnerKeeps, FeedsKeeps, ReadEndsKeeps, MarksEofKeeps,
       SignalsKeeps DEF Reader
  <1>2. ASSUME NEW c \in Runs, WinBegin(c) PROVE WinInv'
    BY <1>2, WinBeginKeeps
  <1>3. ASSUME NEW c \in Runs,
               ChildPrints(c) \/ ChildForks(c) \/ GrandEnds(c) \/ ChildEnds(c) \/ ChildGone(c)
        PROVE  WinInv'
    BY <1>3, ChildPrintsKeeps, ChildForksKeeps, GrandEndsKeeps, ChildEndsKeeps, ChildGoneKeeps
  <1>4. ASSUME WinStep PROVE WinInv'
    BY <1>4, WinDrainsKeeps, WinJudgesKeeps, WinTakesKeeps, WinSweepsKeeps, WinJoinsKeeps,
       WinFreesKeeps, WinKillsKeeps DEF WinStep
  <1>5. ASSUME WinCancel \/ WinQuits \/ WinTick PROVE WinInv'
    BY <1>5, WinLeavesKeeps
  <1>6. ASSUME UNCHANGED windows PROVE WinInv'
    <2>1. UNCHANGED <<os, job, drive, heard>>
      BY <1>6 DEF windows
    <2>2. drive' \in Drives
      BY <2>1 DEF WinInv
    <2>3. DriveKept'
      BY <2>1 DEF WinInv, DriveKept, Driven
    <2> QED
      BY <2>1, <2>2, <2>3, OnlyTheDrive
  <1> QED
    BY <1>1, <1>2, <1>3, <1>4, <1>5, <1>6 DEF WinNext

(* Every byte a command on Windows prints is in its pipe, in its reader's   *)
(* hands or in its job while it is the program's, and its state is freed    *)
(* only when its reader is done (tools_spawn_w32.c, proc_w32.c).            *)
THEOREM ReadersAreKept == WinSpec => []WinInv
  <1>1. WinInit => WinInv
    BY WinInvInit
  <1>2. WinInv /\ [WinNext]_windows => WinInv'
    BY WinInvNext
  <1> QED
    BY <1>1, <1>2, PTL DEF WinSpec

(* A reader feeds only a job that is there, or one the close left to the    *)
(* orphans.                                                                 *)
LEMMA CustodyHolds == WinInv => ReaderIsCustody
  <1> SUFFICES ASSUME WinInv PROVE ReaderIsCustody
    OBVIOUS
  <1>1. ASSUME NEW c \in Runs
        PROVE  /\ os[c].state = "freed" => os[c].thread = "done"
               /\ os[c].thread = "feeding" /\ ~job[c].there =>
                     os[c].state \in {"orphan", "freeing"} /\ os[c].child # "runs"
    BY DEF WinInv, Accounted
  <1> QED
    BY <1>1 DEF WinInv, ReaderIsCustody

(* What the model is told a command did, the command did, on either         *)
(* platform: the exit is its own and not a kill, no byte of what was seen   *)
(* to end is missing, and no reader outlives its state (tools_spawn_posix.c, *)
(* tools_spawn_w32.c, proc_w32.c).                                          *)
THEOREM CommandsAreReportedTruly == CommandSpec /\ WinSpec => []OwnStatusTold
  <1>1. CommandInv /\ WinInv => OwnStatusTold
    BY CustodyHolds DEF CommandInv, OwnStatusTold
  <1> QED
    BY <1>1, CommandsAreAccounted, ReadersAreKept, PTL
-----------------------------------------------------------------------------
(* The system prompt. *)

(* What a text is made of: what the code writes, and lines of strings.      *)
Tokens == STRING \cup {"base", "vision", "clause", "env", "wd", "/env", "block", "menu",
                       "git", "branch", "status", "clean", "commits"}

(* The short texts.                                                         *)
LEMMA Short ==
    ASSUME NEW s \in Tokens, NEW t \in Tokens
    PROVE  /\ <<>> \in Seq(Tokens) /\ <<s>> \in Seq(Tokens) /\ <<s, t>> \in Seq(Tokens)
           /\ Len(<<>>) = 0 /\ Len(<<s>>) = 1 /\ Len(<<s, t>>) = 2
  OBVIOUS

(* What the code writes is made of them.                                    *)
LEMMA Written ==
    /\ "base" \in Tokens /\ "vision" \in Tokens /\ "clause" \in Tokens
    /\ "env" \in Tokens /\ "wd" \in Tokens /\ "/env" \in Tokens
    /\ "block" \in Tokens /\ "menu" \in Tokens /\ "git" \in Tokens
    /\ "branch" \in Tokens /\ "status" \in Tokens
    /\ "clean" \in Tokens /\ "commits" \in Tokens
  BY DEF Tokens

(* Texts in a row, two and three of them.                                   *)
LEMMA InARow ==
    ASSUME NEW T
    PROVE  /\ \A x, y \in Seq(T) : x \o y \in Seq(T) /\ Len(x \o y) = Len(x) + Len(y)
           /\ \A x, y, z \in Seq(T) : (x \o y) \o z = x \o (y \o z)
  <1>1. \A x, y \in Seq(T) : x \o y \in Seq(T) /\ Len(x \o y) = Len(x) + Len(y)
    BY ConcatProperties, SMT
  <1>2. ASSUME NEW x \in Seq(T), NEW y \in Seq(T), NEW z \in Seq(T)
        PROVE  (x \o y) \o z = x \o (y \o z)
    BY ConcatAssociative, SMT
  <1> QED
    BY <1>1, <1>2

(* One text and another behind it.                                          *)
Cat(x, y) == x \o y

(* Of such texts, in these words.                                           *)
LEMMA CatInARow ==
    /\ \A x, y \in Seq(Tokens) : Cat(x, y) \in Seq(Tokens) /\ Len(Cat(x, y)) = Len(x) + Len(y)
    /\ \A x, y, z \in Seq(Tokens) : Cat(Cat(x, y), z) = Cat(x, Cat(y, z))
  BY InARow DEF Cat

(* A text between two others goes with either of them.                      *)
LEMMA Regrouped ==
    ASSUME NEW f \in Seq(Tokens), NEW u \in Seq(Tokens), NEW c \in Seq(Tokens),
           NEW r \in Seq(Tokens)
    PROVE  Cat(Cat(f, Cat(u, c)), r) = Cat(Cat(f, u), Cat(c, r))
  <1>1. Cat(f, Cat(u, c)) = Cat(Cat(f, u), c) /\ Cat(f, u) \in Seq(Tokens)
    BY CatInARow
  <1>2. Cat(Cat(Cat(f, u), c), r) = Cat(Cat(f, u), Cat(c, r))
    BY <1>1, CatInARow
  <1> QED
    BY <1>1, <1>2

(* Two texts, one behind the other, are told apart by the length of the     *)
(* first.                                                                   *)
LEMMA Halves ==
    ASSUME NEW a \in Seq(Tokens), NEW b \in Seq(Tokens)
    PROVE  /\ SubSeq(a \o b, 1, Len(a)) = a
           /\ From(a \o b, Len(a) + 1) = b
  <1>1. /\ a \o b \in Seq(Tokens) /\ Len(a) \in Nat /\ Len(b) \in Nat
        /\ Len(a \o b) = Len(a) + Len(b)
        /\ \A i \in 1 .. Len(a) + Len(b) :
              (a \o b)[i] = IF i <= Len(a) THEN a[i] ELSE b[i - Len(a)]
    BY ConcatProperties, LenProperties
  <1>2. SubSeq(a \o b, 1, Len(a)) = a
    <2>1. /\ SubSeq(a \o b, 1, Len(a)) \in Seq(Tokens)
          /\ Len(SubSeq(a \o b, 1, Len(a))) = Len(a)
          /\ \A i \in 1 .. Len(a) : SubSeq(a \o b, 1, Len(a))[i] = (a \o b)[i]
      BY <1>1
    <2>2. \A i \in 1 .. Len(a) : SubSeq(a \o b, 1, Len(a))[i] = a[i]
      BY <1>1, <2>1
    <2> QED
      BY <2>1, <2>2, SeqEqual
  <1>3. From(a \o b, Len(a) + 1) = b
    <2>1. /\ SubSeq(a \o b, Len(a) + 1, Len(a) + Len(b)) \in Seq(Tokens)
          /\ Len(SubSeq(a \o b, Len(a) + 1, Len(a) + Len(b))) = Len(b)
          /\ \A i \in 1 .. Len(b) :
                SubSeq(a \o b, Len(a) + 1, Len(a) + Len(b))[i] = (a \o b)[Len(a) + i]
      BY <1>1
    <2>2. \A i \in 1 .. Len(b) :
             SubSeq(a \o b, Len(a) + 1, Len(a) + Len(b))[i] = b[i]
      BY <1>1, <2>1
    <2>3. SubSeq(a \o b, Len(a) + 1, Len(a) + Len(b)) = b
      BY <2>1, <2>2, SeqEqual
    <2> QED
      BY <1>1, <2>3 DEF From
  <1> QED
    BY <1>2, <1>3

(* A text that goes in between two others.                                  *)
LEMMA Inserted ==
    ASSUME NEW a \in Seq(Tokens), NEW b \in Seq(Tokens), NEW t \in Seq(Tokens)
    PROVE  InsertAt(a \o b, Len(a), t) = a \o t \o b
  BY Halves DEF InsertAt

(* A set of numbers up to n has a largest and a smallest one.               *)
LEMMA Ends ==
    ASSUME NEW n \in Nat, NEW T, T \subseteq 1 .. n, T # {}
    PROVE  Min(T) \in T /\ Max(T) \in T
  <1>1. \E x \in T : \A y \in T : x <= y
    <2>1. T \subseteq Nat
      OBVIOUS
    <2> QED
      BY <2>1, LeastNatural
  <1>2. \E x \in T : \A y \in T : x >= y
    <2> DEFINE Rests == {n - y : y \in T}
    <2>1. Rests \subseteq Nat /\ Rests # {}
      <3>1. \A y \in T : n - y \in Nat
        OBVIOUS
      <3> QED
        BY <3>1
    <2>2. PICK r \in Rests : \A s \in Rests : r <= s
      <3> HIDE DEF Rests
      <3> QED
        BY <2>1, LeastNatural
    <2>3. PICK x \in T : r = n - x
      OBVIOUS
    <2>4. ASSUME NEW y \in T PROVE x >= y
      <3>1. n - y \in Rests
        OBVIOUS
      <3>2. n - x <= n - y
        BY <2>2, <2>3, <3>1
      <3>3. n \in Int /\ x \in Int /\ y \in Int
        OBVIOUS
      <3> HIDE DEF Rests
      <3> QED
        BY <3>2, <3>3
    <2> QED
      BY <2>4
  <1> QED
    BY <1>1, <1>2 DEF Min, Max

(* The lines between two markers are lines of what git printed.             *)
LEMMA MarkedLines ==
    ASSUME NEW ls \in Seq(Tokens), NEW start, NEW end
    PROVE  MarkerSection(ls, start, end).ls \in Seq(Tokens)
  <1> DEFINE i == Where(LAMBDA l : l = start, ls)
             ends == {j \in i + 1 .. Len(ls) : ls[j] = end}
             last == IF ends = {} THEN Len(ls) ELSE Min(ends) - 1
             full == {j \in i + 1 .. last : ls[j] # ""}
  <1>1. Len(ls) \in Nat /\ DOMAIN ls = 1 .. Len(ls) /\ \A k \in 1 .. Len(ls) : ls[k] \in Tokens
    OBVIOUS
  <1>2. i \in 0 .. Len(ls)
    <2>1. CASE \E k \in DOMAIN ls : ls[k] = start
      <3> DEFINE At == {k \in DOMAIN ls : ls[k] = start}
      <3>1. PICK k \in At : \A j \in At : k <= j
        <4>1. At \subseteq Nat /\ At # {}
          BY <1>1, <2>1
        <4> HIDE DEF At
        <4> QED
          BY <4>1, LeastNatural
      <3>2. k \in DOMAIN ls /\ ls[k] = start /\ \A j \in 1 .. k - 1 : ~(ls[j] = start)
        BY <1>1, <3>1
      <3>3. i \in DOMAIN ls
        BY <3>2 DEF Where
      <3> QED
        BY <1>1, <3>3
    <2>2. CASE ~\E k \in DOMAIN ls : ls[k] = start
      BY <1>1, <2>2 DEF Where
    <2> QED
      BY <2>1, <2>2
  <1>3. last \in Int /\ last <= Len(ls)
    <2>1. CASE ends = {}
      BY <1>1, <2>1
    <2>2. CASE ends # {}
      <3>1. ends \subseteq 1 .. Len(ls)
        <4>1. ends \subseteq i + 1 .. Len(ls)
          OBVIOUS
        <4> HIDE DEF i, ends
        <4> QED
          BY <1>1, <1>2, <4>1
      <3>2. last = Min(ends) - 1
        BY <2>2
      <3> HIDE DEF ends, last
      <3>3. Min(ends) \in 1 .. Len(ls)
        BY <1>1, <2>2, <3>1, Ends
      <3> QED
        BY <1>1, <3>2, <3>3
    <2> QED
      BY <2>1, <2>2
  <1>4. full # {} => SubSeq(ls, Min(full), Max(full)) \in Seq(Tokens)
    <2> SUFFICES ASSUME full # {} PROVE SubSeq(ls, Min(full), Max(full)) \in Seq(Tokens)
      OBVIOUS
    <2>1. full \subseteq 1 .. Len(ls)
      <3>1. full \subseteq i + 1 .. last
        OBVIOUS
      <3> HIDE DEF i, last, full
      <3> QED
        BY <1>1, <1>2, <1>3, <3>1
    <2> HIDE DEF full
    <2>2. Min(full) \in 1 .. Len(ls) /\ Max(full) \in 1 .. Len(ls)
      BY <1>1, <2>1, Ends
    <2> QED
      BY <1>1, <2>2
  <1>5. MarkerSection(ls, start, end).ls \in {<<>>, SubSeq(ls, Min(full), Max(full))}
        /\ (full = {} => MarkerSection(ls, start, end).ls = <<>>)
    BY DEF MarkerSection
  <1> HIDE DEF full
  <1>6. <<>> \in Seq(Tokens)
    OBVIOUS
  <1> QED
    BY <1>4, <1>5, <1>6

(* The first lines of a text.                                               *)
LEMMA FirstLines ==
    ASSUME NEW s \in Seq(Tokens), NEW n \in Nat
    PROVE  First(s, n) \in Seq(Tokens)
  BY DEF First

(* What git told is a text.                                                 *)
LEMMA GitText ==
    ASSUME NEW out \in Outputs
    PROVE  GitSection(out) \in Seq(Tokens)
  <1> DEFINE branch == MarkerSection(out, "B", "S")
             changes == MarkerSection(out, "S", "C")
             commits == MarkerSection(out, "C", "none")
             part(head, body) == First(<<head>> \o body, SectionMax)
             one == IF branch.ls = <<>> THEN <<>> ELSE part("branch", branch.ls)
             two == IF changes.ls # <<>> THEN part("status", First(changes.ls, StatusLines))
                    ELSE IF changes.there THEN <<"clean">> ELSE <<>>
             three == IF commits.ls = <<>> THEN <<>> ELSE part("commits", commits.ls)
  <1>1. out \in Seq(Tokens) /\ SectionMax \in Nat /\ StatusLines \in Nat
    <2>1. STRING \subseteq Tokens
      BY DEF Tokens
    <2>2. out \in Seq(STRING)
      BY OutputsAreLines
    <2> QED
      BY <2>1, <2>2, SeqMonotonic, LimitsAreNaturals
  <1>2. /\ branch.ls \in Seq(Tokens) /\ changes.ls \in Seq(Tokens)
        /\ commits.ls \in Seq(Tokens)
    BY <1>1, MarkedLines
  <1>3. ASSUME NEW head \in Tokens, NEW body \in Seq(Tokens)
        PROVE  part(head, body) \in Seq(Tokens)
    <2>1. <<head>> \o body \in Seq(Tokens)
      BY Short, ConcatProperties
    <2> QED
      BY <1>1, <2>1, FirstLines
  <1>4. First(changes.ls, StatusLines) \in Seq(Tokens)
    BY <1>1, <1>2, FirstLines
  <1>5. GitSection(out) = one \o two \o three
    BY DEF GitSection
  <1> HIDE DEF part, branch, changes, commits
  <1>6. one \in Seq(Tokens)
    BY <1>2, <1>3, Short, Written
  <1>7. two \in Seq(Tokens)
    BY <1>2, <1>3, <1>4, Short, Written
  <1>8. three \in Seq(Tokens)
    BY <1>2, <1>3, Short, Written
  <1> HIDE DEF one, two, three
  <1> QED
    BY <1>5, <1>6, <1>7, <1>8, ConcatProperties

(* The clause of the prompt, its environment, and the place behind what git *)
(* told.                                                                    *)
ClauseOf(vision) == IF vision THEN Clause ELSE <<>>
EnvOf(env, gave) == IF env THEN <<"env", "wd">> \o gave \o <<"/env">> ELSE <<>>
PlaceOf(vision, env, gave) ==
    IF env THEN 1 + Len(ClauseOf(vision)) + 2 + Len(gave) ELSE 0

(* The prompt of these parts.                                               *)
PromptOf(vision, env, gave, rest) ==
    [text |-> <<"base">> \o ClauseOf(vision) \o EnvOf(env, gave) \o rest,
     visionPos |-> 1, vision |-> vision, gitPos |-> PlaceOf(vision, env, gave)]

(* The inductive invariant: the prompt is made of its parts in their order, *)
(* its offsets say where they are, and the session holds its text.          *)
PromptInv ==
    /\ made \in [calls : Nat, env : BOOLEAN, rest : Seq(Tokens)]
    /\ gits \in Seq(Tokens) /\ prompt.vision \in BOOLEAN
    /\ prompt = PromptOf(prompt.vision, made.env, gits, made.rest)
    /\ system \in {<<>>, prompt.text}

(* The parts of a prompt are texts.                                         *)
LEMMA Parts ==
    ASSUME NEW vision \in BOOLEAN, NEW env \in BOOLEAN, NEW gave \in Seq(Tokens)
    PROVE  /\ <<"base">> \in Seq(Tokens) /\ Len(<<"base">>) = 1
           /\ ClauseOf(vision) \in Seq(Tokens)
           /\ Len(ClauseOf(vision)) = IF vision THEN 2 ELSE 0
           /\ EnvOf(env, gave) \in Seq(Tokens)
           /\ PlaceOf(vision, env, gave) \in Nat
  <1>1. <<"base">> \in Seq(Tokens) /\ Len(<<"base">>) = 1
    BY Short, Written
  <1>2. ClauseOf(vision) \in Seq(Tokens) /\ Len(ClauseOf(vision)) = IF vision THEN 2 ELSE 0
    BY Short, Written DEF ClauseOf, Clause
  <1>3. EnvOf(env, gave) \in Seq(Tokens)
    <2>1. <<"env", "wd">> \in Seq(Tokens) /\ <<"/env">> \in Seq(Tokens) /\ <<>> \in Seq(Tokens)
      BY Short, Written
    <2>2. <<"env", "wd">> \o gave \o <<"/env">> \in Seq(Tokens)
      BY <2>1, ConcatProperties
    <2> QED
      BY <2>1, <2>2 DEF EnvOf
  <1>4. PlaceOf(vision, env, gave) \in Nat
    <2>1. Len(gave) \in Nat
      OBVIOUS
    <2>2. Len(ClauseOf(vision)) \in Nat
      BY <1>2
    <2> QED
      BY <2>1, <2>2 DEF PlaceOf
  <1> QED
    BY <1>1, <1>2, <1>3, <1>4

(* The clause goes in and out at its place, and the place of the git status *)
(* moves with it.                                                           *)
LEMMA ClausePlaced ==
    ASSUME NEW vision \in BOOLEAN, NEW want \in BOOLEAN, NEW rest \in Seq(Tokens),
           NEW place \in Nat
    PROVE  WithVision([text |-> <<"base">> \o ClauseOf(vision) \o rest, visionPos |-> 1,
                       vision |-> vision, gitPos |-> place], want)
             = [text |-> <<"base">> \o ClauseOf(want) \o rest, visionPos |-> 1, vision |-> want,
                gitPos |-> IF place > 0
                           THEN place + Len(ClauseOf(want)) - Len(ClauseOf(vision)) ELSE 0]
  <1> DEFINE base == <<"base">>
             bare == base \o <<>> \o rest
             said == base \o Clause \o rest
             p(text) == [text |-> text, visionPos |-> 1, vision |-> vision, gitPos |-> place]
  <1>1. base \in Seq(Tokens) /\ Len(base) = 1
    BY Short, Written
  <1>2. Clause \in Seq(Tokens) /\ Len(Clause) = 2
    BY Short, Written DEF Clause
  <1> HIDE DEF base
  <1>3. base \o Clause \in Seq(Tokens) /\ Len(base \o Clause) = 3
    <2>1. base \o Clause \in Seq(Tokens) /\ Len(base \o Clause) = Len(base) + Len(Clause)
      <3>1. base \in Seq(Tokens) /\ Clause \in Seq(Tokens)
        BY <1>1, <1>2
      <3> QED
        BY <3>1, InARow
    <2> QED
      BY <1>1, <1>2, <2>1
  <1>4. bare = base \o rest
    BY <1>1, ConcatEmptySeq
  <1>5. Clause \o rest \in Seq(Tokens)
    BY <1>2, InARow
  <1>6. said = base \o (Clause \o rest)
    <2>1. Clause \in Seq(Tokens) /\ base \in Seq(Tokens)
      BY <1>1, <1>2
    <2> QED
      BY <2>1, InARow
  <1>7. InsertAt(bare, 1, Clause) = said
    <2>1. Clause \in Seq(Tokens) /\ base \in Seq(Tokens)
      BY <1>1, <1>2
    <2>2. InsertAt(base \o rest, Len(base), Clause) = base \o Clause \o rest
      BY <2>1, Inserted
    <2> QED
      BY <1>1, <1>4, <2>2
  <1>8. SubSeq(said, 1, 1) \o From(said, 4) = bare
    <2>1. SubSeq(base \o (Clause \o rest), 1, Len(base)) = base
      BY <1>1, <1>5, Halves
    <2>2. From(base \o Clause \o rest, Len(base \o Clause) + 1) = rest
      BY <1>3, Halves
    <2>3. SubSeq(said, 1, 1) = base
      BY <1>1, <1>6, <2>1
    <2>4. From(said, 4) = rest
      BY <1>3, <2>2
    <2> QED
      BY <1>4, <2>3, <2>4
  <1>9. ClauseOf(TRUE) = Clause /\ ClauseOf(FALSE) = <<>> /\ Len(<<>>) = 0
    BY DEF ClauseOf
  <1> DEFINE to(c) == base \o c \o rest
  <1>10. to(Clause) = said /\ to(<<>>) = bare
    OBVIOUS
  <1> HIDE DEF bare, said, to
  <1>11. ASSUME want = vision
         PROVE  WithVision(p(to(ClauseOf(vision))), want)
                  = [text |-> to(ClauseOf(want)), visionPos |-> 1, vision |-> want,
                     gitPos |-> IF place > 0
                       THEN place + Len(ClauseOf(want)) - Len(ClauseOf(vision)) ELSE 0]
    <2>1. WithVision(p(to(ClauseOf(vision))), want) = p(to(ClauseOf(vision)))
      BY <1>11 DEF WithVision
    <2>2. place = IF place > 0 THEN place + Len(ClauseOf(want)) - Len(ClauseOf(vision)) ELSE 0
      <3>1. Len(ClauseOf(vision)) \in Nat
        BY <1>2, <1>9
      <3> QED
        BY <1>11, <3>1
    <2> QED
      BY <1>11, <2>1, <2>2
  <1>12. ASSUME want = TRUE, vision = FALSE
         PROVE  WithVision(p(to(ClauseOf(vision))), want)
                  = [text |-> to(ClauseOf(want)), visionPos |-> 1, vision |-> want,
                     gitPos |-> IF place > 0
                       THEN place + Len(ClauseOf(want)) - Len(ClauseOf(vision)) ELSE 0]
    <2>1. WithVision(p(bare), TRUE)
            = [text |-> InsertAt(bare, 1, Clause), visionPos |-> 1, vision |-> TRUE,
               gitPos |-> IF place > 0 THEN place + Len(Clause) ELSE 0]
      BY <1>12 DEF WithVision
    <2>2. place + Len(Clause) = place + Len(Clause) - Len(<<>>)
      BY <1>2, <1>9
    <2>3. ClauseOf(vision) = <<>> /\ ClauseOf(want) = Clause
      BY <1>9, <1>12, Zenon
    <2>4. to(ClauseOf(vision)) = bare /\ to(ClauseOf(want)) = said
      BY <1>10, <2>3, Zenon
    <2> QED
      BY <1>7, <1>12, <2>1, <2>2, <2>3, <2>4
  <1>13. ASSUME want = FALSE, vision = TRUE
         PROVE  WithVision(p(to(ClauseOf(vision))), want)
                  = [text |-> to(ClauseOf(want)), visionPos |-> 1, vision |-> want,
                     gitPos |-> IF place > 0
                       THEN place + Len(ClauseOf(want)) - Len(ClauseOf(vision)) ELSE 0]
    <2>1. WithVision(p(said), FALSE)
            = [text |-> SubSeq(said, 1, 1) \o From(said, 1 + Len(Clause) + 1),
               visionPos |-> 1, vision |-> FALSE,
               gitPos |-> IF place > 0 THEN place + (- Len(Clause)) ELSE 0]
      BY <1>13 DEF WithVision
    <2>2. /\ place + (- Len(Clause)) = place + Len(<<>>) - Len(Clause)
          /\ 1 + Len(Clause) + 1 = 4
      BY <1>2, <1>9
    <2>3. ClauseOf(vision) = Clause /\ ClauseOf(want) = <<>>
      BY <1>9, <1>13, Zenon
    <2>4. to(ClauseOf(vision)) = said /\ to(ClauseOf(want)) = bare
      BY <1>10, <2>3, Zenon
    <2> QED
      BY <1>8, <1>13, <2>1, <2>2, <2>3, <2>4
  <1>14. want = vision \/ (want = TRUE /\ vision = FALSE) \/ (want = FALSE /\ vision = TRUE)
    BY Zenon
  <1> QED
    BY <1>11, <1>12, <1>13, <1>14 DEF to, base

(* What git told goes in behind what it told before.                        *)
LEMMA GitPlaced ==
    ASSUME NEW vision \in BOOLEAN, NEW gave \in Seq(Tokens), NEW rest \in Seq(Tokens),
           NEW section \in Seq(Tokens)
    PROVE  /\ InsertAt(<<"base">> \o ClauseOf(vision) \o EnvOf(TRUE, gave) \o rest,
                       PlaceOf(vision, TRUE, gave), section)
                = <<"base">> \o ClauseOf(vision) \o EnvOf(TRUE, gave \o section) \o rest
           /\ PlaceOf(vision, TRUE, gave \o section)
                = PlaceOf(vision, TRUE, gave) + Len(section)
  <1> DEFINE front == <<"base">> \o ClauseOf(vision)
             opens == <<"env", "wd">>
             closes == <<"/env">>
             first == front \o (opens \o gave)
             last == closes \o rest
  <1>1. front \in Seq(Tokens) /\ Len(front) = 1 + Len(ClauseOf(vision))
    <2>1. <<"base">> \in Seq(Tokens) /\ Len(<<"base">>) = 1
      BY Parts
    <2>2. ClauseOf(vision) \in Seq(Tokens)
      BY Parts
    <2> DEFINE base == <<"base">>
    <2> HIDE DEF base
    <2>3. base \o ClauseOf(vision) \in Seq(Tokens)
          /\ Len(base \o ClauseOf(vision)) = Len(base) + Len(ClauseOf(vision))
      BY <2>1, <2>2, InARow DEF base
    <2> QED
      BY <2>1, <2>3 DEF base
  <1>2. /\ opens \in Seq(Tokens) /\ Len(opens) = 2 /\ closes \in Seq(Tokens)
    BY Short, Written
  <1>3. Len(gave) \in Nat /\ Len(section) \in Nat /\ Len(front) \in Nat
    BY <1>1, LenProperties
  <1>4. ASSUME NEW t \in Seq(Tokens)
        PROVE  EnvOf(TRUE, t) = opens \o t \o closes /\ PlaceOf(vision, TRUE, t) = Len(front) + 2 + Len(t)
    BY <1>1 DEF EnvOf, PlaceOf
  <1> HIDE DEF front, opens, closes
  <1>5. gave \o section \in Seq(Tokens) /\ Len(gave \o section) = Len(gave) + Len(section)
    BY InARow
  <1>6. /\ front \o (opens \o gave \o closes) \o rest = first \o last
        /\ first \o section \o last = front \o (opens \o (gave \o section) \o closes) \o rest
        /\ first \in Seq(Tokens) /\ last \in Seq(Tokens)
        /\ Len(first) = Len(front) + Len(opens) + Len(gave)
    <2>1. front \in Seq(Tokens) /\ opens \in Seq(Tokens) /\ closes \in Seq(Tokens)
      BY <1>1, <1>2
    <2>2. /\ Cat(opens, gave) \in Seq(Tokens)
          /\ Len(Cat(opens, gave)) = Len(opens) + Len(gave)
      BY <2>1, CatInARow
    <2>3. /\ Cat(front, Cat(opens, gave)) \in Seq(Tokens)
          /\ Len(Cat(front, Cat(opens, gave))) = Len(front) + Len(Cat(opens, gave))
      BY <2>1, <2>2, CatInARow
    <2>4. /\ Cat(closes, rest) \in Seq(Tokens) /\ Cat(gave, section) \in Seq(Tokens)
          /\ Cat(opens, Cat(gave, section)) \in Seq(Tokens)
      BY <2>1, CatInARow
    <2>5. Cat(Cat(front, Cat(Cat(opens, gave), closes)), rest)
            = Cat(Cat(front, Cat(opens, gave)), Cat(closes, rest))
      BY <2>1, <2>2, Regrouped
    <2>6. Cat(Cat(front, Cat(Cat(opens, Cat(gave, section)), closes)), rest)
            = Cat(Cat(front, Cat(opens, Cat(gave, section))), Cat(closes, rest))
      BY <2>1, <2>4, Regrouped
    <2>7. Cat(Cat(front, Cat(opens, gave)), section) = Cat(front, Cat(opens, Cat(gave, section)))
      <3>1. Cat(Cat(front, Cat(opens, gave)), section)
              = Cat(front, Cat(Cat(opens, gave), section))
        BY <2>1, <2>2, CatInARow
      <3>2. Cat(Cat(opens, gave), section) = Cat(opens, Cat(gave, section))
        BY <2>1, CatInARow
      <3> QED
        BY <3>1, <3>2
    <2>8. Len(Cat(front, Cat(opens, gave))) = Len(front) + Len(opens) + Len(gave)
      BY <1>2, <1>3, <2>2, <2>3
    <2>9. /\ Cat(Cat(front, Cat(Cat(opens, gave), closes)), rest)
               = Cat(Cat(front, Cat(opens, gave)), Cat(closes, rest))
          /\ Cat(Cat(Cat(front, Cat(opens, gave)), section), Cat(closes, rest))
               = Cat(Cat(front, Cat(Cat(opens, Cat(gave, section)), closes)), rest)
          /\ Cat(front, Cat(opens, gave)) \in Seq(Tokens) /\ Cat(closes, rest) \in Seq(Tokens)
          /\ Len(Cat(front, Cat(opens, gave))) = Len(front) + Len(opens) + Len(gave)
      BY <2>3, <2>4, <2>5, <2>6, <2>7, <2>8
    <2> QED
      BY <2>9, Zenon DEF Cat
  <1>7. /\ EnvOf(TRUE, gave) = opens \o gave \o closes
        /\ EnvOf(TRUE, gave \o section) = opens \o (gave \o section) \o closes
        /\ PlaceOf(vision, TRUE, gave) = Len(front) + 2 + Len(gave)
        /\ PlaceOf(vision, TRUE, gave \o section) = Len(front) + 2 + Len(gave \o section)
    BY <1>4, <1>5
  <1> HIDE DEF first, last
  <1>8. InsertAt(first \o last, Len(first), section) = first \o section \o last
    <2>1. first \in Seq(Tokens) /\ last \in Seq(Tokens)
      BY <1>6
    <2> QED
      BY <2>1, Inserted
  <1>9. InsertAt(front \o EnvOf(TRUE, gave) \o rest, PlaceOf(vision, TRUE, gave), section)
          = front \o EnvOf(TRUE, gave \o section) \o rest
    <2>1. PlaceOf(vision, TRUE, gave) = Len(first)
      BY <1>2, <1>6, <1>7
    <2>2. front \o EnvOf(TRUE, gave) \o rest = first \o last
      BY <1>6, <1>7, Zenon
    <2>3. front \o EnvOf(TRUE, gave \o section) \o rest = first \o section \o last
      BY <1>6, <1>7, Zenon
    <2> QED
      BY <1>8, <2>1, <2>2, <2>3, Zenon
  <1>10. PlaceOf(vision, TRUE, gave \o section) = PlaceOf(vision, TRUE, gave) + Len(section)
    <2> DEFINE n == Len(gave)
               m == Len(section)
               k == Len(front)
    <2>1. /\ PlaceOf(vision, TRUE, gave \o section) = k + 2 + (n + m)
          /\ PlaceOf(vision, TRUE, gave) = k + 2 + n
      BY <1>5, <1>7
    <2>2. n \in Nat /\ m \in Nat /\ k \in Nat
      BY <1>3
    <2> HIDE DEF n, m, k
    <2>3. k + 2 + (n + m) = k + 2 + n + m
      BY <2>2
    <2> QED
      BY <2>1, <2>3 DEF m
  <1> QED
    BY <1>9, <1>10 DEF front

(* Turning the clause on or off leaves a prompt of the same other parts.    *)
LEMMA ClauseTurned ==
    ASSUME NEW vision \in BOOLEAN, NEW want \in BOOLEAN, NEW env \in BOOLEAN,
           NEW gave \in Seq(Tokens), NEW rest \in Seq(Tokens)
    PROVE  WithVision(PromptOf(vision, env, gave, rest), want) = PromptOf(want, env, gave, rest)
  <1> DEFINE tail == EnvOf(env, gave) \o rest
             place == PlaceOf(vision, env, gave)
             moved == IF place > 0
                      THEN place + Len(ClauseOf(want)) - Len(ClauseOf(vision)) ELSE 0
             text(v) == <<"base">> \o ClauseOf(v) \o EnvOf(env, gave) \o rest
             split(v) == <<"base">> \o ClauseOf(v) \o tail
  <1>1. tail \in Seq(Tokens)
    <2>1. EnvOf(env, gave) \in Seq(Tokens)
      BY Parts
    <2> QED
      BY <2>1, InARow
  <1>2. place \in Nat
    BY Parts
  <1>3. text(vision) = split(vision) /\ text(want) = split(want)
    <2> HIDE DEF text, split
    <2>1. ASSUME NEW v \in BOOLEAN PROVE text(v) = split(v)
      <3> DEFINE front == <<"base">> \o ClauseOf(v)
                 e == EnvOf(env, gave)
      <3>1. front \in Seq(Tokens)
        <4>1. <<"base">> \in Seq(Tokens) /\ ClauseOf(v) \in Seq(Tokens)
          BY Parts
        <4> QED
          BY <4>1, InARow
      <3>2. e \in Seq(Tokens)
        BY Parts
      <3> HIDE DEF front, e
      <3>3. Cat(Cat(front, e), rest) = Cat(front, Cat(e, rest))
        BY <3>1, <3>2, CatInARow
      <3> QED
        BY <3>3, Zenon DEF Cat, front, e, text, split, tail
    <2> QED
      BY <2>1
  <1>4. moved = PlaceOf(want, env, gave)
    <2>1. Len(ClauseOf(vision)) \in Nat /\ Len(ClauseOf(want)) \in Nat
      <3>1. ClauseOf(vision) \in Seq(Tokens) /\ ClauseOf(want) \in Seq(Tokens)
        BY Parts
      <3> QED
        BY <3>1, LenProperties
    <2>2. Len(gave) \in Nat
      BY LenProperties
    <2> HIDE DEF tail, text, split
    <2>3. CASE env = TRUE
      <3>1. /\ place = 1 + Len(ClauseOf(vision)) + 2 + Len(gave)
            /\ PlaceOf(want, env, gave) = 1 + Len(ClauseOf(want)) + 2 + Len(gave)
        BY <2>3, Zenon DEF PlaceOf
      <3> HIDE DEF place
      <3>2. place > 0
        BY <2>1, <2>2, <3>1
      <3>3. place + Len(ClauseOf(want)) - Len(ClauseOf(vision)) = PlaceOf(want, env, gave)
        BY <2>1, <2>2, <3>1
      <3> QED
        BY <3>2, <3>3
    <2>4. CASE env = FALSE
      <3>1. place = 0 /\ PlaceOf(want, env, gave) = 0
        BY <2>4, Zenon DEF PlaceOf
      <3> HIDE DEF place
      <3> QED
        BY <3>1
    <2> QED
      BY <2>3, <2>4, Zenon
  <1> HIDE DEF tail, place, moved
  <1>5. WithVision([text |-> split(vision), visionPos |-> 1, vision |-> vision,
                    gitPos |-> place], want)
          = [text |-> split(want), visionPos |-> 1, vision |-> want, gitPos |-> moved]
    BY <1>1, <1>2, ClausePlaced DEF moved
  <1> HIDE DEF split
  <1> QED
    BY <1>3, <1>4, <1>5, Zenon DEF PromptOf, place

(* What git told adds to what it told before.                               *)
LEMMA GitAdded ==
    ASSUME NEW vision \in BOOLEAN, NEW gave \in Seq(Tokens), NEW rest \in Seq(Tokens),
           NEW section \in Seq(Tokens)
    PROVE  GitApplied(PromptOf(vision, TRUE, gave, rest), section)
             = PromptOf(vision, TRUE, gave \o section, rest)
  <1> DEFINE text == <<"base">> \o ClauseOf(vision) \o EnvOf(TRUE, gave) \o rest
             after == <<"base">> \o ClauseOf(vision) \o EnvOf(TRUE, gave \o section) \o rest
             place == PlaceOf(vision, TRUE, gave)
             behind == PlaceOf(vision, TRUE, gave \o section)
  <1>1. InsertAt(text, place, section) = after /\ behind = place + Len(section)
    BY GitPlaced
  <1>2. /\ PromptOf(vision, TRUE, gave, rest)
             = [text |-> text, visionPos |-> 1, vision |-> vision, gitPos |-> place]
        /\ PromptOf(vision, TRUE, gave \o section, rest)
             = [text |-> after, visionPos |-> 1, vision |-> vision, gitPos |-> behind]
    BY Zenon DEF PromptOf
  <1> HIDE DEF text, after, place, behind
  <1>3. GitApplied([text |-> text, visionPos |-> 1, vision |-> vision, gitPos |-> place], section)
          = [text |-> InsertAt(text, place, section), visionPos |-> 1, vision |-> vision,
             gitPos |-> place + Len(section)]
    <2> DEFINE p == [text |-> text, visionPos |-> 1, vision |-> vision, gitPos |-> place]
    <2>1. p.text = text /\ p.gitPos = place
      OBVIOUS
    <2>2. GitApplied(p, section)
            = [p EXCEPT !.text = InsertAt(p.text, p.gitPos, section),
                        !.gitPos = p.gitPos + Len(section)]
      BY DEF GitApplied
    <2>3. GitApplied(p, section)
            = [p EXCEPT !.text = InsertAt(text, place, section),
                        !.gitPos = place + Len(section)]
      <3> HIDE DEF p
      <3> QED
        BY <2>1, <2>2
    <2> QED
      BY <2>3
  <1> QED
    BY <1>1, <1>2, <1>3

(* Nothing goes in between.                                                 *)
LEMMA ThreeWords ==
    ASSUME NEW a, NEW b, NEW c
    PROVE  <<a, b>> \o <<>> \o <<c>> = <<a, b, c>>
  <1>1. /\ <<a, b>> \in Seq({a, b, c}) /\ <<c>> \in Seq({a, b, c})
        /\ <<a, b, c>> \in Seq({a, b, c})
    OBVIOUS
  <1>2. <<a, b>> \o <<>> = <<a, b>>
    BY <1>1, ConcatEmptySeq
  <1>3. <<a, b>> \o <<c>> = <<a, b, c>>
    <2> DEFINE d == <<a, b>>
               e == <<c>>
               f == <<a, b, c>>
    <2>1. /\ Len(d) = 2 /\ d[1] = a /\ d[2] = b
          /\ Len(e) = 1 /\ e[1] = c
          /\ Len(f) = 3 /\ f[1] = a /\ f[2] = b /\ f[3] = c
      OBVIOUS
    <2> HIDE DEF d, e, f
    <2>2. /\ d \o e \in Seq({a, b, c}) /\ Len(d \o e) = Len(d) + Len(e)
          /\ \A i \in 1 .. Len(d) + Len(e) :
                (d \o e)[i] = IF i <= Len(d) THEN d[i] ELSE e[i - Len(d)]
      BY <1>1, ConcatProperties DEF d, e
    <2>3. Len(d \o e) = 3 /\ (d \o e)[1] = a /\ (d \o e)[2] = b /\ (d \o e)[3] = c
      BY <2>1, <2>2
    <2>4. \A i \in 1 .. 3 : (d \o e)[i] = f[i]
      BY <2>1, <2>3
    <2>5. f \in Seq({a, b, c})
      BY <1>1 DEF f
    <2>6. d \o e = f
      BY <2>1, <2>2, <2>3, <2>4, <2>5, SeqEqual
    <2> QED
      BY <2>6 DEF d, e, f
  <1> QED
    BY <1>2, <1>3

(* A prompt is made of its parts from the start.                            *)
LEMMA NewPromptOf ==
    ASSUME NEW vision \in BOOLEAN, NEW env \in BOOLEAN, NEW block \in Seq(Tokens),
           NEW menu \in Seq(Tokens)
    PROVE  NewPrompt(vision, env, block, menu) = PromptOf(vision, env, <<>>, block \o menu)
  <1> DEFINE base == <<"base">>
             first == [text |-> base, visionPos |-> 1, vision |-> FALSE, gitPos |-> 0]
             text == base \o ClauseOf(vision)
             head == [text |-> text, visionPos |-> 1, vision |-> vision, gitPos |-> 0]
             tail == IF env THEN <<"env", "wd", "/env">> ELSE <<>>
  <1>1. /\ base \in Seq(Tokens) /\ ClauseOf(FALSE) = <<>> /\ ClauseOf(vision) \in Seq(Tokens)
        /\ <<>> \in Seq(Tokens)
    <2>1. base \in Seq(Tokens) /\ <<>> \in Seq(Tokens)
      BY Short, Written
    <2>2. ClauseOf(vision) \in Seq(Tokens)
      BY <2>1, Parts
    <2> QED
      BY <2>1, <2>2 DEF ClauseOf
  <1>2. text \in Seq(Tokens) /\ Len(text) = 1 + Len(ClauseOf(vision))
    <2>1. Len(base) = 1
      OBVIOUS
    <2> HIDE DEF base
    <2>2. text \in Seq(Tokens) /\ Len(text) = Len(base) + Len(ClauseOf(vision))
      BY <1>1, InARow
    <2> QED
      BY <2>1, <2>2
  <1>3. WithVision(first, vision) = head
    <2>1. base = base \o ClauseOf(FALSE) \o <<>> /\ text = base \o ClauseOf(vision) \o <<>>
      <3> HIDE DEF base
      <3> QED
        BY <1>1, <1>2, ConcatEmptySeq
    <2>2. WithVision([text |-> base \o ClauseOf(FALSE) \o <<>>, visionPos |-> 1, vision |-> FALSE,
                      gitPos |-> 0], vision)
            = [text |-> base \o ClauseOf(vision) \o <<>>, visionPos |-> 1, vision |-> vision,
               gitPos |-> IF 0 > 0
                          THEN 0 + Len(ClauseOf(vision)) - Len(ClauseOf(FALSE)) ELSE 0]
      <3>1. 0 \in Nat /\ FALSE \in BOOLEAN /\ <<>> \in Seq(Tokens)
        OBVIOUS
      <3> QED
        BY <3>1, ClausePlaced
    <2>3. (IF 0 > 0 THEN 0 + Len(ClauseOf(vision)) - Len(ClauseOf(FALSE)) ELSE 0) = 0
      OBVIOUS
    <2> HIDE DEF base, text
    <2> QED
      BY <2>1, <2>2, <2>3, Zenon
  <1>4. tail = EnvOf(env, <<>>)
    <2>1. <<"env", "wd">> \o <<>> \o <<"/env">> = <<"env", "wd", "/env">>
      BY ThreeWords
    <2> QED
      BY <2>1, Zenon DEF EnvOf
  <1>5. PlaceOf(vision, env, <<>>) = IF env THEN Len(text) + 2 ELSE 0
    <2>1. Len(ClauseOf(vision)) \in Nat
      BY <1>1, LenProperties
    <2>2. 1 + Len(ClauseOf(vision)) + 2 + Len(<<>>) = 1 + Len(ClauseOf(vision)) + 2
      BY <2>1
    <2> HIDE DEF text
    <2> QED
      BY <1>2, <2>2, Zenon DEF PlaceOf
  <1>6. tail \in Seq(Tokens)
    BY <1>1, <1>4, Parts
  <1>7. text \o tail \o block \o menu = text \o tail \o (block \o menu)
    <2> HIDE DEF text, tail
    <2>1. text \o tail \in Seq(Tokens)
      BY <1>2, <1>6, InARow
    <2> DEFINE both == text \o tail
    <2> HIDE DEF both
    <2>2. Cat(Cat(both, block), menu) = Cat(both, Cat(block, menu))
      <3>1. both \in Seq(Tokens)
        BY <2>1 DEF both
      <3> QED
        BY <3>1, CatInARow
    <2> QED
      BY <2>2, Zenon DEF both, Cat
  <1>8. NewPrompt(vision, env, block, menu)
          = [head EXCEPT !.text = text \o tail \o block \o menu,
                         !.gitPos = IF env THEN Len(text) + 2 ELSE 0]
    <2> DEFINE h == WithVision(first, vision)
    <2>1. h.text = text
      BY <1>3
    <2>2. NewPrompt(vision, env, block, menu)
            = [h EXCEPT !.text = h.text \o tail \o block \o menu,
                        !.gitPos = IF env THEN Len(h.text) + 2 ELSE 0]
      BY Zenon DEF NewPrompt
    <2> HIDE DEF text, tail, head, h
    <2> QED
      BY <1>3, <2>1, <2>2 DEF h
  <1>9. PromptOf(vision, env, <<>>, block \o menu)
          = [text |-> text \o tail \o (block \o menu), visionPos |-> 1, vision |-> vision,
             gitPos |-> IF env THEN Len(text) + 2 ELSE 0]
    <2> HIDE DEF tail
    <2> QED
      BY <1>4, <1>5, Zenon DEF PromptOf
  <1> HIDE DEF text, tail
  <1> QED
    BY <1>7, <1>8, <1>9

(* The invariant holds when a prompt is made.                               *)
LEMMA PromptStarts == PromptInit => PromptInv
  <1> SUFFICES ASSUME PromptInit PROVE PromptInv
    OBVIOUS
  <1>1. PICK vision \in BOOLEAN, env \in BOOLEAN, block \in {<<>>, <<"block">>},
             menu \in {<<>>, <<"menu">>} :
           /\ prompt = NewPrompt(vision, env, block, menu)
           /\ made = [calls |-> 0, env |-> env, rest |-> block \o menu]
           /\ system = <<>> /\ gits = <<>>
    BY DEF PromptInit
  <1>2. block \in Seq(Tokens) /\ menu \in Seq(Tokens) /\ <<>> \in Seq(Tokens)
    BY Short, Written
  <1>3. block \o menu \in Seq(Tokens)
    BY <1>2, InARow
  <1>4. prompt = PromptOf(vision, env, <<>>, block \o menu)
    BY <1>1, <1>2, NewPromptOf
  <1>5. prompt.vision = vision
    BY <1>4 DEF PromptOf
  <1>6. made \in [calls : Nat, env : BOOLEAN, rest : Seq(Tokens)]
    BY <1>1, <1>3
  <1>7. made.env = env /\ made.rest = block \o menu
    BY <1>1
  <1>8. prompt = PromptOf(prompt.vision, made.env, gits, made.rest)
    BY <1>1, <1>4, <1>5, <1>7
  <1>9. gits \in Seq(Tokens) /\ system \in {<<>>, prompt.text}
    BY <1>1, <1>2
  <1> QED
    BY <1>5, <1>6, <1>8, <1>9 DEF PromptInv

(* A call is counted and leaves the rest of what a prompt was made with.    *)
LEMMA Called ==
    ASSUME made \in [calls : Nat, env : BOOLEAN, rest : Seq(Tokens)], Call
    PROVE  /\ made' \in [calls : Nat, env : BOOLEAN, rest : Seq(Tokens)]
           /\ made'.env = made.env /\ made'.rest = made.rest
  BY DEF Call

(* A session that opens takes the text.                                     *)
LEMMA OpeningKept == PromptInv /\ SessionOpens => PromptInv'
  BY Called DEF PromptInv, SessionOpens

(* A session that is there takes the text that changed.                     *)
LEMMA ClauseKept ==
    ASSUME PromptInv, NEW want \in BOOLEAN, AppliesVision(want)
    PROVE  PromptInv'
  <1>1. /\ made' \in [calls : Nat, env : BOOLEAN, rest : Seq(Tokens)]
        /\ made'.env = made.env /\ made'.rest = made.rest /\ gits' = gits
    BY Called DEF PromptInv, AppliesVision
  <1>2. /\ prompt.vision \in BOOLEAN /\ made.env \in BOOLEAN /\ gits \in Seq(Tokens)
        /\ made.rest \in Seq(Tokens)
    BY DEF PromptInv
  <1>3. prompt' = PromptOf(want, made.env, gits, made.rest)
    <2>1. prompt' = WithVision(prompt, want)
      BY DEF AppliesVision
    <2>2. prompt = PromptOf(prompt.vision, made.env, gits, made.rest)
      BY DEF PromptInv
    <2>3. WithVision(PromptOf(prompt.vision, made.env, gits, made.rest), want)
            = PromptOf(want, made.env, gits, made.rest)
      BY <1>2, ClauseTurned
    <2> QED
      BY <2>1, <2>2, <2>3, Zenon
  <1>4. prompt'.vision = want
    BY <1>3 DEF PromptOf
  <1>5. prompt' = PromptOf(prompt'.vision, made'.env, gits', made'.rest)
    BY <1>1, <1>3, <1>4, Zenon
  <1>6. system' \in {<<>>, prompt'.text}
    <2>1. CASE system # <<>> /\ want # prompt.vision
      BY <2>1 DEF AppliesVision
    <2>2. CASE want = prompt.vision
      <3>1. prompt' = prompt
        BY <2>2, Zenon DEF AppliesVision, WithVision
      <3>2. system' = system
        BY <2>2, Zenon DEF AppliesVision
      <3> QED
        BY <3>1, <3>2 DEF PromptInv
    <2>3. CASE system = <<>>
      BY <2>3 DEF AppliesVision
    <2> QED
      BY <2>1, <2>2, <2>3, Zenon
  <1>7. gits' \in Seq(Tokens) /\ prompt'.vision \in BOOLEAN
    BY <1>1, <1>2, <1>4, Zenon
  <1> QED
    BY <1>1, <1>5, <1>6, <1>7 DEF PromptInv

(* What git told goes in where there is a place for it.                     *)
LEMMA AnswerKept ==
    ASSUME PromptInv, NEW out \in Outputs, EnvFinishes(out)
    PROVE  PromptInv'
  <1> DEFINE section == <<"git">> \o GitSection(out)
             skipped == prompt.gitPos = 0 \/ Len(section) = 1
  <1>1. section \in Seq(Tokens)
    <2>1. <<"git">> \in Seq(Tokens) /\ GitSection(out) \in Seq(Tokens)
      BY Short, Written, GitText
    <2> QED
      BY <2>1, InARow
  <1>2. /\ made' \in [calls : Nat, env : BOOLEAN, rest : Seq(Tokens)]
        /\ made'.env = made.env /\ made'.rest = made.rest
    BY Called DEF PromptInv, EnvFinishes
  <1>3. /\ prompt.vision \in BOOLEAN /\ made.env \in BOOLEAN /\ gits \in Seq(Tokens)
        /\ made.rest \in Seq(Tokens)
        /\ prompt = PromptOf(prompt.vision, made.env, gits, made.rest)
        /\ system \in {<<>>, prompt.text}
    BY DEF PromptInv
  <1>4. /\ IF skipped THEN prompt' = prompt /\ gits' = gits
           ELSE prompt' = GitApplied(prompt, section) /\ gits' = gits \o section
        /\ system' = IF system # <<>> THEN prompt'.text ELSE system
    BY Zenon DEF EnvFinishes
  <1>5. ~skipped => made.env = TRUE
    <2> SUFFICES ASSUME made.env = FALSE PROVE prompt.gitPos = 0
      BY <1>3, Zenon
    <2>1. prompt.gitPos = PlaceOf(prompt.vision, made.env, gits)
      BY <1>3 DEF PromptOf
    <2> QED
      BY <2>1, Zenon DEF PlaceOf
  <1> HIDE DEF section, skipped
  <1>6. CASE skipped
    <2>1. prompt' = prompt /\ gits' = gits
      BY <1>4, <1>6
    <2>2. system' \in {<<>>, prompt'.text}
      BY <1>3, <1>4, <2>1
    <2> QED
      BY <1>2, <1>3, <2>1, <2>2, Zenon DEF PromptInv
  <1>7. CASE ~skipped
    <2>1. gits' = gits \o section /\ gits' \in Seq(Tokens)
      BY <1>1, <1>3, <1>4, <1>7, InARow
    <2>2. prompt' = PromptOf(prompt.vision, TRUE, gits \o section, made.rest)
      <3>1. GitApplied(PromptOf(prompt.vision, TRUE, gits, made.rest), section)
              = PromptOf(prompt.vision, TRUE, gits \o section, made.rest)
        BY <1>1, <1>3, GitAdded
      <3>2. prompt' = GitApplied(prompt, section)
        BY <1>4, <1>7
      <3>3. prompt = PromptOf(prompt.vision, TRUE, gits, made.rest)
        BY <1>3, <1>5, <1>7, Zenon
      <3> QED
        BY <3>1, <3>2, <3>3, Zenon
    <2>3. prompt'.vision = prompt.vision
      BY <2>2 DEF PromptOf
    <2>4. prompt' = PromptOf(prompt'.vision, made'.env, gits', made'.rest)
      BY <1>2, <1>5, <1>7, <2>1, <2>2, <2>3, Zenon
    <2>5. system' \in {<<>>, prompt'.text}
      BY <1>4
    <2> QED
      BY <1>2, <1>3, <2>1, <2>3, <2>4, <2>5, Zenon DEF PromptInv
  <1> QED
    BY <1>6, <1>7

(* However a prompt changes, it is made of its parts and its offsets are    *)
(* right (context.c).                                                       *)
THEOREM PromptIsItsParts == PromptSpec => []PromptInv
  <1>1. PromptInit => PromptInv
    BY PromptStarts
  <1>2. PromptInv /\ [PromptNext]_prompts => PromptInv'
    <2> SUFFICES ASSUME PromptInv, [PromptNext]_prompts PROVE PromptInv'
      OBVIOUS
    <2>1. CASE SessionOpens
      BY <2>1, OpeningKept
    <2>2. ASSUME NEW want \in BOOLEAN, AppliesVision(want) PROVE PromptInv'
      BY <2>2, ClauseKept
    <2>3. ASSUME NEW out \in Outputs, EnvFinishes(out) PROVE PromptInv'
      BY <2>3, AnswerKept
    <2>4. CASE UNCHANGED prompts
      BY <2>4 DEF PromptInv, prompts
    <2> QED
      BY <2>1, <2>2, <2>3, <2>4 DEF PromptNext
  <1> QED
    BY <1>1, <1>2, PTL DEF PromptSpec

(* However the calls on a prompt follow each other, the vision clause and   *)
(* what git told stand in their places, once and whole, and the session     *)
(* holds the text as it is (context.c's offsets).                           *)
THEOREM PromptStaysInOrder == PromptSpec => []PromptInOrder
  <1>1. PromptInv => PromptInOrder
    <2> SUFFICES ASSUME PromptInv PROVE PromptInOrder
      OBVIOUS
    <2>1. prompt.text = <<"base">> \o ClauseOf(prompt.vision)
                          \o EnvOf(made.env, gits) \o made.rest
      <3>1. prompt = PromptOf(prompt.vision, made.env, gits, made.rest)
        BY DEF PromptInv
      <3> DEFINE text == <<"base">> \o ClauseOf(prompt.vision)
                           \o EnvOf(made.env, gits) \o made.rest
                 place == PlaceOf(prompt.vision, made.env, gits)
      <3>2. prompt = [text |-> text, visionPos |-> 1, vision |-> prompt.vision,
                      gitPos |-> place]
        BY <3>1, Zenon DEF PromptOf
      <3> HIDE DEF text, place
      <3>3. prompt.text = text
        BY <3>2
      <3> QED
        BY <3>3 DEF text
    <2>2. system \in {<<>>, prompt.text}
      BY DEF PromptInv
    <2> QED
      BY <2>1, <2>2, Zenon DEF PromptInOrder, ClauseOf, EnvOf
  <1> QED
    BY <1>1, PromptIsItsParts, PTL
=============================================================================
