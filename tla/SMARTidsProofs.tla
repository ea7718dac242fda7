--------------------------- MODULE SMARTidsProofs ----------------------------
(***************************************************************************)
(* What is read is what is wanted and supported, all of it that the drive  *)
(* reports in order gets its value, a client's lines are the attributes it *)
(* has values of, and SMARTids implements SMARTselection, for any number   *)
(* of IDs, any list in the file, any order of the drive's attributes and   *)
(* any number in the uninitialized m_numDiffrntSMARTattrIDs.               *)
(*                                                                         *)
(* The lists that are walked through are ascending, whatever the order in  *)
(* the file is. A cursor that only moves forward then stands at the first  *)
(* ID that is not below the highest one that the drive has reported so     *)
(* far, so that exactly those attributes are found that are higher than    *)
(* all before them in the drive's table. The copies of the lists, which    *)
(* may be cut, are only what is shown and sent: nothing is read by them.   *)
(***************************************************************************)
EXTENDS SMARTids, TLAPS, NaturalsInduction, WellFoundedInduction, FiniteSetTheorems,
  SequenceTheorems

-----------------------------------------------------------------------------
(* The inductive invariant.                                                *)

Supp == getDriveSupportedSMART_IDs(table)
ToRead == IF api = "NVMe" THEN Supp ELSE SetSMART_IDsToRead(Supp, toObs)

(* The attributes that are above all before them in the drive's table.     *)
Highest(i) == \A k \in 1..i - 1 : table[k] < table[i]
Found == {table[i] : i \in {j \in 1..Len(table) : Highest(j)}}

(* The attributes of the drive a retrieval has been through.               *)
Through(h, i) == i < h.pos \/ (i = h.pos /\ h.pc = "done")

DriveInv ==
  /\ text \in Texts /\ table \in Tables
  /\ toObs = GetSMARTattributesToObserve(text)
  /\ role \in {"gui", "service"} /\ api \in {"libatasmart", "NVMe"}
  /\ api = "NVMe" => Ascending(table) /\ role = "gui"

(* What a copy of a list may be: anything that is in an array.             *)
IsCopy(s) == s \in Seq(IDs) /\ Len(s) <= N

(* MS Windows sets the lists in the element, so there they are no copies.  *)
StoredInv(s, o) ==
  /\ s = [in |-> s.in, supp |-> s.supp, toRead |-> s.toRead]
  /\ s.in \in BOOLEAN
  /\ IsCopy(s.supp) /\ IsCopy(s.toRead)
  /\ ~s.in => s.supp = << >> /\ s.toRead = << >> /\ o = {}
  /\ s.in /\ api = "NVMe" => s.supp = Supp /\ s.toRead = ToRead

IsReader(h) == h = [pc |-> h.pc, list |-> h.list, cur |-> h.cur, pos |-> h.pos]

ReaderInv(h) ==
  /\ IsReader(h)
  /\ h.pc \in {"idle", "read", "done"}
  /\ h.pc = "idle" => h = Idle
  /\ h.pc = "done" => h.pos = Len(table)
  /\ h.pc # "idle" =>
       /\ h.list \in {<< >>, ToRead} /\ (api = "NVMe" => h.list = ToRead)
       /\ h.pos \in 1..Len(table) /\ h.cur \in 1..Len(h.list) + 1 /\ h.cur <= N

(* The cursor is behind what is below the highest attribute so far, and    *)
(* not behind anything else.                                               *)
CursorInv(h) ==
  api = "libatasmart" /\ h.pc # "idle" =>
    /\ \A k \in 1..h.cur - 1 :
         \E i \in 1..Len(table) : Through(h, i) /\ h.list[k] < table[i]
    /\ h.cur <= Len(h.list) =>
         \A i \in 1..Len(table) : Through(h, i) => table[i] <= h.list[h.cur]

(* A retrieval is of a drive that is in the set.                           *)
RetrievalInv(s, h) == ReaderInv(h) /\ CursorInv(h) /\ (h.pc # "idle" => s.in)

(* Only what can be found and is to be read has a value. What a retrieval  *)
(* has been through has one if and only if it is in the list.              *)
FlagInv(o, h) ==
  /\ o \subseteq Found /\ o \subseteq ToSet(ToRead)
  /\ h.pc # "idle" =>
       \A i \in 1..Len(table) : Through(h, i) =>
         (table[i] \in o <=> table[i] \in Found /\ table[i] \in ToSet(h.list))

(* What a service can send, of the list as it was copied.                  *)
Sendable(s) == ToSet(s.toRead) \cap ToSet(ToRead) \cap Found

(* A client that reads in a loop has all that the service can send.        *)
ClientInv(c, s) ==
  /\ c = [pc |-> c.pc, supp |-> c.supp, lines |-> c.lines, ok |-> c.ok]
  /\ c.pc \in {"off", "first", "loop", "noThread"}
  /\ c.pc = "off" => c.ok = {}
  /\ c.pc # "off" => s.in
  /\ IsCopy(c.supp)
  /\ c.ok \in {{}, Sendable(s)} /\ c.lines = Sorted(c.ok)
  /\ c.pc = "loop" => c.ok = Sendable(s)

StateInv(s, o, h, c) ==
  StoredInv(s, o) /\ RetrievalInv(s, h) /\ FlagInv(o, h) /\ ClientInv(c, s)

IdsInv == DriveInv /\ nBlind \in 0..MaxBlind /\ StateInv(stored, ok, rd, cl)

-----------------------------------------------------------------------------
(* Loops. The states of a loop are those of a recursive function; that     *)
(* there is one, and what holds of every state, is shown with a least      *)
(* counterexample.                                                         *)

LEMMA LeastNat ==
  ASSUME NEW T, T \subseteq Nat, T # {}
  PROVE  \E x \in T : \A y \in T : x <= y
<1> DEFINE R == OpToRel(<, Nat)
<1>1. IsWellFoundedOn(R, Nat)
  BY NatLessThanWellFounded
<1>2. \E x \in T : \A y \in T : ~(<<y, x>> \in R)
  <2> HIDE DEF R
  <2> QED BY <1>1, WFMin
<1>3. R = {ss \in Nat \X Nat : ss[1] < ss[2]}
  BY DEF OpToRel
<1> HIDE DEF R
<1>4. PICK x \in T : \A y \in T : ~(<<y, x>> \in R)
  BY <1>2
<1>5. \A y \in T : ~(y < x)
  BY <1>3, <1>4
<1> QED BY <1>5

(* One step of the loops: of SetSMART_IDsToRead, or of Only.               *)
Step(loop, p, acc, x) == IF loop = "merge" THEN Merge(acc, x, p) ELSE AppendIf(acc, x, p)
Start(loop) == IF loop = "merge" THEN [cur |-> 1, ids |-> << >>] ELSE << >>

States(loop, p, s, n, f) ==
  [k \in 0..n |-> IF k = 0 THEN Start(loop) ELSE Step(loop, p, f[k - 1], s[k])]

LEMMA StatesExist ==
  ASSUME NEW loop, NEW p, NEW s, NEW n \in Nat
  PROVE  \E f : f = States(loop, p, s, n, f)
<1> DEFINE T == {m \in Nat : ~\E f : f = States(loop, p, s, m, f)}
<1> SUFFICES ASSUME T # {} PROVE FALSE
  OBVIOUS
<1>1. PICK m \in T : \A y \in T : m <= y
  BY LeastNat
<1>2. m # 0
  <2> SUFFICES ASSUME m = 0 PROVE FALSE
    OBVIOUS
  <2> DEFINE g == [k \in 0..0 |-> Start(loop)]
  <2>1. g = States(loop, p, s, 0, g)
    BY DEF States
  <2> QED BY <2>1
<1>3. PICK g : g = States(loop, p, s, m - 1, g)
  BY <1>1, <1>2
<1> DEFINE h == States(loop, p, s, m, g)
<1>4. ASSUME NEW k \in 0..m, k # 0 PROVE h[k - 1] = g[k - 1]
  <2>1. k - 1 \in 0..m - 1 /\ k - 1 \in 0..m
    BY <1>1, <1>4
  <2> DEFINE j == k - 1
  <2> HIDE DEF j
  <2>2. j \in 0..m - 1 /\ j \in 0..m
    BY <2>1 DEF j
  <2>3. g[j] = IF j = 0 THEN Start(loop) ELSE Step(loop, p, g[j - 1], s[j])
    BY <1>3, <2>2 DEF States
  <2>4. h[j] = IF j = 0 THEN Start(loop) ELSE Step(loop, p, g[j - 1], s[j])
    BY <2>2 DEF States
  <2> QED BY <2>3, <2>4 DEF j
<1>5. h = States(loop, p, s, m, h)
  <2> HIDE DEF h
  <2>1. \A k \in 0..m :
          (IF k = 0 THEN Start(loop) ELSE Step(loop, p, g[k - 1], s[k]))
            = (IF k = 0 THEN Start(loop) ELSE Step(loop, p, h[k - 1], s[k]))
    BY <1>4
  <2> QED BY <2>1, Zenon DEF States, h
<1> QED BY <1>1, <1>5

Runs(loop, p, s, a) ==
  a[0] = Start(loop) /\ \A k \in 1..Len(s) : a[k] = Step(loop, p, a[k - 1], s[k])

LEMMA StatesRun ==
  ASSUME NEW loop, NEW p, NEW s, Len(s) \in Nat, NEW f, f = States(loop, p, s, Len(s), f)
  PROVE  Runs(loop, p, s, f)
<1>1. 0 \in 0..Len(s) /\ \A k \in 1..Len(s) : k \in 0..Len(s) /\ k # 0
  OBVIOUS
<1>2. \A k \in 0..Len(s) : f[k] = IF k = 0 THEN Start(loop) ELSE Step(loop, p, f[k - 1], s[k])
  BY Zenon DEF States
<1> QED BY <1>1, <1>2, Zenon DEF Runs

LEMMA OnlyRuns ==
  ASSUME NEW s, NEW S, Len(s) \in Nat
  PROVE  \E a : Runs("only", S, s, a) /\ Only(s, S) = a[Len(s)]
<1> DEFINE f == CHOOSE g : g = States("only", S, s, Len(s), g)
<1>1. f = States("only", S, s, Len(s), f)
  BY StatesExist
<1>2. Only(s, S) = f[Len(s)]
  BY Zenon DEF Only, States, Start, Step
<1> HIDE DEF f
<1> QED BY <1>1, <1>2, StatesRun

LEMMA MergeRuns ==
  ASSUME NEW s, NEW w, Len(s) \in Nat, w # << >>
  PROVE  \E a : Runs("merge", w, s, a) /\ SetSMART_IDsToRead(s, w) = a[Len(s)].ids
<1> DEFINE f == CHOOSE g : g = States("merge", w, s, Len(s), g)
<1>1. f = States("merge", w, s, Len(s), f)
  BY StatesExist
<1>2. SetSMART_IDsToRead(s, w) = f[Len(s)].ids
  BY Zenon DEF SetSMART_IDsToRead, States, Start, Step
<1> HIDE DEF f
<1> QED BY <1>1, <1>2, StatesRun

-----------------------------------------------------------------------------
(* Lists.                                                                  *)

LEMMA AppendSet ==
  ASSUME NEW U, NEW r \in Seq(U), NEW x \in U
  PROVE  /\ Append(r, x) \in Seq(U) /\ Len(Append(r, x)) = Len(r) + 1
         /\ ToSet(Append(r, x)) = ToSet(r) \cup {x}
<1> DEFINE t == Append(r, x)
<1>1. /\ t \in Seq(U) /\ Len(t) = Len(r) + 1 /\ Len(r) \in Nat
      /\ DOMAIN t = 1..Len(r) + 1 /\ DOMAIN r = 1..Len(r)
      /\ \A i \in 1..Len(r) : t[i] = r[i]
      /\ t[Len(r) + 1] = x
  OBVIOUS
<1> HIDE DEF t
<1>2. 1..Len(r) + 1 = (1..Len(r)) \cup {Len(r) + 1}
  BY <1>1
<1>3. ToSet(t) = ToSet(r) \cup {x}
  <2> DEFINE n == Len(r)
  <2>1. ToSet(t) = {t[i] : i \in 1..n + 1} /\ ToSet(r) = {r[i] : i \in 1..n}
    BY <1>1 DEF ToSet
  <2>2. \A i \in 1..n : i \in 1..n + 1 /\ t[i] = r[i]
    BY <1>1
  <2>3. n + 1 \in 1..n + 1 /\ t[n + 1] = x
    BY <1>1
  <2>4. \A i \in 1..n + 1 : i \in 1..n \/ i = n + 1
    BY <1>2
  <2> HIDE DEF n
  <2>5. ToSet(t) \subseteq ToSet(r) \cup {x}
    BY <2>1, <2>2, <2>3, <2>4
  <2>6. ToSet(r) \subseteq ToSet(t) /\ x \in ToSet(t)
    BY <2>1, <2>2, <2>3
  <2> QED BY <2>5, <2>6
<1> QED BY <1>1, <1>3 DEF t

LEMMA AppendAscending ==
  ASSUME NEW U, U \subseteq Int, NEW r \in Seq(U), NEW x \in U, Ascending(r),
         \A y \in ToSet(r) : y < x
  PROVE  Ascending(Append(r, x))
<1> DEFINE t == Append(r, x)
<1>1. /\ Len(t) = Len(r) + 1 /\ Len(r) \in Nat
      /\ \A i \in 1..Len(r) : t[i] = r[i]
      /\ t[Len(r) + 1] = x
  OBVIOUS
<1>2. \A i \in 1..Len(r) : r[i] < x
  BY DEF ToSet
<1> HIDE DEF t
<1>3. ASSUME NEW i \in 1..Len(t), NEW j \in 1..Len(t), i < j PROVE t[i] < t[j]
  <2>1. i \in 1..Len(r)
    BY <1>1, <1>3
  <2>2. CASE j \in 1..Len(r)
    BY <1>1, <1>3, <2>1, <2>2 DEF Ascending
  <2>3. CASE j = Len(r) + 1
    BY <1>1, <1>2, <2>1, <2>3
  <2> QED BY <1>1, <2>2, <2>3
<1>4. Ascending(t)
  BY <1>3 DEF Ascending
<1> QED BY <1>4 DEF t

LEMMA InSet ==
  ASSUME NEW U, NEW s \in Seq(U)
  PROVE  /\ Len(s) \in Nat /\ DOMAIN s = 1..Len(s)
         /\ \A i \in 1..Len(s) : s[i] \in U /\ s[i] \in ToSet(s)
         /\ \A x \in ToSet(s) : \E i \in 1..Len(s) : s[i] = x
         /\ ToSet(s) \subseteq U
<1>1. Len(s) \in Nat /\ DOMAIN s = 1..Len(s) /\ \A i \in 1..Len(s) : s[i] \in U
  OBVIOUS
<1> QED BY <1>1, Zenon DEF ToSet

(* The elements in S, in their order.                                      *)
LEMMA OnlyOf ==
  ASSUME NEW U, NEW s \in Seq(U), NEW S
  PROVE  /\ Only(s, S) \in Seq(U)
         /\ ToSet(Only(s, S)) = ToSet(s) \cap S
         /\ Len(Only(s, S)) <= Len(s)
         /\ (\E i \in 1..Len(s) : s[i] \notin S) => Len(Only(s, S)) < Len(s)
         /\ U \subseteq Int /\ Ascending(s) => Ascending(Only(s, S))
<1> DEFINE n == Len(s)
<1>1. n \in Nat /\ \A i \in 1..n : s[i] \in U
  OBVIOUS
<1>2. PICK a : Runs("only", S, s, a) /\ Only(s, S) = a[n]
  BY OnlyRuns
<1> DEFINE Good(k) == /\ a[k] \in Seq(U) /\ Len(a[k]) <= k
                      /\ ToSet(a[k]) = {s[i] : i \in 1..k} \cap S
                      /\ (\E i \in 1..k : s[i] \notin S) => Len(a[k]) < k
                      /\ U \subseteq Int /\ Ascending(s) => Ascending(a[k])
           Bad == {k \in 0..n : ~Good(k)}
<1>3. Good(0)
  <2>1. a[0] = << >>
    BY <1>2 DEF Runs, Start
  <2>2. 1..0 = {}
    OBVIOUS
  <2>3. ToSet(<< >>) = {}
    BY DEF ToSet
  <2>4. << >> \in Seq(U) /\ Len(<< >>) = 0 /\ Ascending(<< >>)
    BY DEF Ascending
  <2>5. {s[i] : i \in 1..0} = {} /\ ~\E i \in 1..0 : s[i] \notin S
    BY <2>2
  <2> QED BY <2>1, <2>3, <2>4, <2>5
<1>4. ASSUME NEW k \in 1..n, Good(k - 1) PROVE Good(k)
  <2> DEFINE r == a[k - 1]
             x == s[k]
             B == {s[i] : i \in 1..k - 1}
  <2>1. a[k] = IF x \in S THEN Append(r, x) ELSE r
    BY <1>2 DEF Runs, Step, AppendIf
  <2>2. /\ r \in Seq(U) /\ Len(r) \in Nat /\ Len(r) <= k - 1 /\ ToSet(r) = B \cap S
        /\ (\E i \in 1..k - 1 : s[i] \notin S) => Len(r) < k - 1
        /\ U \subseteq Int /\ Ascending(s) => Ascending(r)
    BY <1>4
  <2>3. x \in U /\ k \in Nat
    BY <1>1, <1>4
  <2>4. 1..k = (1..k - 1) \cup {k}
    BY <1>4
  <2>5. {s[i] : i \in 1..k} = B \cup {x}
    BY <2>4, Zenon
  <2>6. (\E i \in 1..k : s[i] \notin S) => x \notin S \/ \E i \in 1..k - 1 : s[i] \notin S
    BY <2>4, Zenon
  <2>7. U \subseteq Int /\ Ascending(s) => \A y \in ToSet(r) : y < x
    <3> SUFFICES ASSUME U \subseteq Int, Ascending(s), NEW i \in 1..k - 1 PROVE s[i] < x
      BY <2>2, Zenon
    <3> QED BY <1>1, <1>4 DEF Ascending
  <2>8. k - 1 \in Int /\ k - 1 < k /\ (k - 1) + 1 = k
    BY <2>3
  <2> HIDE DEF r, x, B
  <2>9. CASE x \in S
    <3>1. a[k] = Append(r, x)
      BY <2>1, <2>9
    <3>2. a[k] \in Seq(U) /\ Len(a[k]) = Len(r) + 1 /\ ToSet(a[k]) = ToSet(r) \cup {x}
      BY <2>2, <2>3, <3>1, AppendSet
    <3>3. ToSet(a[k]) = {s[i] : i \in 1..k} \cap S
      BY <2>2, <2>5, <2>9, <3>2, Zenon
    <3>4. Len(a[k]) <= k /\ ((\E i \in 1..k : s[i] \notin S) => Len(a[k]) < k)
      BY <2>2, <2>3, <2>6, <2>9, <3>2
    <3>5. U \subseteq Int /\ Ascending(s) => Ascending(a[k])
      <4> SUFFICES ASSUME U \subseteq Int, Ascending(s) PROVE Ascending(a[k])
        OBVIOUS
      <4> QED BY <2>2, <2>3, <2>7, <3>1, AppendAscending
    <3> QED BY <3>2, <3>3, <3>4, <3>5
  <2>10. CASE x \notin S
    <3>1. a[k] = r
      BY <2>1, <2>10
    <3>2. ToSet(r) = {s[i] : i \in 1..k} \cap S
      BY <2>2, <2>5, <2>10, Zenon
    <3>3. Len(r) < k /\ Len(r) <= k
      BY <2>2, <2>3
    <3> QED BY <2>2, <3>1, <3>2, <3>3
  <2> QED BY <2>9, <2>10
<1>5. Bad = {}
  <2> SUFFICES ASSUME Bad # {} PROVE FALSE
    OBVIOUS
  <2>1. PICK k \in Bad : \A y \in Bad : k <= y
    <3>1. Bad \subseteq Nat
      OBVIOUS
    <3> HIDE DEF Bad
    <3> QED BY <3>1, LeastNat
  <2>2. k \in 0..n /\ ~Good(k)
    OBVIOUS
  <2>3. k # 0
    BY <1>3, <2>2
  <2>4. k \in 1..n /\ k - 1 \in 0..n /\ ~(k <= k - 1)
    BY <1>1, <2>2, <2>3
  <2> HIDE DEF Good
  <2>5. Good(k - 1)
    BY <2>1, <2>4
  <2> QED BY <1>4, <2>2, <2>4, <2>5
<1>6. Good(n)
  <2>1. n \in 0..n
    BY <1>1
  <2> HIDE DEF Good, n
  <2> QED BY <1>5, <2>1
<1>7. ToSet(s) = {s[i] : i \in 1..n}
  BY <1>1 DEF ToSet
<1> QED BY <1>2, <1>6, <1>7

LEMMA IsSeqOf ==
  ASSUME NEW U, NEW V, NEW s \in Seq(U), \A i \in 1..Len(s) : s[i] \in V
  PROVE  s \in Seq(V)
OBVIOUS

(* What std::set makes of IDs.                                             *)
LEMMA SortedOf ==
  ASSUME NEW T, T \subseteq IDs
  PROVE  /\ Sorted(T) \in Seq(IDs) /\ Sorted(T) \in Lists
         /\ ToSet(Sorted(T)) = T /\ Len(Sorted(T)) < N /\ Ascending(Sorted(T))
<1>1. N \in Nat \ {0, 1}
  BY IdsAssumption
<1>2. /\ AllIDs \in Seq(1..N) /\ Len(AllIDs) = N
      /\ \A i \in 1..N : AllIDs[i] = i
  BY <1>1 DEF AllIDs
<1>3. Ascending(AllIDs)
  BY <1>1, <1>2 DEF Ascending
<1>4. ToSet(AllIDs) = 1..N
  BY <1>1 DEF ToSet, AllIDs
<1>5. AllIDs[N] \notin T /\ N \in 1..Len(AllIDs)
  BY <1>1, <1>2 DEF IDs
<1>6. T \subseteq 1..N /\ (1..N) \subseteq Int
  BY <1>1 DEF IDs
<1> DEFINE s == AllIDs
           r == Sorted(T)
<1>7. /\ r \in Seq(1..N) /\ ToSet(r) = ToSet(s) \cap T
      /\ (\E i \in 1..Len(s) : s[i] \notin T) => Len(r) < Len(s)
      /\ Ascending(r)
  <2> HIDE DEF s
  <2>1. s \in Seq(1..N) /\ Ascending(s)
    BY <1>2, <1>3 DEF s
  <2> QED BY <1>6, <2>1, OnlyOf DEF Sorted, s
<1>8. ToSet(r) = T
  BY <1>4, <1>6, <1>7
<1>9. Len(r) < N
  BY <1>2, <1>5, <1>7
<1>10. r \in Seq(IDs)
  <2> HIDE DEF r
  <2>1. \A i \in 1..Len(r) : r[i] \in IDs
    BY <1>7, <1>8, InSet
  <2> QED BY <1>7, <2>1, IsSeqOf
<1> QED BY <1>7, <1>8, <1>9, <1>10 DEF Lists

(* The list in the file.                                                   *)
LEMMA ObservedOf ==
  ASSUME NEW t \in Texts
  PROVE  LET s == GetSMARTattributesToObserve(t) IN
         s \in Seq(IDs) /\ s \in Lists /\ Len(s) < N
<1> DEFINE W == IDs \cup {0, NotANumber}
           items == IF t.comma \/ t.items = << >> THEN t.items ELSE Front(t.items)
           r == Only(items, IDs \cup {0})
           zeros == {i \in 1..Len(r) : r[i] = 0}
           s == UpTo0(r)
<1>1. N \in Nat \ {0, 1} /\ t.items \in Seq(W) /\ Len(t.items) < N
  BY IdsAssumption
<1>2. items \in Seq(W) /\ Len(items) <= Len(t.items) /\ Len(items) \in Nat /\ Len(t.items) \in Nat
  <2>1. CASE t.comma \/ t.items = << >>
    <3>1. items = t.items
      BY <2>1
    <3> QED BY <1>1, <3>1
  <2>2. CASE ~(t.comma \/ t.items = << >>)
    <3> DEFINE l == t.items
    <3>1. items = SubSeq(l, 1, Len(l) - 1)
      BY <2>2 DEF Front
    <3>2. l \in Seq(W) /\ Len(l) \in Nat /\ Len(l) # 0
      BY <1>1, <2>2
    <3> HIDE DEF W, items, l
    <3>3. SubSeq(l, 1, Len(l) - 1) \in Seq(W) /\ Len(SubSeq(l, 1, Len(l) - 1)) = Len(l) - 1
      <4> DEFINE n == Len(l) - 1
      <4>1. n \in Int /\ 0 <= n /\ \A i \in 1..n : l[i] \in W
        BY <3>2
      <4> HIDE DEF n
      <4>2. SubSeq(l, 1, n) \in Seq(W) /\ Len(SubSeq(l, 1, n)) = IF 1 <= n THEN n - 1 + 1 ELSE 0
        BY <4>1, SubSeqProperties
      <4>3. Len(SubSeq(l, 1, n)) = n
        BY <4>1, <4>2
      <4> QED BY <4>2, <4>3 DEF n
    <3> QED BY <3>1, <3>2, <3>3 DEF l
  <2> QED BY <2>1, <2>2
<1>3. r \in Seq(W) /\ ToSet(r) = ToSet(items) \cap (IDs \cup {0}) /\ Len(r) <= Len(items)
  <2> HIDE DEF items, W
  <2> QED BY <1>2, OnlyOf
<1>4. /\ Len(r) \in Nat /\ Len(r) < N
      /\ \A i \in 1..Len(r) : r[i] \in IDs \cup {0}
  <2> HIDE DEF items, W, r
  <2> QED BY <1>1, <1>2, <1>3, InSet
<1>5. GetSMARTattributesToObserve(t) = s
  BY DEF GetSMARTattributesToObserve, Converted
<1> HIDE DEF r, W, items
<1>6. s \in Seq(IDs) /\ Len(s) <= Len(r) /\ Len(s) \in Nat
  <2>1. CASE zeros = {}
    <3>1. s = r
      BY <2>1 DEF UpTo0
    <3>2. \A i \in 1..Len(r) : r[i] \in IDs
      BY <1>4, <2>1
    <3> QED BY <1>3, <1>4, <3>1, <3>2, IsSeqOf
  <2>2. CASE zeros # {}
    <3>1. PICK m \in zeros : \A y \in zeros : m <= y
      <4>1. zeros \subseteq Nat
        BY <1>4
      <4> HIDE DEF zeros
      <4> QED BY <2>2, <4>1, LeastNat
    <3>2. Min(zeros) \in zeros /\ \A y \in zeros : Min(zeros) <= y
      BY <3>1 DEF Min
    <3> DEFINE z == Min(zeros)
    <3>3. s = SubSeq(r, 1, z - 1)
      BY <2>2 DEF UpTo0
    <3>4. z \in 1..Len(r) /\ \A i \in 1..Len(r) : i < z => r[i] # 0
      <4>1. z \in zeros /\ \A y \in zeros : z <= y
        BY <3>2
      <4> HIDE DEF z
      <4>2. z \in 1..Len(r)
        BY <4>1
      <4>3. \A i \in 1..Len(r) : r[i] = 0 => z <= i
        BY <4>1
      <4> QED BY <1>4, <4>2, <4>3
    <3> HIDE DEF z, s, zeros
    <3>5. s \in Seq(W) /\ Len(s) = z - 1 /\ \A i \in 1..z - 1 : s[i] = r[i]
      BY <1>3, <1>4, <3>3, <3>4
    <3>6. \A i \in 1..Len(s) : s[i] \in IDs
      BY <1>4, <3>4, <3>5
    <3>7. s \in Seq(IDs)
      BY <3>5, <3>6, IsSeqOf
    <3> QED BY <1>4, <3>4, <3>5, <3>7
  <2> QED BY <2>1, <2>2
<1> HIDE DEF s
<1>7. s \in Lists
  <2>1. \A i \in 1..Len(s) : s[i] \in 1..N
    BY <1>1, <1>6, InSet DEF IDs
  <2> QED BY <1>6, <2>1, IsSeqOf DEF Lists
<1> QED BY <1>1, <1>4, <1>5, <1>6, <1>7

(* There is one ascending list of a set only.                              *)
LEMMA NoSmallerFirst ==
  ASSUME NEW s \in Seq(Int), NEW t \in Seq(Int), Ascending(s), Ascending(t),
         NEW m \in 1..Len(t), s[m] \in ToSet(t), s[m] < t[m], m \in 1..Len(s),
         \A k \in 1..m - 1 : s[k] = t[k]
  PROVE  FALSE
<1>1. PICK k \in 1..Len(t) : t[k] = s[m]
  BY InSet
<1>2. /\ k \in Nat /\ m \in Nat /\ Len(s) \in Nat /\ Len(t) \in Nat
      /\ s[m] \in Int /\ t[m] \in Int /\ 1 <= k /\ 1 <= m /\ m <= Len(s)
  OBVIOUS
<1>3. ~(m < k) /\ m # k
  <2>1. m < k => t[m] < t[k]
    BY DEF Ascending
  <2> QED BY <1>1, <1>2, <2>1
<1>4. k \in 1..m - 1 /\ k < m /\ k \in 1..Len(s)
  BY <1>2, <1>3
<1>5. s[k] = s[m]
  BY <1>1, <1>4
<1>6. s[k] < s[m]
  BY <1>4 DEF Ascending
<1> QED BY <1>2, <1>5, <1>6

LEMMA NotLonger ==
  ASSUME NEW s \in Seq(Int), NEW t \in Seq(Int), Ascending(t), ToSet(t) \subseteq ToSet(s),
         \A k \in 1..Len(s) : k \in 1..Len(t) => s[k] = t[k]
  PROVE  ~(Len(s) < Len(t))
<1> SUFFICES ASSUME Len(s) < Len(t) PROVE FALSE
  OBVIOUS
<1> DEFINE m == Len(s) + 1
<1>1. m \in 1..Len(t) /\ Len(s) \in Nat /\ Len(t) \in Nat
  OBVIOUS
<1>2. t[m] \in ToSet(s) /\ t[m] \in Int
  BY <1>1, InSet
<1>3. PICK k \in 1..Len(s) : s[k] = t[m]
  BY <1>2, InSet
<1>4. k \in 1..Len(t) /\ k < m
  BY <1>1
<1>5. t[k] = t[m]
  BY <1>3, <1>4
<1>6. t[k] < t[m]
  BY <1>1, <1>4 DEF Ascending
<1> QED BY <1>2, <1>5, <1>6

LEMMA AscendingOnly ==
  ASSUME NEW s \in Seq(Int), NEW t \in Seq(Int), Ascending(s), Ascending(t),
         ToSet(s) = ToSet(t)
  PROVE  s = t
<1>1. /\ Len(s) \in Nat /\ Len(t) \in Nat
      /\ \A i \in 1..Len(s) : s[i] \in Int /\ s[i] \in ToSet(t)
      /\ \A i \in 1..Len(t) : t[i] \in Int /\ t[i] \in ToSet(s)
  BY InSet
<1> DEFINE T == {i \in Nat : i \in 1..Len(s) /\ i \in 1..Len(t) /\ s[i] # t[i]}
<1>2. T = {}
  <2> SUFFICES ASSUME T # {} PROVE FALSE
    OBVIOUS
  <2>1. PICK m \in T : \A y \in T : m <= y
    <3> HIDE DEF T
    <3>1. T \subseteq Nat
      BY DEF T
    <3> QED BY <3>1, LeastNat
  <2>2. /\ m \in 1..Len(s) /\ m \in 1..Len(t) /\ s[m] # t[m]
        /\ s[m] \in Int /\ t[m] \in Int /\ s[m] \in ToSet(t) /\ t[m] \in ToSet(s)
    BY <1>1
  <2>3. \A k \in 1..m - 1 : s[k] = t[k]
    <3> SUFFICES ASSUME NEW k \in 1..m - 1 PROVE s[k] = t[k]
      OBVIOUS
    <3>1. k \in Nat /\ k \in 1..Len(s) /\ k \in 1..Len(t) /\ ~(m <= k)
      BY <1>1, <2>2
    <3>2. k \notin T
      <4> HIDE DEF T
      <4> QED BY <2>1, <3>1
    <3> QED BY <3>1, <3>2
  <2> HIDE DEF T
  <2>4. CASE s[m] < t[m]
    BY <2>2, <2>3, <2>4, NoSmallerFirst
  <2>5. CASE t[m] < s[m]
    <3>1. \A k \in 1..m - 1 : t[k] = s[k]
      BY <2>3
    <3> QED BY <2>2, <2>5, <3>1, NoSmallerFirst
  <2> QED BY <2>2, <2>4, <2>5
<1>3. \A i \in 1..Len(s) : i \in 1..Len(t) => s[i] = t[i]
  BY <1>1, <1>2
<1> HIDE DEF T
<1>4. ~(Len(s) < Len(t))
  BY <1>3, NotLonger
<1>5. ~(Len(t) < Len(s))
  <2>1. \A i \in 1..Len(t) : i \in 1..Len(s) => t[i] = s[i]
    BY <1>3
  <2> QED BY <2>1, NotLonger
<1>6. Len(s) = Len(t)
  BY <1>1, <1>4, <1>5
<1>7. \A i \in 1..Len(s) : s[i] = t[i]
  BY <1>3, <1>6
<1> QED BY <1>6, <1>7, SeqEqual

(* Where the cursor is moved to.                                           *)
LEMMA ForwardOf ==
  ASSUME NEW list \in Seq(Int), NEW cur \in 1..Len(list) + 1, NEW id \in Int
  PROVE  /\ Forward(list, cur, id) \in cur..Len(list) + 1
         /\ Forward(list, cur, id) <= Len(list) => list[Forward(list, cur, id)] >= id
         /\ \A k \in cur..Forward(list, cur, id) - 1 : list[k] < id
<1> DEFINE n == Len(list)
           P(j) == (j <= n => list[j] >= id) /\ \A k \in cur..j - 1 : list[k] < id
           T == {j \in cur..n + 1 : j <= n => list[j] >= id}
<1>1. n \in Nat /\ cur \in Nat /\ cur <= n + 1 /\ 1 <= cur /\ \A k \in 1..n : list[k] \in Int
  OBVIOUS
<1>2. T \subseteq Nat /\ n + 1 \in T
  <2> HIDE DEF n
  <2> QED BY <1>1
<1>3. PICK m \in T : \A y \in T : m <= y
  <2> HIDE DEF T
  <2> QED BY <1>2, LeastNat
<1>4. m \in cur..n + 1 /\ (m <= n => list[m] >= id) /\ m \in Nat
  BY <1>2, <1>3
<1>5. ASSUME NEW k \in cur..m - 1 PROVE list[k] < id
  <2>1. k \in cur..n + 1 /\ ~(m <= k) /\ k <= n /\ k \in 1..n
    <3> HIDE DEF n
    <3> QED BY <1>1, <1>4, <1>5
  <2>2. k \notin T
    <3> HIDE DEF T
    <3> QED BY <1>3, <2>1
  <2>3. ~(list[k] >= id)
    BY <2>1, <2>2
  <2> QED BY <1>1, <2>1, <2>3
<1>6. P(m)
  BY <1>4, <1>5
<1>7. Forward(list, cur, id) = CHOOSE j \in cur..n + 1 : P(j)
  BY Zenon DEF Forward
<1> HIDE DEF P
<1>8. Forward(list, cur, id) \in cur..n + 1 /\ P(Forward(list, cur, id))
  BY <1>4, <1>6, <1>7, Zenon
<1> QED BY <1>8 DEF P

(* The cursor finds what is in the rest of an ascending list.              *)
LEMMA CursorFinds ==
  ASSUME NEW list \in Seq(Int), NEW cur \in 1..Len(list) + 1, NEW id \in Int, id # 0,
         Ascending(list), \A k \in 1..cur - 1 : list[k] < id
  PROVE  At(list, Forward(list, cur, id)) = id <=> id \in ToSet(list)
<1> DEFINE j == Forward(list, cur, id)
<1>1. /\ j \in cur..Len(list) + 1 /\ (j <= Len(list) => list[j] >= id)
      /\ \A k \in cur..j - 1 : list[k] < id
  BY ForwardOf
<1>2. Len(list) \in Nat /\ cur \in Nat /\ 1 <= cur /\ \A k \in 1..Len(list) : list[k] \in Int
  OBVIOUS
<1> HIDE DEF j
<1>3. j \in Nat /\ 1 <= j /\ cur <= j
  BY <1>1, <1>2
<1>4. ASSUME At(list, j) = id PROVE id \in ToSet(list)
  <2>1. j \in 1..Len(list) /\ list[j] = id
    BY <1>2, <1>3, <1>4 DEF At
  <2> QED BY <2>1, InSet
<1>5. ASSUME id \in ToSet(list) PROVE At(list, j) = id
  <2>1. PICK q \in 1..Len(list) : list[q] = id
    BY <1>5, InSet
  <2>2. ~(q < cur)
    BY <1>2, <2>1
  <2>3. ~(q < j)
    BY <1>1, <1>2, <1>3, <2>1, <2>2
  <2>4. j <= Len(list) /\ j \in 1..Len(list) /\ list[j] >= id
    BY <1>1, <1>2, <1>3, <2>3
  <2>5. ~(j < q)
    <3>1. j < q => list[j] < list[q]
      BY <2>4 DEF Ascending
    <3> QED BY <1>2, <2>1, <2>4, <3>1
  <2>6. j = q
    BY <1>3, <2>3, <2>5
  <2> QED BY <2>1, <2>4, <2>6 DEF At
<1> QED BY <1>4, <1>5 DEF j

(* One step of the walk.                                                   *)
LEMMA MergeStep ==
  ASSUME NEW w \in Seq(IDs), NEW c \in 1..Len(w) + 1, NEW l \in Seq(IDs), NEW id \in IDs,
         NEW m, m = Merge([cur |-> c, ids |-> l], id, w)
  PROVE  /\ m = [cur |-> m.cur, ids |-> m.ids]
         /\ m.cur \in 1..Len(w) + 1
         /\ \A k \in 1..m.cur - 1 : k >= c => w[k] <= id
         /\ m.ids = IF At(w, Forward(w, c, id)) = id THEN Append(l, id) ELSE l
         /\ At(w, Forward(w, c, id)) = id => id \in ToSet(w)
<1> DEFINE j == Forward(w, c, id)
<1>0. w \in Seq(Int) /\ id \in Int /\ id # 0 /\ Len(w) \in Nat /\ \A k \in 1..Len(w) : w[k] \in Int
  <2>1. IDs \subseteq Int /\ 0 \notin IDs
    BY IdsAssumption DEF IDs
  <2>2. w \in Seq(Int)
    BY <2>1, SeqMonotonic
  <2> QED BY <2>1, <2>2
<1>1. /\ j \in c..Len(w) + 1 /\ (j <= Len(w) => w[j] >= id)
      /\ \A k \in c..j - 1 : w[k] < id
  BY <1>0, ForwardOf
<1>2. m = IF At(w, j) = id THEN [cur |-> j + 1, ids |-> Append(l, id)]
                           ELSE [[cur |-> c, ids |-> l] EXCEPT !.cur = j]
  BY DEF Merge
<1> HIDE DEF j
<1>3. j \in Nat /\ 1 <= j /\ c <= j /\ j <= Len(w) + 1 /\ c \in Nat
  BY <1>0, <1>1
<1>4. CASE At(w, j) = id
  <2>1. m.cur = j + 1 /\ m.ids = Append(l, id) /\ m = [cur |-> m.cur, ids |-> m.ids]
    BY <1>2, <1>4
  <2>2. j \in 1..Len(w) /\ w[j] = id
    BY <1>0, <1>3, <1>4 DEF At
  <2>3. m.cur \in 1..Len(w) + 1
    BY <1>0, <2>1, <2>2
  <2>4. ASSUME NEW k \in 1..m.cur - 1, k >= c PROVE w[k] <= id
    <3>1. k \in c..j - 1 \/ k = j
      BY <1>3, <2>1, <2>4
    <3>2. k \in 1..Len(w) /\ w[k] \in Int
      BY <1>0, <2>1, <2>2, <2>4
    <3> QED BY <1>0, <1>1, <2>2, <3>1, <3>2
  <2>5. id \in ToSet(w)
    BY <2>2, InSet
  <2> QED BY <1>4, <2>1, <2>3, <2>4, <2>5 DEF j
<1>5. CASE At(w, j) # id
  <2>1. m.cur = j /\ m.ids = l /\ m = [cur |-> m.cur, ids |-> m.ids]
    BY <1>2, <1>5
  <2>2. m.cur \in 1..Len(w) + 1
    BY <1>0, <1>3, <2>1
  <2>3. ASSUME NEW k \in 1..m.cur - 1, k >= c PROVE w[k] <= id
    <3>1. k \in c..j - 1 /\ k \in 1..Len(w)
      BY <1>0, <1>3, <2>1, <2>3
    <3> QED BY <1>0, <1>1, <3>1
  <2> QED BY <1>5, <2>1, <2>2, <2>3 DEF j
<1> QED BY <1>4, <1>5

(* What is read of the supported IDs: an ascending part of them, all if    *)
(* nothing is configured and, if the list in the file is ascending, those  *)
(* that are in it.                                                         *)
LEMMA ToReadOf ==
  ASSUME NEW s \in Seq(IDs), Ascending(s), NEW w \in Seq(IDs)
  PROVE  /\ SetSMART_IDsToRead(s, w) \in Seq(IDs)
         /\ Len(SetSMART_IDsToRead(s, w)) <= Len(s)
         /\ ToSet(SetSMART_IDsToRead(s, w)) \subseteq ToSet(s)
         /\ Ascending(SetSMART_IDsToRead(s, w))
         /\ w = << >> => SetSMART_IDsToRead(s, w) = s
         /\ w # << >> /\ Ascending(w) =>
              ToSet(SetSMART_IDsToRead(s, w)) = ToSet(s) \cap ToSet(w)
<1>1. CASE w = << >>
  <2>1. SetSMART_IDsToRead(s, w) = s
    BY <1>1 DEF SetSMART_IDsToRead
  <2> QED BY <1>1, <2>1
<1>2. CASE w # << >>
  <2> DEFINE n == Len(s)
  <2>1. PICK a : Runs("merge", w, s, a) /\ SetSMART_IDsToRead(s, w) = a[n].ids
    BY <1>2, MergeRuns
  <2>2. n \in Nat /\ (\A i \in 1..n : s[i] \in IDs) /\ IDs \subseteq Int
    BY IdsAssumption DEF IDs
  <2> DEFINE B(k) == {s[i] : i \in 1..k}
             Good(k) == /\ a[k] = [cur |-> a[k].cur, ids |-> a[k].ids]
                        /\ a[k].cur \in 1..Len(w) + 1
                        /\ a[k].ids \in Seq(IDs) /\ Len(a[k].ids) <= k
                        /\ ToSet(a[k].ids) \subseteq B(k) /\ Ascending(a[k].ids)
                        /\ \A q \in 1..a[k].cur - 1 : \E i \in 1..k : w[q] <= s[i]
                        /\ Ascending(w) => ToSet(a[k].ids) = B(k) \cap ToSet(w)
             Bad == {k \in 0..n : ~Good(k)}
  <2>3. Good(0)
    <3>1. a[0] = [cur |-> 1, ids |-> << >>]
      BY <2>1 DEF Runs, Start
    <3>2. a[0].cur = 1 /\ a[0].ids = << >> /\ a[0] = [cur |-> a[0].cur, ids |-> a[0].ids]
      BY <3>1
    <3>3. 1..0 = {} /\ 1 - 1 = 0 /\ Len(w) \in Nat
      OBVIOUS
    <3>4. B(0) = {}
      BY <3>3
    <3>5. /\ ToSet(<< >>) = {} /\ << >> \in Seq(IDs) /\ Len(<< >>) = 0
          /\ Ascending(<< >>)
      BY DEF ToSet, Ascending
    <3>6. 1 \in 1..Len(w) + 1
      BY <3>3
    <3>7. \A q \in 1..a[0].cur - 1 : \E i \in 1..0 : w[q] <= s[i]
      BY <3>2, <3>3
    <3> HIDE DEF B
    <3> QED BY <3>2, <3>4, <3>5, <3>6, <3>7
  <2>4. ASSUME NEW k \in 1..n, Good(k - 1) PROVE Good(k)
    <3> DEFINE c == a[k - 1].cur
               l == a[k - 1].ids
               id == s[k]
               m == a[k]
               hit == At(w, Forward(w, c, id)) = id
    <3>1. /\ c \in 1..Len(w) + 1 /\ l \in Seq(IDs) /\ Len(l) <= k - 1
          /\ ToSet(l) \subseteq B(k - 1) /\ Ascending(l)
          /\ Ascending(w) => ToSet(l) = B(k - 1) \cap ToSet(w)
          /\ a[k - 1] = [cur |-> c, ids |-> l]
      BY <2>4, Zenon
    <3>2. \A q \in 1..c - 1 : \E i \in 1..k - 1 : w[q] <= s[i]
      BY <2>4, Zenon
    <3> HIDE DEF Good
    <3>3. m = Merge([cur |-> c, ids |-> l], id, w)
      <4>1. m = Merge(a[k - 1], id, w)
        BY <2>1 DEF Runs, Step
      <4> QED BY <3>1, <4>1
    <3>4. id \in IDs /\ id \in Int /\ k \in Nat /\ k \in 1..n
      <4> HIDE DEF n
      <4>1. id \in IDs /\ k \in Nat
        BY <2>2
      <4> QED BY <2>2, <4>1
    <3>5. \A i \in 1..k - 1 : s[i] < id /\ s[i] \in Int
      <4> SUFFICES ASSUME NEW i \in 1..k - 1 PROVE s[i] < id /\ s[i] \in Int
        OBVIOUS
      <4>1. i \in 1..n /\ i < k /\ k \in 1..n
        BY <2>2, <3>4
      <4>2. s[i] < s[k]
        BY <4>1 DEF Ascending
      <4>3. s[i] \in IDs
        BY <2>2, <4>1, Zenon
      <4> QED BY <2>2, <4>2, <4>3
    <3>6. \A x \in B(k - 1) : x < id
      BY <3>5
    <3>7. B(k) = B(k - 1) \cup {id}
      <4>1. 1..k = (1..k - 1) \cup {k}
        BY <3>4
      <4> QED BY <4>1, Zenon
    <3>8. Len(w) \in Nat /\ (\A q \in 1..Len(w) : w[q] \in Int) /\ Len(l) \in Nat
      <4>1. Len(w) \in Nat /\ \A q \in 1..Len(w) : w[q] \in IDs
        OBVIOUS
      <4>2. l \in Seq(IDs)
        BY <3>1, Zenon
      <4> HIDE DEF l
      <4>3. Len(l) \in Nat
        BY <4>2
      <4> QED BY <2>2, <4>1, <4>3
    <3>9. \A q \in 1..c - 1 : w[q] < id
      <4> SUFFICES ASSUME NEW q \in 1..c - 1 PROVE w[q] < id
        OBVIOUS
      <4>1. PICK i \in 1..k - 1 : w[q] <= s[i]
        BY <3>2
      <4>2. q \in 1..Len(w)
        BY <3>1, <3>8
      <4> QED BY <3>4, <3>5, <3>8, <4>1, <4>2
    <3> HIDE DEF c, l, id, m, hit, B
    <3>10. /\ m = [cur |-> m.cur, ids |-> m.ids] /\ m.cur \in 1..Len(w) + 1
           /\ \A q \in 1..m.cur - 1 : q >= c => w[q] <= id
           /\ m.ids = IF hit THEN Append(l, id) ELSE l
           /\ hit => id \in ToSet(w)
      <4> DEFINE r == m
      <4>1. r = Merge([cur |-> c, ids |-> l], id, w)
        BY <3>3
      <4> HIDE DEF r
      <4>0. c \in 1..Len(w) + 1 /\ l \in Seq(IDs) /\ id \in IDs
        BY <3>1, <3>4, Zenon
      <4>2. /\ r = [cur |-> r.cur, ids |-> r.ids] /\ r.cur \in 1..Len(w) + 1
            /\ \A q \in 1..r.cur - 1 : q >= c => w[q] <= id
            /\ r.ids = IF At(w, Forward(w, c, id)) = id THEN Append(l, id) ELSE l
            /\ At(w, Forward(w, c, id)) = id => id \in ToSet(w)
        BY <4>0, <4>1, MergeStep
      <4> QED BY <4>2, Zenon DEF hit, r
    <3>11. Ascending(w) => (hit <=> id \in ToSet(w))
      <4>1. w \in Seq(Int) /\ id # 0
        BY <2>2, <3>4, SeqMonotonic, IdsAssumption DEF IDs
      <4> QED BY <3>1, <3>4, <3>9, <4>1, CursorFinds DEF hit
    <3>12. \A q \in 1..m.cur - 1 : \E i \in 1..k : w[q] <= s[i]
      <4> SUFFICES ASSUME NEW q \in 1..m.cur - 1 PROVE \E i \in 1..k : w[q] <= s[i]
        OBVIOUS
      <4>1. CASE q >= c
        <5>1. w[q] <= s[k] /\ k \in 1..k
          BY <3>4, <3>10, <4>1 DEF id
        <5> QED BY <5>1
      <4>2. CASE ~(q >= c)
        <5>1. q \in 1..c - 1
          BY <3>1, <3>8, <3>10, <4>2
        <5>2. PICK i \in 1..k - 1 : w[q] <= s[i]
          BY <3>2, <5>1
        <5>3. i \in 1..k
          BY <3>4
        <5> QED BY <5>2, <5>3
      <4> QED BY <4>1, <4>2
    <3>13. CASE hit
      <4>1. m.ids = Append(l, id)
        BY <3>10, <3>13
      <4>2. m.ids \in Seq(IDs) /\ Len(m.ids) = Len(l) + 1 /\ ToSet(m.ids) = ToSet(l) \cup {id}
        BY <3>1, <3>4, <4>1, AppendSet
      <4>3. Ascending(m.ids)
        BY <2>2, <3>1, <3>4, <3>6, <4>1, AppendAscending
      <4>4. ToSet(m.ids) \subseteq B(k) /\ (Ascending(w) => ToSet(m.ids) = B(k) \cap ToSet(w))
        BY <3>1, <3>7, <3>10, <3>13, <4>2
      <4>5. Len(m.ids) <= k
        BY <3>1, <3>4, <3>8, <4>2
      <4> QED BY <3>10, <3>12, <4>2, <4>3, <4>4, <4>5, Zenon DEF m, Good
    <3>14. CASE ~hit
      <4>1. m.ids = l
        BY <3>10, <3>14
      <4>2. ToSet(l) \subseteq B(k) /\ (Ascending(w) => ToSet(l) = B(k) \cap ToSet(w))
        BY <3>1, <3>7, <3>11, <3>14
      <4>3. Len(l) <= k
        BY <3>1, <3>4, <3>8
      <4> QED BY <3>1, <3>10, <3>12, <4>1, <4>2, <4>3, Zenon DEF m, Good
    <3> QED BY <3>13, <3>14
  <2>5. Bad = {}
    <3> SUFFICES ASSUME Bad # {} PROVE FALSE
      OBVIOUS
    <3>1. PICK k \in Bad : \A y \in Bad : k <= y
      <4>1. Bad \subseteq Nat
        OBVIOUS
      <4> HIDE DEF Bad
      <4> QED BY <4>1, LeastNat
    <3>2. k \in 0..n /\ ~Good(k)
      OBVIOUS
    <3>3. k # 0
      BY <2>3, <3>2
    <3>4. k \in 1..n /\ k - 1 \in 0..n /\ ~(k <= k - 1)
      BY <2>2, <3>2, <3>3
    <3> HIDE DEF Good
    <3>5. Good(k - 1)
      BY <3>1, <3>4
    <3> QED BY <2>4, <3>2, <3>4, <3>5
  <2>6. Good(n)
    <3>1. n \in 0..n
      BY <2>2
    <3> HIDE DEF Good, n
    <3> QED BY <2>5, <3>1
  <2>7. ToSet(s) = B(n)
    BY <2>2 DEF ToSet
  <2> HIDE DEF B, n
  <2>8. /\ a[n].ids \in Seq(IDs) /\ Len(a[n].ids) <= n
        /\ ToSet(a[n].ids) \subseteq B(n) /\ Ascending(a[n].ids)
        /\ Ascending(w) => ToSet(a[n].ids) = B(n) \cap ToSet(w)
    BY <2>6
  <2> QED BY <1>2, <2>1, <2>7, <2>8 DEF n
<1> QED BY <1>1, <1>2

-----------------------------------------------------------------------------
(* The drive and its lists.                                                *)

LEMMA TableFacts ==
  ASSUME NEW t \in Tables
  PROVE  /\ N \in Nat /\ N > 1 /\ t \in Seq(IDs) /\ t \in Seq(Int)
         /\ Len(t) \in Nat /\ 1 <= Len(t) /\ Len(t) < N
         /\ \A i \in 1..Len(t) : t[i] \in IDs /\ t[i] \in Int /\ t[i] \in ToSet(t)
         /\ \A i, j \in 1..Len(t) : t[i] = t[j] => i = j
         /\ ToSet(t) \subseteq IDs /\ ToSet(t) # {}
<1>1. N \in Nat /\ N > 1 /\ t \in Seq(IDs) /\ t # << >> /\ IsInjective(t)
  BY IdsAssumption
<1>2. IDs \subseteq Int
  BY <1>1 DEF IDs
<1>3. Len(t) \in Nat /\ Len(t) # 0 /\ DOMAIN t = 1..Len(t) /\ t \in [1..Len(t) -> IDs]
  BY <1>1
<1>4. \A i, j \in 1..Len(t) : t[i] = t[j] => i = j
  BY <1>1, <1>3 DEF IsInjective
<1>5. t \in Injection(1..Len(t), IDs)
  BY <1>1, <1>3 DEF Injection
<1>6. IsFiniteSet(IDs) /\ Cardinality(IDs) = N - 1
  <2>1. 1 \in Int /\ N - 1 \in Int /\ ~(1 > N - 1)
    BY <1>1
  <2>2. IsFiniteSet(1..N - 1) /\ Cardinality(1..N - 1) = N - 1 - 1 + 1
    BY <2>1, FS_Interval
  <2> QED BY <1>1, <2>2 DEF IDs
<1>7. Cardinality(1..Len(t)) <= N - 1
  BY <1>5, <1>6, FS_Injection
<1>8. Cardinality(1..Len(t)) = Len(t)
  <2>1. 1 \in Int /\ Len(t) \in Int /\ ~(1 > Len(t))
    BY <1>3
  <2>2. Cardinality(1..Len(t)) = Len(t) - 1 + 1
    BY <2>1, FS_Interval
  <2> QED BY <1>3, <2>2
<1>9. Len(t) < N
  BY <1>1, <1>3, <1>7, <1>8
<1>10. t \in Seq(Int)
  BY <1>1, <1>2, SeqMonotonic
<1>11. /\ \A i \in 1..Len(t) : t[i] \in IDs /\ t[i] \in ToSet(t)
       /\ ToSet(t) \subseteq IDs
  BY <1>1, InSet
<1>12. ToSet(t) # {} /\ 1 <= Len(t)
  <2>1. 1 \in 1..Len(t)
    BY <1>3
  <2> QED BY <1>3, <1>11, <2>1
<1> QED BY <1>1, <1>2, <1>3, <1>4, <1>9, <1>10, <1>11, <1>12

(* The lists that are made of the file and the drive.                      *)
LEMMA DriveLists ==
  ASSUME DriveInv
  PROVE  /\ toObs \in Lists /\ Len(toObs) < N
         /\ Supp \in Seq(IDs) /\ Supp \in Lists /\ Len(Supp) < N /\ Supp # << >>
         /\ ToRead \in Seq(IDs) /\ ToRead \in Seq(Int) /\ ToRead \in Lists
         /\ Len(ToRead) \in Nat /\ Len(ToRead) < N
         /\ Ascending(ToRead) /\ ToSet(ToRead) \subseteq ToSet(table)
         /\ api = "NVMe" => ToRead = table /\ ToRead = Supp /\ SetSMART_IDsToRead(Supp, << >>) = Supp
         /\ api = "libatasmart" => ToRead = SetSMART_IDsToRead(Supp, toObs)
         /\ Ascending(toObs) \/ api = "NVMe" => ToSet(ToRead) = Selected
<1>1. table \in Tables /\ text \in Texts /\ api \in {"libatasmart", "NVMe"}
      /\ (api = "NVMe" => Ascending(table))
  BY DEF DriveInv
<1>2. /\ N \in Nat /\ table \in Seq(Int) /\ ToSet(table) \subseteq IDs /\ ToSet(table) # {}
  BY <1>1, TableFacts
<1>3. toObs \in Seq(IDs) /\ toObs \in Lists /\ Len(toObs) < N
  BY <1>1, ObservedOf DEF DriveInv
<1>4. /\ Supp \in Seq(IDs) /\ Supp \in Lists /\ ToSet(Supp) = ToSet(table)
      /\ Len(Supp) < N /\ Ascending(Supp)
  BY <1>2, SortedOf DEF Supp, getDriveSupportedSMART_IDs
<1>5. Supp # << >>
  <2>1. ToSet(<< >>) = {}
    BY DEF ToSet
  <2> QED BY <1>2, <1>4, <2>1
<1>6. IDs \subseteq Int /\ IDs \subseteq 1..N
  BY <1>2 DEF IDs
<1>7. CASE api = "NVMe"
  <2>1. ToRead = Supp
    BY <1>7 DEF ToRead
  <2>2. Supp \in Seq(Int)
    BY <1>4, <1>6, SeqMonotonic
  <2>3. Supp = table
    BY <1>1, <1>2, <1>4, <1>7, <2>2, AscendingOnly
  <2>4. Selected = ToSet(table)
    BY <1>7 DEF Selected
  <2>5. SetSMART_IDsToRead(Supp, << >>) = Supp
    BY DEF SetSMART_IDsToRead
  <2>6. Len(Supp) \in Nat
    BY <1>4
  <2> QED BY <1>3, <1>4, <1>5, <1>7, <2>1, <2>2, <2>3, <2>4, <2>5, <2>6
<1>8. CASE api = "libatasmart"
  <2> DEFINE r == SetSMART_IDsToRead(Supp, toObs)
  <2>1. ToRead = r
    BY <1>8 DEF ToRead
  <2>2. /\ r \in Seq(IDs) /\ Len(r) <= Len(Supp) /\ ToSet(r) \subseteq ToSet(Supp)
        /\ Ascending(r)
        /\ toObs = << >> => r = Supp
        /\ toObs # << >> /\ Ascending(toObs) => ToSet(r) = ToSet(Supp) \cap ToSet(toObs)
    BY <1>3, <1>4, ToReadOf
  <2> HIDE DEF r
  <2>3. r \in Seq(Int) /\ r \in Lists
    BY <1>6, <2>2, SeqMonotonic DEF Lists
  <2>4. Len(r) \in Nat /\ Len(r) < N
    BY <1>2, <1>4, <2>2
  <2>5. Ascending(toObs) => ToSet(r) = Selected
    BY <1>4, <1>8, <2>2 DEF Selected
  <2> QED BY <1>3, <1>4, <1>5, <1>8, <2>1, <2>2, <2>3, <2>4, <2>5 DEF r
<1> QED BY <1>1, <1>7, <1>8

LEMMA FoundFacts ==
  ASSUME DriveInv
  PROVE  /\ Found \subseteq ToSet(table) /\ Found \subseteq IDs
         /\ \A i \in 1..Len(table) : table[i] \in Found <=> Highest(i)
         /\ Ascending(table) => Found = ToSet(table)
<1>1. table \in Tables
  BY DEF DriveInv
<1>2. /\ Len(table) \in Nat /\ table \in Seq(IDs)
      /\ \A i \in 1..Len(table) : table[i] \in IDs /\ table[i] \in ToSet(table)
      /\ \A i, j \in 1..Len(table) : table[i] = table[j] => i = j
  BY <1>1, TableFacts
<1>3. Found \subseteq ToSet(table) /\ Found \subseteq IDs
  BY <1>2 DEF Found
<1>4. ASSUME NEW i \in 1..Len(table) PROVE table[i] \in Found <=> Highest(i)
  <2>1. ASSUME table[i] \in Found PROVE Highest(i)
    <3>1. PICK j \in 1..Len(table) : Highest(j) /\ table[i] = table[j]
      BY <2>1 DEF Found
    <3>2. i = j
      BY <1>2, <3>1
    <3> QED BY <3>1, <3>2
  <2>2. ASSUME Highest(i) PROVE table[i] \in Found
    BY <2>2 DEF Found
  <2> QED BY <2>1, <2>2
<1>5. ASSUME Ascending(table) PROVE ToSet(table) \subseteq Found
  <2> SUFFICES ASSUME NEW i \in 1..Len(table) PROVE table[i] \in Found
    BY <1>2, InSet
  <2>1. Highest(i)
    BY <1>2, <1>5 DEF Highest, Ascending
  <2> QED BY <1>4, <2>1
<1> QED BY <1>3, <1>4, <1>5

(* The list that a retrieval walks through.                                *)
LEMMA ReaderList ==
  ASSUME DriveInv, NEW h, ReaderInv(h), h.pc # "idle"
  PROVE  /\ h.list \in Seq(Int) /\ Ascending(h.list)
         /\ Len(h.list) \in Nat /\ Len(h.list) < N
<1>1. N \in Nat /\ N > 1
  BY IdsAssumption
<1>2. h.list \in {<< >>, ToRead}
  BY DEF ReaderInv
<1>3. << >> \in Seq(Int) /\ Ascending(<< >>) /\ Len(<< >>) = 0
  BY DEF Ascending
<1>4. ToRead \in Seq(Int) /\ Ascending(ToRead) /\ Len(ToRead) \in Nat /\ Len(ToRead) < N
  BY DriveLists
<1>5. CASE h.list = << >>
  BY <1>1, <1>3, <1>5
<1>6. CASE h.list = ToRead
  BY <1>4, <1>6
<1> QED BY <1>2, <1>5, <1>6

(* The callback finds an attribute that is in the list and above all       *)
(* before it, and no other one.                                            *)
LEMMA CallbackFinds ==
  ASSUME DriveInv, NEW h, ReaderInv(h), CursorInv(h),
         h.pc = "read", api = "libatasmart"
  PROVE  At(h.list, Forward(h.list, h.cur, table[h.pos])) = table[h.pos]
           <=> table[h.pos] \in ToSet(h.list) /\ table[h.pos] \in Found
<1> DEFINE list == h.list
           cur == h.cur
           pos == h.pos
           id == table[pos]
           j == Forward(list, cur, id)
<1>1. list \in Seq(Int) /\ Ascending(list) /\ Len(list) \in Nat
  BY ReaderList
<1>2. /\ Len(table) \in Nat
      /\ \A i \in 1..Len(table) : table[i] \in IDs /\ table[i] \in Int
      /\ \A i, k \in 1..Len(table) : table[i] = table[k] => i = k
  BY TableFacts DEF DriveInv
<1>3. pos \in 1..Len(table) /\ cur \in 1..Len(list) + 1
  BY DEF ReaderInv
<1>4. id \in Int /\ id # 0
  BY <1>2, <1>3 DEF IDs
<1>5. /\ \A k \in 1..cur - 1 : \E i \in 1..Len(table) : i < pos /\ list[k] < table[i]
      /\ cur <= Len(list) => \A i \in 1..Len(table) : i < pos => table[i] <= list[cur]
  BY DEF CursorInv, Through
<1>6. id \in Found <=> Highest(pos)
  BY <1>3, FoundFacts
<1>7. \A k \in 1..Len(list) : list[k] \in Int
  BY <1>1
<1>8. CASE Highest(pos)
  <2>1. \A i \in 1..Len(table) : i < pos => table[i] < id
    BY <1>2, <1>3, <1>8 DEF Highest
  <2>2. ASSUME NEW k \in 1..cur - 1 PROVE list[k] < id
    <3>1. PICK i \in 1..Len(table) : i < pos /\ list[k] < table[i]
      BY <1>5
    <3>2. table[i] < id /\ table[i] \in Int
      BY <1>2, <2>1, <3>1
    <3>3. k \in 1..Len(list)
      BY <1>1, <1>3
    <3> QED BY <1>4, <1>7, <3>1, <3>2, <3>3
  <2> HIDE DEF list, cur, id
  <2>3. At(list, j) = id <=> id \in ToSet(list)
    BY <1>1, <1>3, <1>4, <2>2, CursorFinds
  <2> QED BY <1>6, <1>8, <2>3 DEF list, cur, id
<1>9. CASE ~Highest(pos)
  <2>1. PICK i \in 1..pos - 1 : ~(table[i] < id)
    BY <1>9 DEF Highest
  <2>2. i \in 1..Len(table) /\ i < pos /\ i # pos
    BY <1>2, <1>3
  <2>3. table[i] > id /\ table[i] \in Int
    BY <1>2, <1>3, <1>4, <2>1, <2>2
  <2>4. cur <= Len(list) => list[cur] > id
    <3> SUFFICES ASSUME cur <= Len(list) PROVE list[cur] > id
      OBVIOUS
    <3>1. table[i] <= list[cur] /\ cur \in 1..Len(list)
      BY <1>3, <1>5, <2>2
    <3> QED BY <1>4, <1>7, <2>3, <3>1
  <2> HIDE DEF list, cur, id
  <2>5. j \in cur..Len(list) + 1 /\ \A k \in cur..j - 1 : list[k] < id
    BY <1>1, <1>3, <1>4, ForwardOf
  <2> HIDE DEF j
  <2>6. j \in Nat /\ cur \in Nat /\ 1 <= cur
    BY <1>1, <1>3, <2>5
  <2>7. CASE cur <= Len(list)
    <3>1. ~(cur < j)
      <4> SUFFICES ASSUME cur < j PROVE FALSE
        OBVIOUS
      <4>1. cur \in cur..j - 1
        BY <2>6
      <4>2. list[cur] < id /\ list[cur] > id /\ cur \in 1..Len(list)
        BY <1>1, <2>4, <2>5, <2>6, <2>7, <4>1
      <4> QED BY <1>4, <1>7, <4>2
    <3>2. j = cur
      BY <2>5, <2>6, <3>1
    <3>3. list[cur] # id
      <4>1. list[cur] > id /\ cur \in 1..Len(list)
        BY <1>1, <2>4, <2>6, <2>7
      <4> QED BY <1>4, <1>7, <4>1
    <3>4. At(list, j) # id
      BY <2>7, <3>2, <3>3 DEF At
    <3> QED BY <1>6, <1>9, <3>4 DEF list, cur, id, j
  <2>8. CASE ~(cur <= Len(list))
    <3>1. ~(j <= Len(list))
      BY <1>1, <2>5, <2>6, <2>8
    <3>2. At(list, j) # id
      BY <1>4, <3>1 DEF At
    <3> QED BY <1>6, <1>9, <3>2 DEF list, cur, id, j
  <2> QED BY <2>7, <2>8
<1> QED BY <1>8, <1>9

(* The record of a retrieval after one more attribute.                     *)
LEMMA NextPosOf ==
  ASSUME NEW e, IsReader(e), NEW g, g = NextPos(e)
  PROVE  /\ IsReader(g) /\ g.list = e.list /\ g.cur = e.cur
         /\ e.pos = Len(table) => g.pc = "done" /\ g.pos = e.pos
         /\ e.pos # Len(table) => g.pc = "read" /\ g.pos = e.pos + 1
<1> DEFINE p == IF e.pos = Len(table) THEN "done" ELSE "read"
           q == IF e.pos = Len(table) THEN e.pos ELSE e.pos + 1
<1>1. g = [e EXCEPT !.pc = p, !.pos = q]
  BY DEF NextPos
<1> HIDE DEF p, q
<1>2. PICK a, b, c, d : a = e.pc /\ b = e.list /\ c = e.cur /\ d = e.pos
  OBVIOUS
<1>3. e = [pc |-> a, list |-> b, cur |-> c, pos |-> d]
  BY <1>2, Zenon DEF IsReader
<1>4. g = [pc |-> p, list |-> b, cur |-> c, pos |-> q]
  BY <1>1, <1>3
<1>5. g.pc = p /\ g.list = b /\ g.cur = c /\ g.pos = q
  BY <1>4
<1> QED BY <1>2, <1>4, <1>5 DEF p, q, IsReader

(* The position moves on.                                                  *)
LEMMA ThroughNext ==
  ASSUME NEW h, h.pc = "read", NEW n \in Nat, h.pos \in 1..n, NEW g,
         h.pos = n => g.pc = "done" /\ g.pos = h.pos,
         h.pos # n => g.pc = "read" /\ g.pos = h.pos + 1
  PROVE  /\ g.pos \in 1..n /\ g.pc \in {"read", "done"} /\ (g.pc = "done" => g.pos = n)
         /\ \A i \in 1..n : Through(g, i) <=> i <= h.pos
         /\ \A i \in 1..n : Through(h, i) <=> i < h.pos
<1>1. CASE h.pos = n
  BY <1>1 DEF Through
<1>2. CASE h.pos # n
  BY <1>2 DEF Through
<1> QED BY <1>1, <1>2

LEMMA CallbackReader ==
  ASSUME DriveInv, NEW h, ReaderInv(h), CursorInv(h),
         h.pc = "read", api = "libatasmart",
         NEW g, g = NextPos([h EXCEPT !.cur = Forward(h.list, h.cur, table[h.pos])])
  PROVE  /\ ReaderInv(g) /\ CursorInv(g) /\ g.list = h.list /\ g.pc # "idle"
         /\ h.pos \in 1..Len(table)
         /\ \A i \in 1..Len(table) : Through(g, i) <=> Through(h, i) \/ i = h.pos
<1> DEFINE list == h.list
           cur == h.cur
           pos == h.pos
           id == table[pos]
           j == Forward(list, cur, id)
<1>1. list \in Seq(Int) /\ Ascending(list) /\ Len(list) \in Nat /\ Len(list) < N
  BY ReaderList
<1>2. /\ Len(table) \in Nat /\ N \in Nat /\ N > 1
      /\ \A i \in 1..Len(table) : table[i] \in IDs /\ table[i] \in Int
  BY TableFacts DEF DriveInv
<1>3. pos \in 1..Len(table) /\ cur \in 1..Len(list) + 1 /\ cur <= N
  BY DEF ReaderInv
<1>4. id \in Int /\ id \in IDs /\ id < N
  <2>1. id \in IDs /\ id \in Int
    BY <1>2, <1>3
  <2> QED BY <1>2, <2>1 DEF IDs
<1>5. /\ \A k \in 1..cur - 1 : \E i \in 1..Len(table) : Through(h, i) /\ list[k] < table[i]
      /\ cur <= Len(list) => \A i \in 1..Len(table) : Through(h, i) => table[i] <= list[cur]
  BY DEF CursorInv
<1>6. /\ IsReader(g)
      /\ g.list = list /\ g.cur = j
      /\ pos = Len(table) => g.pc = "done" /\ g.pos = pos
      /\ pos # Len(table) => g.pc = "read" /\ g.pos = pos + 1
  <2> DEFINE e == [h EXCEPT !.cur = j]
  <2>1. h = [pc |-> h.pc, list |-> h.list, cur |-> h.cur, pos |-> h.pos]
    BY DEF ReaderInv, IsReader
  <2>2. g = NextPos(e)
    OBVIOUS
  <2> HIDE DEF j, e
  <2>3. e = [pc |-> h.pc, list |-> h.list, cur |-> j, pos |-> h.pos]
    BY <2>1 DEF e
  <2>4. IsReader(e) /\ e.list = h.list /\ e.cur = j /\ e.pos = h.pos
    BY <2>3 DEF IsReader
  <2> HIDE DEF e
  <2>5. /\ IsReader(g) /\ g.list = e.list /\ g.cur = e.cur
        /\ e.pos = Len(table) => g.pc = "done" /\ g.pos = e.pos
        /\ e.pos # Len(table) => g.pc = "read" /\ g.pos = e.pos + 1
    BY <2>2, <2>4, NextPosOf
  <2> QED BY <2>4, <2>5
<1>7. /\ g.pos \in 1..Len(table) /\ g.pc \in {"read", "done"}
      /\ g.pc = "done" => g.pos = Len(table)
      /\ \A i \in 1..Len(table) : Through(g, i) <=> i <= pos
      /\ \A i \in 1..Len(table) : Through(h, i) <=> i < pos
  <2>1. PICK n : n = Len(table)
    OBVIOUS
  <2>2. n \in Nat /\ h.pos \in 1..n
    BY <1>2, <1>3, <2>1
  <2>3. /\ h.pos = n => g.pc = "done" /\ g.pos = h.pos
        /\ h.pos # n => g.pc = "read" /\ g.pos = h.pos + 1
    BY <1>6, <2>1
  <2>4. /\ g.pos \in 1..n /\ g.pc \in {"read", "done"} /\ (g.pc = "done" => g.pos = n)
        /\ \A i \in 1..n : Through(g, i) <=> i <= h.pos
        /\ \A i \in 1..n : Through(h, i) <=> i < h.pos
    BY <2>2, <2>3, ThroughNext
  <2> QED BY <2>1, <2>4
<1>8. \A i \in 1..Len(table) : Through(g, i) <=> Through(h, i) \/ i = pos
  BY <1>2, <1>3, <1>7
<1>9. \A k \in 1..Len(list) : list[k] \in Int
  BY <1>1
<1> HIDE DEF list, cur, id
<1>10. /\ j \in cur..Len(list) + 1 /\ (j <= Len(list) => list[j] >= id)
       /\ \A k \in cur..j - 1 : list[k] < id
  BY <1>1, <1>3, <1>4, ForwardOf
<1> HIDE DEF j
<1>11. j \in Nat /\ cur \in Nat /\ 1 <= cur /\ cur <= j /\ j \in 1..Len(list) + 1
  BY <1>1, <1>3, <1>10
<1>12. j <= N
  BY <1>1, <1>2, <1>11
<1>13. ReaderInv(g)
  <2>1. list \in {<< >>, ToRead} /\ (api = "NVMe" => list = ToRead)
    BY DEF ReaderInv, list
  <2>2. g.pc # "idle"
    BY <1>7
  <2> QED BY <1>3, <1>6, <1>7, <1>11, <1>12, <2>1, <2>2 DEF ReaderInv
<1>14. ASSUME NEW k \in 1..j - 1
       PROVE  \E i \in 1..Len(table) : Through(g, i) /\ list[k] < table[i]
  <2>1. CASE k < cur
    <3>1. k \in 1..cur - 1
      BY <1>11, <2>1
    <3>2. PICK i \in 1..Len(table) : Through(h, i) /\ list[k] < table[i]
      BY <1>5, <3>1
    <3> QED BY <1>8, <3>2
  <2>2. CASE ~(k < cur)
    <3>1. k \in cur..j - 1
      BY <1>11, <2>2
    <3>2. list[k] < table[pos]
      BY <1>10, <3>1 DEF id
    <3> QED BY <1>3, <1>8, <3>2
  <2> QED BY <2>1, <2>2
<1>15. ASSUME j <= Len(list), NEW i \in 1..Len(table), Through(g, i) PROVE table[i] <= list[j]
  <2>1. CASE i = pos
    <3>1. table[i] = id
      BY <2>1 DEF id
    <3>2. list[j] \in Int /\ list[j] >= id
      BY <1>1, <1>9, <1>10, <1>11, <1>15
    <3> QED BY <1>4, <3>1, <3>2
  <2>2. CASE Through(h, i)
    <3>1. cur \in 1..Len(list) /\ j \in 1..Len(list)
      BY <1>1, <1>11, <1>15
    <3>2. table[i] <= list[cur]
      BY <1>1, <1>5, <1>11, <2>2, <3>1
    <3>3. cur < j => list[cur] < list[j]
      BY <1>1, <3>1 DEF Ascending
    <3>4. list[cur] <= list[j]
      BY <1>9, <1>11, <3>1, <3>3
    <3> QED BY <1>2, <1>9, <3>1, <3>2, <3>4
  <2> QED BY <1>8, <1>15, <2>1, <2>2
<1>16. CursorInv(g)
  BY <1>6, <1>14, <1>15 DEF CursorInv
<1>17. g.pc # "idle"
  BY <1>7
<1> QED BY <1>3, <1>6, <1>8, <1>13, <1>16, <1>17 DEF list
-----------------------------------------------------------------------------
(* What an action leaves alone, and the parts of the state it sets.        *)

LEMMA DriveStays ==
  ASSUME DriveInv, UNCHANGED drive
  PROVE  /\ DriveInv' /\ Supp' = Supp /\ ToRead' = ToRead /\ Found' = Found
         /\ table' = table /\ role' = role /\ api' = api /\ Selected' = Selected
<1>1. /\ text' = text /\ toObs' = toObs /\ table' = table
      /\ role' = role /\ api' = api
  BY DEF drive
<1>2. DriveInv'
  BY <1>1 DEF DriveInv
<1>3. Supp' = Supp
  BY <1>1 DEF Supp
<1>4. ToRead' = ToRead
  BY <1>1, <1>3 DEF ToRead
<1>5. Found' = Found
  BY <1>1 DEF Found, Highest
<1>6. Selected' = Selected
  BY <1>1 DEF Selected
<1> QED BY <1>1, <1>2, <1>3, <1>4, <1>5, <1>6

(* The other parts of the invariant depend on the drive only.              *)
LEMMA StateStays ==
  ASSUME DriveInv, UNCHANGED drive, StateInv(stored', ok', rd', cl')
  PROVE  StateInv(stored, ok, rd, cl)'
<1>1. /\ Supp' = Supp /\ ToRead' = ToRead /\ Found' = Found
      /\ table' = table /\ role' = role /\ api' = api
  BY DriveStays
<1>2. StoredInv(stored, ok)'
  BY <1>1 DEF StateInv, StoredInv
<1>3. ReaderInv(rd)'
  BY <1>1 DEF StateInv, RetrievalInv, ReaderInv, IsReader
<1>4. CursorInv(rd)'
  <2>1. CursorInv(rd')
    BY DEF StateInv, RetrievalInv
  <2> QED BY <1>1, <2>1, Zenon DEF CursorInv, Through
<1>5. RetrievalInv(stored, rd)'
  BY <1>3, <1>4 DEF StateInv, RetrievalInv
<1>6. FlagInv(ok, rd)'
  <2>1. FlagInv(ok', rd')
    BY DEF StateInv
  <2> QED BY <1>1, <2>1, Zenon DEF FlagInv, Through
<1>7. ClientInv(cl, stored)'
  BY <1>1 DEF StateInv, ClientInv, Sendable
<1> QED BY <1>2, <1>5, <1>6, <1>7 DEF StateInv

LEMMA IdleReader ==
  ASSUME NEW o, o \subseteq Found, o \subseteq ToSet(ToRead), NEW s
  PROVE  RetrievalInv(s, Idle) /\ FlagInv(o, Idle)
<1>1. Idle.pc = "idle" /\ IsReader(Idle)
  BY DEF Idle, IsReader
<1> QED BY <1>1 DEF RetrievalInv, ReaderInv, CursorInv, FlagInv

(* A retrieval that was started has been through nothing.                  *)
LEMMA StartedReader ==
  ASSUME DriveInv, NEW list, Len(list) \in Nat,
         list \in {<< >>, ToRead}, api = "NVMe" => list = ToRead,
         NEW o, o \subseteq Found, o \subseteq ToSet(ToRead),
         NEW g, g = [pc |-> "read", list |-> list, cur |-> 1, pos |-> 1]
  PROVE  ReaderInv(g) /\ CursorInv(g) /\ FlagInv(o, g) /\ g.list = list /\ g.pc = "read"
<1>1. Len(table) \in Nat /\ 1 <= Len(table) /\ N \in Nat /\ N > 1
  BY TableFacts DEF DriveInv
<1>2. g.pc = "read" /\ g.list = list /\ g.cur = 1 /\ g.pos = 1 /\ IsReader(g)
  BY DEF IsReader
<1>3. \A i \in 1..Len(table) : ~Through(g, i)
  BY <1>2 DEF Through
<1>4. 1..g.cur - 1 = {}
  BY <1>2
<1>5. 1 \in 1..Len(table) /\ 1 \in 1..Len(list) + 1 /\ 1 <= N
  BY <1>1
<1>6. ReaderInv(g)
  BY <1>2, <1>5 DEF ReaderInv
<1>7. CursorInv(g)
  BY <1>3, <1>4 DEF CursorInv
<1>8. FlagInv(o, g)
  BY <1>3 DEF FlagInv
<1> QED BY <1>2, <1>6, <1>7, <1>8

LEMMA EmptyLen ==
  Len(<< >>) \in Nat /\ ToSet(<< >>) = {}
BY DEF ToSet

(* A copy stays in its array, that of no list is no list, and nothing is   *)
(* cut if there is room for a whole array.                                 *)
LEMMA CopyOf ==
  ASSUME NEW list \in Seq(IDs), Len(list) < N, NEW n \in CopyCounts, NEW s \in copyArr(list, n)
  PROVE  /\ IsCopy(s)
         /\ list = << >> => s = << >>
         /\ CopyCounts = {N} => s = list
<1>1. N \in Nat /\ n \in 0..N /\ Tails \subseteq Seq(IDs) /\ Len(list) \in Nat
  BY IdsAssumption
<1>2. << >> \in Seq(IDs) /\ Len(<< >>) = 0
  OBVIOUS
<1>3. CASE Len(list) < n
  <2>1. s = list
    BY <1>3 DEF copyArr
  <2> QED BY <1>1, <2>1 DEF IsCopy
<1>4. CASE ~(Len(list) < n) /\ n = 0
  <2>1. s = << >>
    BY <1>4 DEF copyArr
  <2>2. CopyCounts # {N}
    BY <1>1, <1>4
  <2> QED BY <1>1, <1>2, <2>1, <2>2 DEF IsCopy
<1>5. CASE ~(Len(list) < n) /\ n # 0
  <2>1. PICK t \in Tails : n + Len(t) <= N /\ s = SubSeq(list, 1, n) \o t
    BY <1>5 DEF copyArr
  <2>2. n \in 1..Len(list) /\ t \in Seq(IDs)
    BY <1>1, <1>5, <2>1
  <2>3. SubSeq(list, 1, n) \in Seq(IDs) /\ Len(SubSeq(list, 1, n)) = n
    <3>1. \A i \in 1..n : list[i] \in IDs
      BY <1>1, <2>2
    <3>2. 1 \in Int /\ n \in Int /\ n > 0
      BY <1>1, <2>2
    <3> QED BY <1>1, <2>2, <3>1, <3>2, SubSeqProperties
  <2>4. PICK u : u = SubSeq(list, 1, n)
    OBVIOUS
  <2>5. u \in Seq(IDs) /\ Len(u) = n /\ s = u \o t
    BY <2>1, <2>3, <2>4
  <2>6. s \in Seq(IDs) /\ Len(s) = n + Len(t)
    BY <2>2, <2>5, ConcatProperties
  <2>7. list # << >>
    BY <1>2, <2>2
  <2>8. CopyCounts # {N}
    BY <1>1, <2>2
  <2> QED BY <2>1, <2>6, <2>7, <2>8 DEF IsCopy
<1> QED BY <1>3, <1>4, <1>5

(* Only a drive that is not in the set gets the copies of its lists.       *)
LEMMA InsertedDrive ==
  ASSUME DriveInv, StoredInv(stored, ok), NEW supp, NEW toRead,
         \/ supp = Supp /\ toRead = ToRead
         \/ supp = << >> /\ toRead = << >>,
         api = "libatasmart", InsertDrive(supp, toRead)
  PROVE  /\ StoredInv(stored', ok) /\ stored'.in
         /\ stored.in => stored' = stored
         /\ ~stored.in => /\ toRead = << >> => stored'.toRead = << >>
                          /\ CopyCounts = {N} => stored'.toRead = toRead
<1>1. CASE stored.in
  BY <1>1 DEF InsertDrive
<1>2. CASE ~stored.in
  <2>1. Supp \in Seq(IDs) /\ Len(Supp) < N /\ ToRead \in Seq(IDs) /\ Len(ToRead) < N
    BY DriveLists
  <2>2. << >> \in Seq(IDs) /\ Len(<< >>) < N
    BY IdsAssumption
  <2>3. supp \in Seq(IDs) /\ Len(supp) < N /\ toRead \in Seq(IDs) /\ Len(toRead) < N
    BY <2>1, <2>2
  <2>4. PICK n \in CopyCounts : \E s \in copyArr(supp, n), t \in copyArr(toRead, n) :
               stored' = [in |-> TRUE, supp |-> s, toRead |-> t]
    BY <1>2, Zenon DEF InsertDrive
  <2>5. PICK s \in copyArr(supp, n), t \in copyArr(toRead, n) :
               stored' = [in |-> TRUE, supp |-> s, toRead |-> t]
    BY <2>4
  <2>6. /\ IsCopy(s) /\ IsCopy(t)
        /\ toRead = << >> => t = << >>
        /\ CopyCounts = {N} => t = toRead
    BY <2>3, CopyOf
  <2>7. stored'.in = TRUE /\ stored'.supp = s /\ stored'.toRead = t
    BY <2>5
  <2>8. stored' = [in |-> stored'.in, supp |-> stored'.supp, toRead |-> stored'.toRead]
    BY <2>5, <2>7
  <2>9. StoredInv(stored', ok)
    BY <2>6, <2>7, <2>8 DEF StoredInv
  <2> QED BY <1>2, <2>6, <2>7, <2>9
<1> QED BY <1>1, <1>2

(* A client is one of a drive in the set, whose lists stay.                *)
LEMMA ClientKept ==
  ASSUME ClientInv(cl, stored), stored.in => stored' = stored
  PROVE  ClientInv(cl, stored')
<1>1. CASE stored.in
  BY <1>1
<1>2. CASE ~stored.in
  <2>1. cl.pc = "off" /\ cl.ok = {}
    BY <1>2 DEF ClientInv
  <2> QED BY <2>1 DEF ClientInv
<1> QED BY <1>1, <1>2
-----------------------------------------------------------------------------
(* The actions.                                                            *)

(* A retrieval starts.                                                     *)
LEMMA UpdStarts ==
  ASSUME DriveInv, StateInv(stored, ok, rd, cl), NEW list,
         list \in {<< >>, ToRead}, api = "NVMe" => list = ToRead,
         StoredInv(stored', ok), stored'.in, stored.in => stored' = stored,
         StartReading(list), UNCHANGED <<ok, cl>>
  PROVE  StateInv(stored', ok', rd', cl')
<1>1. ok' = ok /\ cl' = cl /\ rd' = [pc |-> "read", list |-> list, cur |-> 1, pos |-> 1]
  BY DEF StartReading
<1>2. Len(list) \in Nat
  BY DriveLists, EmptyLen
<1>3. ok \subseteq Found /\ ok \subseteq ToSet(ToRead)
  BY DEF StateInv, FlagInv
<1>4. ReaderInv(rd') /\ CursorInv(rd') /\ FlagInv(ok, rd')
  BY <1>1, <1>2, <1>3, StartedReader
<1>5. ClientInv(cl, stored')
  BY ClientKept DEF StateInv
<1> QED BY <1>1, <1>4, <1>5 DEF StateInv, RetrievalInv

LEMMA ReadStep ==
  ASSUME DriveInv, StateInv(stored, ok, rd, cl), ReadSMARTValuesForAllDrives
  PROVE  StateInv(stored', ok', rd', cl')
<1>1. api = "libatasmart" /\ UNCHANGED <<ok, cl>>
  BY DEF ReadSMARTValuesForAllDrives
<1>2. SetSMART_IDsToRead(getDriveSupportedSMART_IDs(table), toObs) = ToRead
  BY <1>1, DriveLists DEF Supp
<1>3. InsertDrive(Supp, ToRead) /\ StartReading(ToRead)
  BY <1>2, Zenon DEF ReadSMARTValuesForAllDrives, Supp
<1>4. StoredInv(stored', ok) /\ stored'.in /\ (stored.in => stored' = stored)
  BY <1>1, <1>3, InsertedDrive DEF StateInv
<1> QED BY <1>1, <1>3, <1>4, UpdStarts

LEMMA BlindStep ==
  ASSUME DriveInv, StateInv(stored, ok, rd, cl), ReadWithoutSupportedIDs
  PROVE  StateInv(stored', ok', rd', cl')
<1>1. /\ api = "libatasmart" /\ UNCHANGED <<ok, cl>>
      /\ InsertDrive(<< >>, << >>) /\ StartReading(<< >>)
  BY DEF ReadWithoutSupportedIDs
<1>2. StoredInv(stored', ok) /\ stored'.in /\ (stored.in => stored' = stored)
  BY <1>1, InsertedDrive DEF StateInv
<1> QED BY <1>1, <1>2, UpdStarts

LEMMA NVMeList ==
  ASSUME DriveInv, StoredInv(stored, ok), ReadSMARTviaNVMe
  PROVE  /\ stored' = [in |-> TRUE, supp |-> Supp, toRead |-> ToRead]
         /\ StartReading(ToRead)
         /\ stored.in => stored' = stored
<1>1. api = "NVMe"
  BY DEF ReadSMARTviaNVMe
<1>2. ToRead = Supp /\ SetSMART_IDsToRead(Supp, << >>) = Supp /\ Supp # << >>
  BY <1>1, DriveLists
<1> DEFINE toRead == IF stored.supp = << >> THEN SetSMART_IDsToRead(Supp, << >>)
                                            ELSE stored.toRead
<1>3. /\ stored' = [in |-> TRUE, supp |-> Supp, toRead |-> toRead]
      /\ StartReading(toRead)
  BY Zenon DEF ReadSMARTviaNVMe, Supp
<1>4. toRead = ToRead
  <2>1. CASE stored.in
    BY <1>1, <1>2, <2>1 DEF StoredInv
  <2>2. CASE ~stored.in
    BY <1>2, <2>2 DEF StoredInv
  <2> QED BY <2>1, <2>2
<1>5. stored.in => stored = [in |-> TRUE, supp |-> Supp, toRead |-> ToRead]
  <2> SUFFICES ASSUME stored.in PROVE stored = [in |-> TRUE, supp |-> Supp, toRead |-> ToRead]
    OBVIOUS
  <2>1. stored.in = TRUE
    BY DEF StoredInv
  <2> QED BY <1>1, <2>1, Zenon DEF StoredInv
<1> HIDE DEF toRead
<1> QED BY <1>3, <1>4, <1>5

LEMMA NVMeStep ==
  ASSUME DriveInv, StateInv(stored, ok, rd, cl), ReadSMARTviaNVMe
  PROVE  StateInv(stored', ok', rd', cl')
<1>1. UNCHANGED <<ok, cl>>
  BY DEF ReadSMARTviaNVMe
<1>2. /\ stored' = [in |-> TRUE, supp |-> Supp, toRead |-> ToRead]
      /\ StartReading(ToRead)
      /\ stored.in => stored' = stored
  BY NVMeList DEF StateInv
<1>3. stored'.in /\ stored'.in \in BOOLEAN /\ stored'.supp = Supp /\ stored'.toRead = ToRead
  BY <1>2
<1>4. stored' = [in |-> stored'.in, supp |-> stored'.supp, toRead |-> stored'.toRead]
  BY <1>2, <1>3
<1>5. IsCopy(Supp) /\ IsCopy(ToRead)
  BY DriveLists, IdsAssumption DEF IsCopy
<1>6. StoredInv(stored', ok)
  BY <1>3, <1>4, <1>5 DEF StoredInv
<1> QED BY <1>1, <1>2, <1>3, <1>6, UpdStarts

(* Every attribute of a drive with NVMe is found.                          *)
LEMMA SetRawValStep ==
  ASSUME DriveInv, StateInv(stored, ok, rd, cl), SetRawValNVMe
  PROVE  StateInv(stored', ok', rd', cl')
<1> DEFINE h == rd
           g == rd'
           id == h.list[h.pos]
<1>1. /\ api = "NVMe" /\ h.pc = "read" /\ ok' = ok \cup {id} /\ g = NextPos(h)
      /\ stored' = stored /\ cl' = cl
  BY DEF SetRawValNVMe
<1>2. ReaderInv(h) /\ stored.in /\ FlagInv(ok, h)
  BY <1>1 DEF StateInv, RetrievalInv
<1>3. IsReader(h) /\ h.list = ToRead /\ h.pos \in 1..Len(table) /\ h.cur \in 1..Len(h.list) + 1 /\ h.cur <= N
  BY <1>1, <1>2 DEF ReaderInv
<1>4. ToRead = table
  BY <1>1, DriveLists
<1>5. /\ Len(table) \in Nat
      /\ \A i \in 1..Len(table) : table[i] \in ToSet(table)
  BY TableFacts DEF DriveInv
<1>6. Found = ToSet(table)
  BY <1>1, FoundFacts DEF DriveInv
<1>7. id = table[h.pos]
  BY <1>3, <1>4
<1> HIDE DEF h, g, id
<1>8. /\ IsReader(g) /\ g.list = h.list /\ g.cur = h.cur
      /\ h.pos = Len(table) => g.pc = "done" /\ g.pos = h.pos
      /\ h.pos # Len(table) => g.pc = "read" /\ g.pos = h.pos + 1
  BY <1>1, <1>3, NextPosOf
<1>9. /\ g.pos \in 1..Len(table) /\ g.pc \in {"read", "done"}
      /\ g.pc = "done" => g.pos = Len(table)
      /\ \A i \in 1..Len(table) : Through(g, i) <=> i <= h.pos
      /\ \A i \in 1..Len(table) : Through(h, i) <=> i < h.pos
  BY <1>1, <1>3, <1>5, <1>8, ThroughNext
<1>10. \A i \in 1..Len(table) : Through(g, i) => Through(h, i) \/ i = h.pos
  BY <1>3, <1>5, <1>9
<1>11. ReaderInv(g) /\ g.pc # "idle"
  BY <1>1, <1>3, <1>8, <1>9 DEF ReaderInv
<1>12. CursorInv(g)
  BY <1>1 DEF CursorInv
<1>13. FlagInv(ok', g)
  <2>1. ok' \subseteq Found /\ ok' \subseteq ToSet(ToRead)
    BY <1>1, <1>2, <1>3, <1>4, <1>5, <1>6, <1>7 DEF FlagInv
  <2>2. ASSUME NEW i \in 1..Len(table), Through(g, i) PROVE table[i] \in ok'
    <3>1. CASE i = h.pos
      BY <1>1, <1>7, <3>1
    <3>2. CASE Through(h, i)
      <4>1. table[i] \in ok
        BY <1>1, <1>2, <1>3, <1>4, <1>5, <1>6, <3>2 DEF FlagInv
      <4> QED BY <1>1, <4>1
    <3> QED BY <1>10, <2>2, <3>1, <3>2
  <2> QED BY <1>3, <1>4, <1>5, <1>6, <1>8, <2>1, <2>2 DEF FlagInv
<1>14. StoredInv(stored', ok') /\ ClientInv(cl', stored')
  BY <1>1, <1>2 DEF StateInv, StoredInv
<1> QED BY <1>1, <1>2, <1>11, <1>12, <1>13, <1>14 DEF StateInv, RetrievalInv, g

(* What a callback makes of the values.                                    *)
LEMMA CallbackFlags ==
  ASSUME DriveInv, StateInv(stored, ok, rd, cl), getSMARTrawValueCallback
  PROVE  /\ ok' = IF table[rd.pos] \in ToSet(rd.list) /\ table[rd.pos] \in Found
                  THEN ok \cup {table[rd.pos]} ELSE ok \ {table[rd.pos]}
         /\ ok' \subseteq Found /\ ok' \subseteq ToSet(ToRead)
         /\ rd.list \in {<< >>, ToRead}
<1> DEFINE h == rd
           id == table[h.pos]
           j == Forward(h.list, h.cur, id)
<1>1. h.pc = "read" /\ api = "libatasmart" /\ ok' = Flag(h.list, j, id)
  BY DEF getSMARTrawValueCallback, Cursor
<1>2. ReaderInv(h) /\ CursorInv(h)
  BY DEF StateInv, RetrievalInv
<1>3. ok \subseteq Found /\ ok \subseteq ToSet(ToRead)
  BY DEF StateInv, FlagInv
<1>4. At(h.list, j) = id <=> id \in ToSet(h.list) /\ id \in Found
  BY <1>1, <1>2, CallbackFinds
<1>5. h.list \in {<< >>, ToRead}
  BY <1>1, <1>2 DEF ReaderInv
<1> HIDE DEF h, id, j
<1>6. ok' = IF id \in ToSet(h.list) /\ id \in Found THEN ok \cup {id} ELSE ok \ {id}
  BY <1>1, <1>4 DEF Flag
<1>7. ok' \subseteq Found /\ ok' \subseteq ToSet(ToRead)
  BY <1>3, <1>5, <1>6, EmptyLen
<1> QED BY <1>5, <1>6, <1>7 DEF h, id

LEMMA CallbackStep ==
  ASSUME DriveInv, StateInv(stored, ok, rd, cl), getSMARTrawValueCallback
  PROVE  StateInv(stored', ok', rd', cl')
<1> DEFINE h == rd
           id == table[h.pos]
           g == rd'
<1>1. /\ h.pc = "read" /\ api = "libatasmart"
      /\ g = NextPos([h EXCEPT !.cur = Forward(h.list, h.cur, table[h.pos])])
      /\ stored' = stored /\ cl' = cl
  BY DEF getSMARTrawValueCallback, Cursor
<1>2. FlagInv(ok, h) /\ ReaderInv(h) /\ CursorInv(h) /\ stored.in
  BY <1>1 DEF StateInv, RetrievalInv
<1>3. /\ ok' = IF id \in ToSet(h.list) /\ id \in Found THEN ok \cup {id} ELSE ok \ {id}
      /\ ok' \subseteq Found /\ ok' \subseteq ToSet(ToRead)
  BY CallbackFlags
<1>4. /\ Len(table) \in Nat
      /\ \A i, k \in 1..Len(table) : table[i] = table[k] => i = k
  BY TableFacts DEF DriveInv
<1>5. \A i \in 1..Len(table) : Through(h, i) => i # h.pos
  BY <1>1, <1>4 DEF Through
<1> HIDE DEF h, g
<1>6. /\ ReaderInv(g) /\ CursorInv(g) /\ g.list = h.list /\ g.pc # "idle"
      /\ h.pos \in 1..Len(table)
      /\ \A i \in 1..Len(table) : Through(g, i) <=> Through(h, i) \/ i = h.pos
  BY <1>1, <1>2, CallbackReader
<1>7. StoredInv(stored', ok') /\ ClientInv(cl', stored')
  BY <1>1, <1>2 DEF StateInv, StoredInv
<1>8. FlagInv(ok', g)
  <2>1. ASSUME NEW i \in 1..Len(table), Through(g, i)
        PROVE  table[i] \in ok' <=> table[i] \in Found /\ table[i] \in ToSet(g.list)
    <3>1. CASE i = h.pos
      BY <1>3, <1>6, <3>1
    <3>2. CASE Through(h, i)
      <4>1. i # h.pos /\ table[i] # id
        BY <1>4, <1>5, <1>6, <3>2
      <4>2. table[i] \in ok' <=> table[i] \in ok
        BY <1>3, <4>1
      <4>3. h.pc # "idle"
        BY <1>1
      <4> QED BY <1>2, <1>6, <3>2, <4>2, <4>3 DEF FlagInv
    <3> QED BY <1>6, <2>1, <3>1, <3>2
  <2> QED BY <1>3, <2>1 DEF FlagInv
<1> QED BY <1>1, <1>2, <1>6, <1>7, <1>8 DEF StateInv, RetrievalInv, g

(* A retrieval has ended.                                                  *)
LEMMA EndStep ==
  ASSUME StateInv(stored, ok, rd, cl), rd' = Idle,
         UNCHANGED <<stored, ok>>, ClientInv(cl', stored)
  PROVE  StateInv(stored', ok', rd', cl')
<1>1. stored' = stored /\ ok' = ok
  OBVIOUS
<1>2. StoredInv(stored, ok) /\ ok \subseteq Found /\ ok \subseteq ToSet(ToRead)
  BY DEF StateInv, FlagInv
<1>3. RetrievalInv(stored, Idle) /\ FlagInv(ok, Idle)
  BY <1>2, IdleReader
<1> HIDE DEF Idle
<1> QED BY <1>1, <1>2, <1>3 DEF StateInv

(* When a retrieval is done, what is in its list and can be found has a    *)
(* value, and nothing else.                                                *)
LEMMA DoneHas ==
  ASSUME DriveInv, StateInv(stored, ok, rd, cl), rd.pc = "done"
  PROVE  ok = ToSet(rd.list) \cap Found
<1>1. ReaderInv(rd) /\ FlagInv(ok, rd)
  BY DEF StateInv, RetrievalInv
<1>2. rd.pos = Len(table) /\ rd.pc = "done" /\ rd.list \in {<< >>, ToRead}
  BY <1>1 DEF ReaderInv
<1>3. table \in Seq(IDs) /\ Len(table) \in Nat
  BY TableFacts DEF DriveInv
<1>4. \A i \in 1..Len(table) : Through(rd, i)
  BY <1>2, <1>3 DEF Through
<1>5. \A i \in 1..Len(table) : table[i] \in ok <=> table[i] \in Found /\ table[i] \in ToSet(rd.list)
  BY <1>1, <1>2, <1>4 DEF FlagInv
<1>6. \A x \in ToSet(table) : \E i \in 1..Len(table) : table[i] = x
  BY <1>3, InSet
<1>7. \A x \in ToSet(table) : x \in ok <=> x \in Found /\ x \in ToSet(rd.list)
  BY <1>5, <1>6
<1>8. ok \subseteq Found /\ Found \subseteq ToSet(table)
  BY <1>1, FoundFacts DEF FlagInv
<1> QED BY <1>7, <1>8

(* The service sends all that it can or, after a blind retrieval, nothing. *)
LEMMA Sent ==
  ASSUME DriveInv, StateInv(stored, ok, rd, cl), rd.pc = "done"
  PROVE  SentIDs \in {{}, Sendable(stored)} /\ Sendable(stored) \subseteq IDs
<1>1. ok = ToSet(rd.list) \cap Found
  BY DoneHas
<1>2. rd.list \in {<< >>, ToRead}
  BY DEF StateInv, RetrievalInv, ReaderInv
<1>3. SentIDs = ToSet(stored.toRead) \cap ok
  BY DEF SentIDs
<1>4. Found \subseteq IDs
  BY FoundFacts
<1>5. CASE rd.list = << >>
  BY <1>1, <1>3, <1>4, <1>5, EmptyLen DEF Sendable
<1>6. CASE rd.list = ToRead
  BY <1>1, <1>3, <1>4, <1>6 DEF Sendable
<1> QED BY <1>2, <1>5, <1>6

LEMMA SortedEmpty ==
  Sorted({}) = << >>
<1>1. Sorted({}) \in Seq(IDs) /\ ToSet(Sorted({})) = {}
  BY SortedOf
<1>2. Len(Sorted({})) = 0
  BY <1>1, InSet
<1> QED BY <1>1, <1>2

LEMMA ClientConnects ==
  ASSUME DriveInv, StateInv(stored, ok, rd, cl), GetSupportedSMARTattributesViaXML
  PROVE  StateInv(stored', ok', rd', cl')
<1>1. Supp \in Seq(IDs) /\ Len(Supp) < N
  BY DriveLists
<1>2. /\ \E n \in CopyCounts : \E s \in copyArr(Supp, n) :
           cl' = [pc |-> "first", supp |-> s, lines |-> << >>, ok |-> {}]
      /\ stored.in /\ stored' = stored /\ ok' = ok /\ rd' = rd
  BY Zenon DEF GetSupportedSMARTattributesViaXML, Supp
<1>3. PICK n \in CopyCounts : \E s \in copyArr(Supp, n) :
             cl' = [pc |-> "first", supp |-> s, lines |-> << >>, ok |-> {}]
  BY <1>2
<1>4. PICK s \in copyArr(Supp, n) :
             cl' = [pc |-> "first", supp |-> s, lines |-> << >>, ok |-> {}]
  BY <1>3
<1>5. IsCopy(s)
  BY <1>1, CopyOf
<1>6. cl'.pc = "first" /\ cl'.supp = s /\ cl'.lines = << >> /\ cl'.ok = {}
  BY <1>4
<1>7. cl' = [pc |-> cl'.pc, supp |-> cl'.supp, lines |-> cl'.lines, ok |-> cl'.ok]
  BY <1>4, <1>6
<1>8. ClientInv(cl', stored)
  BY <1>2, <1>5, <1>6, <1>7, SortedEmpty DEF ClientInv
<1> QED BY <1>2, <1>8 DEF StateInv

(* A record of the client that a document has changed.                     *)
LEMMA ClientRecord ==
  ASSUME NEW c, c = [pc |-> c.pc, supp |-> c.supp, lines |-> c.lines, ok |-> c.ok],
         NEW p, NEW l, NEW o, NEW e, e = [c EXCEPT !.ok = o, !.lines = l, !.pc = p]
  PROVE  /\ e = [pc |-> e.pc, supp |-> e.supp, lines |-> e.lines, ok |-> e.ok]
         /\ e.pc = p /\ e.supp = c.supp /\ e.lines = l /\ e.ok = o
<1>1. PICK w, x, y, z : w = c.pc /\ x = c.supp /\ y = c.lines /\ z = c.ok
  OBVIOUS
<1>2. c = [pc |-> w, supp |-> x, lines |-> y, ok |-> z]
  BY <1>1, Zenon
<1>3. e = [pc |-> p, supp |-> x, lines |-> l, ok |-> o]
  BY <1>2
<1> QED BY <1>1, <1>3

LEMMA FirstValues ==
  ASSUME DriveInv, StateInv(stored, ok, rd, cl), GetSMARTvaluesAndUpdateUI
  PROVE  StateInv(stored', ok', rd', cl')
<1> DEFINE got == SentIDs
           p == IF NothingToObserve(got) THEN "noThread" ELSE "loop"
<1>1. /\ rd.pc = "done" /\ cl.pc = "first"
      /\ cl' = [cl EXCEPT !.ok = got, !.lines = LinesOf(got), !.pc = p]
      /\ rd' = Idle /\ UNCHANGED <<stored, ok>>
  BY DEF GetSMARTvaluesAndUpdateUI
<1>2. got \in {{}, Sendable(stored)} /\ got \subseteq IDs
  BY <1>1, Sent
<1>3. ClientInv(cl, stored)
  BY DEF StateInv
<1> HIDE DEF got
<1>4. LinesOf(got) = Sorted(got)
  <2>1. got \cap 1..N - 1 = got
    BY <1>2 DEF IDs
  <2> QED BY <2>1 DEF LinesOf
<1>5. p = "noThread" \/ (p = "loop" /\ got # {})
  BY <1>2 DEF NothingToObserve
<1> HIDE DEF p
<1>6. /\ cl' = [pc |-> cl'.pc, supp |-> cl'.supp, lines |-> cl'.lines, ok |-> cl'.ok]
      /\ cl'.pc = p /\ cl'.supp = cl.supp /\ cl'.lines = LinesOf(got) /\ cl'.ok = got
  <2>1. cl = [pc |-> cl.pc, supp |-> cl.supp, lines |-> cl.lines, ok |-> cl.ok]
    BY <1>3 DEF ClientInv
  <2>2. PICK c, l, e : c = cl /\ l = LinesOf(got) /\ e = cl'
    OBVIOUS
  <2>3. c = [pc |-> c.pc, supp |-> c.supp, lines |-> c.lines, ok |-> c.ok]
    BY <2>1, <2>2
  <2>4. e = [c EXCEPT !.ok = got, !.lines = l, !.pc = p]
    BY <1>1, <2>2
  <2>5. /\ e = [pc |-> e.pc, supp |-> e.supp, lines |-> e.lines, ok |-> e.ok]
        /\ e.pc = p /\ e.supp = c.supp /\ e.lines = l /\ e.ok = got
    BY <2>3, <2>4, ClientRecord
  <2> QED BY <2>2, <2>5
<1>7. IsCopy(cl.supp) /\ stored.in
  BY <1>1, <1>3 DEF ClientInv
<1>8. p = "loop" => got = Sendable(stored)
  BY <1>2, <1>5
<1>9. ClientInv(cl', stored)
  BY <1>2, <1>4, <1>5, <1>6, <1>7, <1>8 DEF ClientInv
<1> QED BY <1>1, <1>9, EndStep

LEMMA LaterValues ==
  ASSUME DriveInv, StateInv(stored, ok, rd, cl), GetSMARTattrValsFromSrv
  PROVE  StateInv(stored', ok', rd', cl') /\ cl' = cl
<1>1. /\ rd.pc = "done" /\ cl.pc = "loop"
      /\ cl' = [cl EXCEPT !.ok = cl.ok \cup SentIDs]
      /\ rd' = Idle /\ UNCHANGED <<stored, ok>>
  BY DEF GetSMARTattrValsFromSrv
<1>2. SentIDs \in {{}, Sendable(stored)}
  BY <1>1, Sent
<1>3. ClientInv(cl, stored)
  BY DEF StateInv
<1>4. cl.ok \cup SentIDs = cl.ok
  BY <1>1, <1>2, <1>3 DEF ClientInv
<1>5. cl' = cl
  <2>1. cl = [pc |-> cl.pc, supp |-> cl.supp, lines |-> cl.lines, ok |-> cl.ok]
    BY <1>3 DEF ClientInv
  <2>2. PICK w, x, y, z : w = cl.pc /\ x = cl.supp /\ y = cl.lines /\ z = cl.ok
    OBVIOUS
  <2>3. cl = [pc |-> w, supp |-> x, lines |-> y, ok |-> z]
    BY <2>1, <2>2, Zenon
  <2>4. cl' = [cl EXCEPT !.ok = z]
    BY <1>1, <1>4, <2>2, Zenon
  <2>5. PICK e : e = cl'
    OBVIOUS
  <2>6. e = [pc |-> w, supp |-> x, lines |-> y, ok |-> z]
    BY <2>3, <2>4, <2>5
  <2> QED BY <2>3, <2>5, <2>6
<1> QED BY <1>1, <1>3, <1>5, EndStep

-----------------------------------------------------------------------------
LEMMA IdsInvInit ==
  ASSUME Init
  PROVE  IdsInv
<1>1. DriveInv
  BY DEF DriveInv, Init
<1>2. nBlind \in 0..MaxBlind
  BY IdsAssumption DEF Init
<1>3. /\ stored = [in |-> FALSE, supp |-> << >>, toRead |-> << >>]
      /\ ok = {} /\ rd = Idle
      /\ cl = [pc |-> "off", supp |-> << >>, lines |-> << >>, ok |-> {}]
  BY DEF Init
<1>4. IsCopy(<< >>)
  BY IdsAssumption DEF IsCopy
<1>5. StoredInv(stored, ok)
  <2>1. ~stored.in /\ stored.in \in BOOLEAN /\ stored.supp = << >> /\ stored.toRead = << >>
    BY <1>3
  <2>2. stored = [in |-> stored.in, supp |-> stored.supp, toRead |-> stored.toRead]
    BY <1>3, <2>1
  <2> QED BY <1>3, <1>4, <2>1, <2>2 DEF StoredInv
<1>6. RetrievalInv(stored, rd) /\ FlagInv(ok, rd)
  <2>1. ok \subseteq Found /\ ok \subseteq ToSet(ToRead)
    BY <1>3
  <2>2. RetrievalInv(stored, Idle) /\ FlagInv(ok, Idle)
    BY <2>1, IdleReader
  <2> QED BY <1>3, <2>2, Zenon
<1>7. ClientInv(cl, stored)
  <2>1. cl.pc = "off" /\ cl.supp = << >> /\ cl.lines = << >> /\ cl.ok = {}
    BY <1>3
  <2>2. cl = [pc |-> cl.pc, supp |-> cl.supp, lines |-> cl.lines, ok |-> cl.ok]
    BY <1>3, <2>1
  <2> QED BY <1>4, <2>1, <2>2, SortedEmpty DEF ClientInv
<1> QED BY <1>1, <1>2, <1>5, <1>6, <1>7 DEF IdsInv, StateInv

LEMMA IdsInvStep ==
  ASSUME IdsInv, [Next]_vars
  PROVE  IdsInv'
<1>1. DriveInv /\ nBlind \in 0..MaxBlind /\ StateInv(stored, ok, rd, cl)
  BY DEF IdsInv
<1>2. ASSUME UNCHANGED drive, StateInv(stored', ok', rd', cl'), nBlind' \in 0..MaxBlind
      PROVE  IdsInv'
  BY <1>1, <1>2, DriveStays, StateStays DEF IdsInv
<1>3. CASE ReadSMARTValuesForAllDrives
  BY <1>1, <1>2, <1>3, ReadStep DEF ReadSMARTValuesForAllDrives
<1>4. CASE ReadWithoutSupportedIDs
  <2>1. nBlind' \in 0..MaxBlind
    BY <1>1, <1>4, IdsAssumption DEF ReadWithoutSupportedIDs
  <2> QED BY <1>1, <1>2, <1>4, <2>1, BlindStep DEF ReadWithoutSupportedIDs
<1>5. CASE ReadSMARTviaNVMe
  BY <1>1, <1>2, <1>5, NVMeStep DEF ReadSMARTviaNVMe
<1>6. CASE SetRawValNVMe
  BY <1>1, <1>2, <1>6, SetRawValStep DEF SetRawValNVMe
<1>7. CASE getSMARTrawValueCallback
  BY <1>1, <1>2, <1>7, CallbackStep DEF getSMARTrawValueCallback
<1>8. CASE WaitForSignalOrTimeout
  <2>1. StateInv(stored', ok', rd', cl')
    BY <1>1, <1>8, EndStep DEF WaitForSignalOrTimeout, StateInv
  <2> QED BY <1>1, <1>2, <1>8, <2>1 DEF WaitForSignalOrTimeout
<1>9. CASE GetSupportedSMARTattributesViaXML
  BY <1>1, <1>2, <1>9, ClientConnects DEF GetSupportedSMARTattributesViaXML
<1>10. CASE GetSMARTvaluesAndUpdateUI
  BY <1>1, <1>2, <1>10, FirstValues DEF GetSMARTvaluesAndUpdateUI
<1>11. CASE GetSMARTattrValsFromSrv
  BY <1>1, <1>2, <1>11, LaterValues DEF GetSMARTattrValsFromSrv
<1>12. CASE UNCHANGED vars
  <2>1. UNCHANGED drive /\ stored' = stored /\ ok' = ok /\ rd' = rd /\ cl' = cl /\ nBlind' = nBlind
    BY <1>12 DEF vars, drive
  <2> QED BY <1>1, <1>2, <2>1
<1> QED BY <1>3, <1>4, <1>5, <1>6, <1>7, <1>8, <1>9, <1>10, <1>11, <1>12
        DEF Next, UpdateThread, Client, NoThread

LEMMA IdsInvariance ==
  Spec => []IdsInv
<1>1. Init => IdsInv
  BY IdsInvInit
<1>2. IdsInv /\ [Next]_vars => IdsInv'
  BY IdsInvStep
<1> QED BY <1>1, <1>2, PTL DEF Spec

LEMMA CopyTypes ==
  ASSUME NEW s, IsCopy(s)
  PROVE  s \in Lists /\ Len(s) <= N
<1>1. IDs \subseteq 1..N
  BY IdsAssumption DEF IDs
<1>2. s \in Seq(IDs) /\ Len(s) <= N
  BY DEF IsCopy
<1>3. s \in Seq(1..N)
  BY <1>1, <1>2, SeqMonotonic
<1> QED BY <1>2, <1>3 DEF Lists

LEMMA TypesFollow ==
  ASSUME IdsInv
  PROVE  TypeOK
<1>1. DriveInv /\ nBlind \in 0..MaxBlind /\ StateInv(stored, ok, rd, cl)
  BY DEF IdsInv
<1>2. toObs \in Lists /\ Fits(toObs) /\ ToRead \in Lists /\ Fits(ToRead)
  BY <1>1, DriveLists DEF Fits
<1>3. N \in Nat /\ N > 1 /\ Len(table) \in Nat /\ Len(table) < N
  BY <1>1, TableFacts DEF DriveInv
<1>4. << >> \in Lists /\ Fits(<< >>)
  BY <1>3 DEF Lists, Fits
<1>5. ok \subseteq Found /\ Found \subseteq IDs
  BY <1>1, FoundFacts DEF StateInv, FlagInv
<1>6. /\ stored \in [in : BOOLEAN, supp : Lists, toRead : Lists]
      /\ Len(stored.supp) <= N /\ Len(stored.toRead) <= N
  <2>1. /\ stored = [in |-> stored.in, supp |-> stored.supp, toRead |-> stored.toRead]
        /\ stored.in \in BOOLEAN
        /\ IsCopy(stored.supp) /\ IsCopy(stored.toRead)
    BY <1>1 DEF StateInv, StoredInv
  <2>2. /\ stored.supp \in Lists /\ stored.toRead \in Lists
        /\ Len(stored.supp) <= N /\ Len(stored.toRead) <= N
    BY <2>1, CopyTypes
  <2> QED BY <2>1, <2>2
<1>7. /\ rd \in [pc : {"idle", "read", "done"}, list : Lists, cur : 1..N, pos : 1..N]
      /\ Fits(rd.list)
  <2>1. ReaderInv(rd)
    BY <1>1 DEF StateInv, RetrievalInv
  <2>2. CASE rd.pc = "idle"
    <3>1. rd = Idle
      BY <2>1, <2>2 DEF ReaderInv
    <3>2. rd.list = << >> /\ rd.cur = 1 /\ rd.pos = 1
      BY <3>1 DEF Idle
    <3>3. rd \in [pc : {"idle", "read", "done"}, list : Lists, cur : 1..N, pos : 1..N]
      BY <1>3, <1>4, <3>1 DEF Idle
    <3> QED BY <1>4, <3>2, <3>3
  <2>3. CASE rd.pc # "idle"
    <3>1. rd.list \in {<< >>, ToRead}
      BY <2>1, <2>3 DEF ReaderInv
    <3>2. rd.list \in Lists /\ Fits(rd.list)
      BY <1>2, <1>4, <3>1
    <3>3. /\ rd = [pc |-> rd.pc, list |-> rd.list, cur |-> rd.cur, pos |-> rd.pos]
          /\ rd.pc \in {"idle", "read", "done"}
          /\ rd.pos \in 1..Len(table) /\ rd.cur \in 1..Len(rd.list) + 1 /\ rd.cur <= N
      BY <2>1, <2>3 DEF ReaderInv, IsReader
    <3>4. Len(rd.list) \in Nat
      BY <3>2 DEF Lists
    <3>5. rd.cur \in 1..N /\ rd.pos \in 1..N
      BY <1>3, <3>3, <3>4
    <3> QED BY <3>2, <3>3, <3>5
  <2> QED BY <2>2, <2>3
<1>8. /\ cl \in [pc : {"off", "first", "loop", "noThread"}, supp : Lists,
                 lines : Lists, ok : SUBSET IDs]
      /\ Len(cl.supp) <= N /\ Fits(cl.lines)
  <2>1. /\ cl = [pc |-> cl.pc, supp |-> cl.supp, lines |-> cl.lines, ok |-> cl.ok]
        /\ cl.pc \in {"off", "first", "loop", "noThread"}
        /\ IsCopy(cl.supp)
        /\ cl.ok \in {{}, Sendable(stored)} /\ cl.lines = Sorted(cl.ok)
    BY <1>1 DEF StateInv, ClientInv
  <2>2. cl.ok \subseteq IDs
    BY <1>5, <2>1 DEF Sendable
  <2>3. cl.lines \in Lists /\ Fits(cl.lines)
    BY <2>1, <2>2, SortedOf DEF Fits
  <2>4. cl.supp \in Lists /\ Len(cl.supp) <= N
    BY <2>1, CopyTypes
  <2> QED BY <2>1, <2>2, <2>3, <2>4
<1>9. text \in Texts /\ table \in Tables
      /\ role \in {"gui", "service"} /\ api \in {"libatasmart", "NVMe"}
  BY <1>1 DEF DriveInv
<1> QED BY <1>1, <1>2, <1>5, <1>6, <1>7, <1>8, <1>9 DEF TypeOK

(* Whatever the uninitialized number of IDs to copy is: the lists that are *)
(* read from the drive, and the lines of a client, end with a 0 inside     *)
(* their array, and the cursor of the callback never runs past it; only    *)
(* the copies of the lists may fill theirs (getSMARTrawValueCallback,      *)
(* copyArr).                                                               *)
THEOREM ListsFitArrays ==
  Spec => []TypeOK
<1>1. IdsInv => TypeOK
  BY TypesFollow
<1> QED BY <1>1, IdsInvariance, PTL

(* A retrieval reads the intersection of what an ascending list in the     *)
(* file wants and the drive supports, in ascending order, or nothing, for  *)
(* any file and drive (SetSMART_IDsToRead).                                *)
THEOREM ReadsWhatIsWanted ==
  Spec => []ReadsIntersection
<1>1. IdsInv => ReadsIntersection
  <2> SUFFICES ASSUME IdsInv, rd.pc # "idle", Ascending(toObs)
               PROVE  Ascending(rd.list) /\ ToSet(rd.list) \in {{}, Selected}
    BY DEF ReadsIntersection
  <2>1. DriveInv /\ ReaderInv(rd)
    BY DEF IdsInv, StateInv, RetrievalInv
  <2>2. rd.list \in {<< >>, ToRead}
    BY <2>1 DEF ReaderInv
  <2>3. Ascending(ToRead) /\ ToSet(ToRead) = Selected
    BY <2>1, DriveLists
  <2>4. Ascending(<< >>)
    BY DEF Ascending
  <2> QED BY <2>2, <2>3, <2>4, EmptyLen
<1> QED BY <1>1, IdsInvariance, PTL

(* When a retrieval is done, exactly those attributes have a value that    *)
(* are in its list and have no higher ID before them in the drive's table, *)
(* for any order of the table (getSMARTrawValueCallback).                  *)
THEOREM FoundInOrder ==
  Spec => []ReadsWhatIsInOrder
<1>1. IdsInv => ReadsWhatIsInOrder
  <2>1. Found = InOrder
    BY DEF Found, InOrder, Highest
  <2> QED BY <2>1, DoneHas DEF IdsInv, ReadsWhatIsInOrder
<1> QED BY <1>1, IdsInvariance, PTL

(* A client in its loop has lines for exactly what it has values of, all   *)
(* of it selected at the service, for any order of the drive's attributes, *)
(* any number of reconnects and wherever the service's copy of the list is *)
(* cut (setSMART_IDsToReadFromSuccSMARTrawValUpd8, HandleSingleSMARTentry).*)
THEOREM LinesAreValues ==
  Spec => []ClientLinesMatch
<1>1. IdsInv => ClientLinesMatch
  <2> SUFFICES ASSUME IdsInv, cl.pc = "loop"
               PROVE  /\ ToSet(cl.lines) = cl.ok
                      /\ Ascending(toObs) => cl.ok \subseteq Selected
    BY DEF ClientLinesMatch
  <2>1. DriveInv /\ ClientInv(cl, stored)
    BY DEF IdsInv, StateInv
  <2>2. cl.ok = Sendable(stored) /\ cl.lines = Sorted(cl.ok)
    BY <2>1 DEF ClientInv
  <2>3. Found \subseteq IDs
    BY <2>1, FoundFacts
  <2>4. cl.ok \subseteq IDs /\ cl.ok \subseteq ToSet(ToRead)
    BY <2>2, <2>3 DEF Sendable
  <2>5. ToSet(cl.lines) = cl.ok
    BY <2>2, <2>4, SortedOf
  <2>6. Ascending(toObs) => ToSet(ToRead) = Selected
    BY <2>1, DriveLists
  <2> QED BY <2>4, <2>5, <2>6
<1> QED BY <1>1, IdsInvariance, PTL
-----------------------------------------------------------------------------
(* The refinement.                                                         *)

Blind == rd.pc = "read" /\ rd.list = << >>

LEMMA WantedIs ==
  ASSUME DriveInv
  PROVE  Wanted = ToSet(ToRead) /\ Wanted \subseteq IDs
<1>1. /\ Ascending(toObs) \/ api = "NVMe" => ToSet(ToRead) = Selected
      /\ api = "libatasmart" => ToRead = SetSMART_IDsToRead(Supp, toObs)
      /\ ToSet(ToRead) \subseteq ToSet(table)
  BY DriveLists
<1>2. api \in {"libatasmart", "NVMe"} /\ table \in Tables
  BY DEF DriveInv
<1>3. Wanted = ToSet(ToRead)
  BY <1>1, <1>2 DEF Wanted, Supp
<1>4. ToSet(table) \subseteq IDs
  BY <1>2, TableFacts
<1> QED BY <1>1, <1>3, <1>4

LEMMA WantedStays ==
  ASSUME UNCHANGED drive
  PROVE  Wanted' = Wanted
<1>1. toObs' = toObs /\ table' = table /\ api' = api
  BY DEF drive
<1>2. Selected' = Selected
  BY <1>1 DEF Selected
<1> QED BY <1>1, <1>2 DEF Wanted

(* The steps of SMARTselection in terms of SMARTids.                       *)
LEMMA MapsFind ==
  ASSUME Wanted' = Wanted, ~stored.in, stored.in \in BOOLEAN, stored'.in = TRUE, Shown' = Shown,
         \/ CreateLines' = Wanted /\ ~Blind'
         \/ CopyCounts # {N} /\ CreateLines' \in SUBSET IDs /\ ~Blind'
         \/ CreateLines' = {} /\ Blind'
  PROVE  Promised!Next
<1>1. Blind' = (rd'.pc = "read" /\ rd'.list = << >>)
  BY DEF Blind
<1>2. Promised!Find
  BY Zenon DEF Promised!Find, Blind
<1> QED BY <1>2, Zenon DEF Promised!Next

LEMMA MapsRetrieve ==
  ASSUME Wanted' = Wanted, stored.in, stored'.in = stored.in, CreateLines' = CreateLines,
         Shown' = Shown
  PROVE  Promised!Next
<1>1. Promised!Retrieve
  BY Zenon DEF Promised!Retrieve
<1> QED BY <1>1, Zenon DEF Promised!Next

LEMMA MapsGet ==
  ASSUME Wanted' = Wanted, stored'.in = stored.in, CreateLines' = CreateLines,
         NEW id \in IDs, id \in (CreateLines \cap Wanted) \ Shown, Shown' = Shown \cup {id},
         Blind' => Blind
  PROVE  Promised!Next
<1>1. Promised!Get(id)
  BY Zenon DEF Promised!Get, Blind
<1> QED BY <1>1, Zenon DEF Promised!Next

LEMMA MapsLose ==
  ASSUME Wanted' = Wanted, stored'.in = stored.in, CreateLines' = CreateLines,
         NEW id \in IDs, Blind, id \in Shown, Shown' = Shown \ {id},
         Blind' => Blind
  PROVE  Promised!Next
<1>1. Promised!Lose(id)
  BY Zenon DEF Promised!Lose, Blind
<1> QED BY <1>1, Zenon DEF Promised!Next

(* A retrieval starts.                                                     *)
LEMMA MapsStart ==
  ASSUME DriveInv, StoredInv(stored, ok), Wanted' = Wanted, ok' = ok, stored'.in = TRUE,
         NEW list, StartReading(list), list \in {<< >>, ToRead},
         IsCopy(stored'.toRead), stored.in => stored' = stored,
         ~stored.in => /\ list = << >> => stored'.toRead = << >>
                       /\ CopyCounts = {N} => stored'.toRead = list
  PROVE  Promised!Next
<1>1. rd'.pc = "read" /\ rd'.list = list
  BY DEF StartReading
<1>2. Blind' <=> list = << >>
  BY <1>1 DEF Blind
<1>3. Wanted = ToSet(ToRead)
  BY WantedIs
<1>4. CASE stored.in
  <2>1. stored' = stored
    BY <1>4
  <2>2. CreateLines' = CreateLines /\ Shown' = Shown
    BY <2>1 DEF CreateLines, Shown
  <2> QED BY <1>4, <2>1, <2>2, MapsRetrieve
<1>5. CASE ~stored.in
  <2>1. stored.in \in BOOLEAN /\ ok = {}
    BY <1>5 DEF StoredInv
  <2>2. Shown = {} /\ Shown' = {}
    BY <2>1 DEF Shown
  <2>3. CreateLines' = ToSet(stored'.toRead)
    BY DEF CreateLines
  <2>4. CreateLines' \in SUBSET IDs
    <3>1. stored'.toRead \in Seq(IDs)
      BY DEF IsCopy
    <3>2. ToSet(stored'.toRead) \subseteq IDs
      BY <3>1, InSet
    <3> QED BY <2>3, <3>2
  <2>5. CASE list = << >>
    <3>1. CreateLines' = {} /\ Blind'
      BY <1>2, <1>5, <2>3, <2>5, EmptyLen
    <3> QED BY <1>5, <2>1, <2>2, <3>1, MapsFind
  <2>6. CASE list # << >> /\ CopyCounts = {N}
    <3>1. CreateLines' = Wanted /\ ~Blind'
      BY <1>2, <1>3, <1>5, <2>3, <2>6
    <3> QED BY <1>5, <2>1, <2>2, <3>1, MapsFind
  <2>7. CASE list # << >> /\ CopyCounts # {N}
    BY <1>2, <1>5, <2>1, <2>2, <2>4, <2>7, MapsFind
  <2> QED BY <2>5, <2>6, <2>7
<1> QED BY <1>4, <1>5

LEMMA MapsReads ==
  ASSUME DriveInv, StateInv(stored, ok, rd, cl), Wanted' = Wanted,
         ReadSMARTValuesForAllDrives \/ ReadWithoutSupportedIDs \/ ReadSMARTviaNVMe
  PROVE  Promised!Next
<1>1. StoredInv(stored, ok)
  BY DEF StateInv
<1>2. ASSUME NEW supp, NEW toRead, api = "libatasmart", ok' = ok,
             InsertDrive(supp, toRead), StartReading(toRead),
             \/ supp = Supp /\ toRead = ToRead
             \/ supp = << >> /\ toRead = << >>
      PROVE  Promised!Next
  <2>1. /\ StoredInv(stored', ok) /\ stored'.in
        /\ stored.in => stored' = stored
        /\ ~stored.in => /\ toRead = << >> => stored'.toRead = << >>
                         /\ CopyCounts = {N} => stored'.toRead = toRead
    BY <1>1, <1>2, InsertedDrive
  <2>2. stored'.in = TRUE /\ IsCopy(stored'.toRead)
    BY <2>1 DEF StoredInv
  <2>3. toRead \in {<< >>, ToRead}
    BY <1>2
  <2> QED BY <1>1, <1>2, <2>1, <2>2, <2>3, MapsStart
<1>3. CASE ReadSMARTValuesForAllDrives
  <2>1. api = "libatasmart" /\ ok' = ok
    BY <1>3 DEF ReadSMARTValuesForAllDrives
  <2>2. SetSMART_IDsToRead(getDriveSupportedSMART_IDs(table), toObs) = ToRead
    BY <2>1, DriveLists DEF Supp
  <2>3. InsertDrive(Supp, ToRead) /\ StartReading(ToRead)
    BY <1>3, <2>2, Zenon DEF ReadSMARTValuesForAllDrives, Supp
  <2> QED BY <1>2, <2>1, <2>3
<1>4. CASE ReadWithoutSupportedIDs
  BY <1>2, <1>4 DEF ReadWithoutSupportedIDs
<1>5. CASE ReadSMARTviaNVMe
  <2>1. /\ stored' = [in |-> TRUE, supp |-> Supp, toRead |-> ToRead]
        /\ StartReading(ToRead)
        /\ stored.in => stored' = stored
    BY <1>1, <1>5, NVMeList
  <2>2. stored'.in = TRUE /\ stored'.toRead = ToRead
    BY <2>1
  <2>3. ok' = ok /\ api = "NVMe"
    BY <1>5 DEF ReadSMARTviaNVMe
  <2>4. ToRead # << >> /\ IsCopy(ToRead)
    BY <2>3, DriveLists, IdsAssumption DEF IsCopy
  <2> QED BY <1>1, <2>1, <2>2, <2>3, <2>4, MapsStart
<1> QED BY <1>3, <1>4, <1>5

LEMMA MapsNVMe ==
  ASSUME DriveInv, StateInv(stored, ok, rd, cl), Wanted' = Wanted, SetRawValNVMe
  PROVE  Promised!Next
<1> DEFINE h == rd
           id == h.list[h.pos]
<1>1. /\ api = "NVMe" /\ h.pc = "read" /\ ok' = ok \cup {id} /\ stored' = stored
      /\ rd' = NextPos(h)
  BY DEF SetRawValNVMe
<1>2. ReaderInv(h) /\ stored.in
  BY <1>1 DEF StateInv, RetrievalInv
<1>3. h.list = ToRead /\ h.pos \in 1..Len(table) /\ stored.toRead = ToRead
  BY <1>1, <1>2 DEF ReaderInv, StateInv, StoredInv
<1>4. ToRead = table /\ ToRead = Supp /\ Supp # << >>
  BY <1>1, DriveLists
<1>5. \A i \in 1..Len(table) : table[i] \in IDs /\ table[i] \in ToSet(table)
  BY TableFacts DEF DriveInv
<1>6. id \in IDs /\ id \in CreateLines /\ id \in Wanted
  BY <1>3, <1>4, <1>5, WantedIs DEF CreateLines
<1>7. ~Blind'
  <2>1. IsReader(h)
    BY <1>2 DEF ReaderInv
  <2> HIDE DEF h
  <2>2. rd'.list = h.list
    BY <1>1, <2>1, NextPosOf
  <2> QED BY <1>3, <1>4, <2>2 DEF Blind
<1> HIDE DEF id, h
<1>8. CreateLines' = CreateLines
  BY <1>1 DEF CreateLines
<1>9. CASE id \in ok
  <2>1. Shown' = Shown
    BY <1>1, <1>8, <1>9 DEF Shown
  <2> QED BY <1>1, <1>2, <1>8, <2>1, MapsRetrieve
<1>10. CASE id \notin ok
  <2>1. Shown' = Shown \cup {id} /\ id \in (CreateLines \cap Wanted) \ Shown
    BY <1>1, <1>6, <1>8, <1>10 DEF Shown
  <2> QED BY <1>1, <1>6, <1>7, <1>8, <2>1, MapsGet
<1> QED BY <1>9, <1>10

(* The values that a callback takes away: only those of a blind retrieval. *)
LEMMA MapsCallback ==
  ASSUME DriveInv, StateInv(stored, ok, rd, cl), Wanted' = Wanted, getSMARTrawValueCallback
  PROVE  Promised!Next
<1> DEFINE h == rd
           id == table[h.pos]
           g == rd'
<1>1. /\ h.pc = "read" /\ api = "libatasmart" /\ stored' = stored
      /\ g = NextPos([h EXCEPT !.cur = Forward(h.list, h.cur, table[h.pos])])
  BY DEF getSMARTrawValueCallback, Cursor
<1>2. ReaderInv(h) /\ CursorInv(h) /\ stored.in
  BY <1>1 DEF StateInv, RetrievalInv
<1>3. /\ ok' = IF id \in ToSet(h.list) /\ id \in Found THEN ok \cup {id} ELSE ok \ {id}
      /\ h.list \in {<< >>, ToRead}
  BY CallbackFlags
<1>4. ok \subseteq Found /\ ok \subseteq ToSet(ToRead)
  BY DEF StateInv, FlagInv
<1> HIDE DEF h, g
<1>5. g.list = h.list /\ h.pos \in 1..Len(table)
  BY <1>1, <1>2, CallbackReader
<1>6. id \in IDs
  BY <1>5, TableFacts DEF DriveInv
<1> HIDE DEF id
<1>7. Blind' => Blind
  BY <1>1, <1>5 DEF Blind, h, g
<1>8. CreateLines' = CreateLines
  BY <1>1 DEF CreateLines
<1>9. CASE Shown' = Shown
  BY <1>1, <1>2, <1>8, <1>9, MapsRetrieve
<1>10. CASE id \in ToSet(h.list) /\ id \in Found /\ Shown' # Shown
  <2>1. ok' = ok \cup {id}
    BY <1>3, <1>10
  <2>2. id \in Wanted
    BY <1>3, <1>10, EmptyLen, WantedIs
  <2>3. Shown' = Shown \cup {id} /\ id \in (CreateLines \cap Wanted) \ Shown
    BY <1>8, <1>10, <2>1, <2>2 DEF Shown
  <2> QED BY <1>1, <1>6, <1>7, <1>8, <2>3, MapsGet
<1>11. CASE ~(id \in ToSet(h.list) /\ id \in Found) /\ Shown' # Shown
  <2>1. ok' = ok \ {id}
    BY <1>3, <1>11
  <2>2. Shown' = Shown \ {id} /\ id \in Shown
    BY <1>8, <1>11, <2>1 DEF Shown
  <2>3. id \in ok
    BY <2>2 DEF Shown
  <2>4. h.list = << >>
    BY <1>3, <1>4, <1>11, <2>3
  <2>5. Blind
    BY <1>1, <2>4 DEF Blind, h
  <2> QED BY <1>1, <1>6, <1>7, <1>8, <2>2, <2>5, MapsLose
<1> QED BY <1>9, <1>10, <1>11

(* The table of an attribute selection behaves as SMARTselection promises, *)
(* for any file and drive and whatever the uninitialized number of IDs to  *)
(* copy is: its lines are fixed when the drive is found, to the selected   *)
(* attributes if no copy is cut, values come one by one, to selected       *)
(* attributes only, and only a retrieval that did not know what to read    *)
(* takes one away (readSMARTforDevice, getSMARTrawValueCallback).          *)
THEOREM SelectionImplemented ==
  Spec => ImplementsSelection
<1>1. Init => Promised!Init
  <2> SUFFICES ASSUME Init PROVE Promised!Init
    OBVIOUS
  <2>1. DriveInv
    BY IdsInvInit DEF IdsInv
  <2>2. Wanted \subseteq IDs
    BY <2>1, WantedIs
  <2>3. /\ stored = [in |-> FALSE, supp |-> << >>, toRead |-> << >>] /\ ok = {}
        /\ rd = Idle
    BY DEF Init
  <2>4. stored.in = FALSE /\ CreateLines = {} /\ Shown = {}
    BY <2>3, EmptyLen DEF CreateLines, Shown
  <2>5. ~Blind
    BY <2>3 DEF Blind, Idle
  <2> QED BY <2>2, <2>4, <2>5, Zenon DEF Promised!Init, Blind
<1>2. IdsInv /\ [Next]_vars => [Promised!Next]_(Promised!vars)
  <2> SUFFICES ASSUME IdsInv, [Next]_vars
               PROVE  Promised!Next \/ UNCHANGED Promised!vars
    OBVIOUS
  <2>1. DriveInv /\ StateInv(stored, ok, rd, cl)
    BY DEF IdsInv
  <2>2. ASSUME UNCHANGED <<drive, stored, ok>>, stored.in PROVE Promised!Next
    <3>1. Wanted' = Wanted /\ stored' = stored
      BY <2>2, WantedStays
    <3>2. CreateLines' = CreateLines /\ Shown' = Shown
      BY <2>2 DEF CreateLines, Shown
    <3> QED BY <2>2, <3>1, <3>2, MapsRetrieve
  <2>3. rd.pc # "idle" => stored.in
    BY <2>1 DEF StateInv, RetrievalInv
  <2>4. CASE ReadSMARTValuesForAllDrives \/ ReadWithoutSupportedIDs \/ ReadSMARTviaNVMe
    <3>1. Wanted' = Wanted
      BY <2>4, WantedStays DEF ReadSMARTValuesForAllDrives, ReadWithoutSupportedIDs,
                               ReadSMARTviaNVMe
    <3> QED BY <2>1, <2>4, <3>1, MapsReads
  <2>5. CASE SetRawValNVMe
    <3>1. Wanted' = Wanted
      BY <2>5, WantedStays DEF SetRawValNVMe
    <3> QED BY <2>1, <2>5, <3>1, MapsNVMe
  <2>6. CASE getSMARTrawValueCallback
    <3>1. Wanted' = Wanted
      BY <2>6, WantedStays DEF getSMARTrawValueCallback
    <3> QED BY <2>1, <2>6, <3>1, MapsCallback
  <2>7. CASE WaitForSignalOrTimeout
    BY <2>2, <2>3, <2>7 DEF WaitForSignalOrTimeout
  <2>8. CASE GetSupportedSMARTattributesViaXML
    BY <2>2, <2>8 DEF GetSupportedSMARTattributesViaXML
  <2>9. CASE GetSMARTvaluesAndUpdateUI
    BY <2>2, <2>3, <2>9 DEF GetSMARTvaluesAndUpdateUI
  <2>10. CASE GetSMARTattrValsFromSrv
    BY <2>2, <2>3, <2>10 DEF GetSMARTattrValsFromSrv
  <2>11. CASE UNCHANGED vars
    <3>1. UNCHANGED <<drive, stored, ok, rd>>
      BY <2>11 DEF vars, drive
    <3>2. Wanted' = Wanted
      BY <3>1, WantedStays
    <3>3. stored'.in = stored.in /\ CreateLines' = CreateLines /\ Shown' = Shown /\ Blind' = Blind
      BY <3>1 DEF CreateLines, Shown, Blind
    <3> QED BY <3>2, <3>3, Zenon DEF Promised!vars, Blind
  <2> QED BY <2>4, <2>5, <2>6, <2>7, <2>8, <2>9, <2>10, <2>11
          DEF Next, UpdateThread, Client, NoThread
<1> QED BY <1>1, <1>2, IdsInvariance, PTL DEF Spec, ImplementsSelection, Promised!Spec
=============================================================================
