----------------------------- MODULE TcpProofs -----------------------------
(***************************************************************************)
(* Proofs about the control blocks of the TCP stack, for pools, ports,      *)
(* priorities and time-outs of any size.                                    *)
(*                                                                         *)
(* Nearly every function of tcp.c works on one block: it changes the fields *)
(* of that block and the lists the block is on.  OneBlock says so, BlockOK  *)
(* is what has to hold of a block, and LEMMA OneBlockKeeps carries the      *)
(* invariant StackOK over any such change, given BlockOK of the one block.  *)
(***************************************************************************)
EXTENDS TcpPcb, WellFoundedInduction, TLAPS

Ports == {0} \cup ServerPorts \cup LocalPorts
Stack == [pcb : [Pcb -> Block], lpcb : [ListenPcb -> Listener],
          listen : SUBSET ListenPcb, bound : SUBSET Pcb, active : Seq(Pcb),
          tw : Seq(Pcb), changed : BOOLEAN, held : SUBSET Pcb, lost : SUBSET Pcb]

\* What holds of a block.  That a block in an active state is on the active
\* list is not part of it: when callbacks change the list, the slow timer may
\* drop blocks that are alive.
BlockOK(t, p) ==
    LET b == t.pcb[p]
    IN  /\ p \in ToSet(t.active) => b.state \in Active
        /\ p \in ToSet(t.tw) <=> b.state = "TIME_WAIT"
        /\ p \in t.bound => b.state = "CLOSED" /\ b.port # 0
        /\ b.state = "CLOSED" => p \in t.held \cup t.lost
        /\ p \in t.held => /\ b.state \notin {"FREE", "TIME_WAIT"}
                           /\ b.rxclosed => b.state \notin FinSent

Reserving(t) == {l \in t.listen : t.lpcb[l].reserved}
Reserved(t) ==
    /\ \A p, q \in t.bound : t.pcb[p].port = t.pcb[q].port => p = q
    /\ \A l, m \in Reserving(t) : t.lpcb[l].port = t.lpcb[m].port => l = m
    /\ \A p \in t.bound, l \in Reserving(t) : t.pcb[p].port # t.lpcb[l].port

StackOK(t) ==
    /\ t \in Stack
    /\ IsInjective(t.active) /\ IsInjective(t.tw)
    /\ \A p \in Pcb : BlockOK(t, p)
    /\ Reserved(t)

TimerType == [which : {"none", "slow", "fast", "input"}, cur : Pcb \cup {NULL},
              prev : Pcb \cup {NULL}, callback : {"none", "err", "poll", "recv", "closed"},
              who : Pcb \cup {NULL}, fin : BOOLEAN, aborted : BOOLEAN]

\* A walk is at a block of the list, and the block before, if one is noted, is
\* further ahead on it.
Place(list, cur, prev) ==
    \/ cur = NULL
    \/ \E k \in 1..Len(list) :
          /\ list[k] = cur
          /\ prev # NULL => \E j \in 1..(k - 1) : list[j] = prev

TimerOK ==
    /\ timer \in TimerType
    /\ timer.which = "none" => timer.cur = NULL /\ timer.callback = "none"
    /\ ~(InCallback /\ tcp.changed) => Place(tcp.active, timer.cur, timer.prev)

TcpInv == StackOK(tcp) /\ TimerOK /\ silent \in BOOLEAN

\* With an application that calls nothing from callbacks and connects a block
\* in time, the lists hold every block in a state of theirs, and the timers
\* deal with each exactly once in a walk.
AsInRepository == Liberties = {}

Listed(t) == \A p \in Pcb : t.pcb[p].state \in Active => p \in ToSet(t.active)
Rested(t) == \A p \in Pcb : t.pcb[p].state \in Active \cup {"CLOSED"} => t.pcb[p].lag = 0

\* A walk has dealt with the blocks ahead of its place, and with no other.
Halfway(list, pcb, k) ==
    /\ timer.cur = IF k <= Len(list) THEN list[k] ELSE NULL
    /\ timer.which = "slow" => timer.prev = IF k = 1 THEN NULL ELSE list[k - 1]
    /\ \A i \in 1..Len(list) : pcb[list[i]].lag = IF i < k THEN 0 ELSE 1

WalkInv ==
    /\ Listed(tcp) /\ ~tcp.changed
    /\ timer.callback \in {"err", "poll"} => FALSE
    /\ InCallback => timer.which # "slow"
    /\ timer.which \in {"none", "input"} => Rested(tcp)
    /\ timer.which \in {"slow", "fast"} =>
         /\ \A p \in Pcb : tcp.pcb[p].state = "CLOSED" => tcp.pcb[p].lag = 0
         /\ \E k \in 1..(Len(tcp.active) + 1) : Halfway(tcp.active, tcp.pcb, k)

StrictInv == TcpInv /\ WalkInv
-----------------------------------------------------------------------------
(* Numbers and lists                                                        *)

Below == {ss \in Nat \X Nat : ss[1] < ss[2]}

\* A set of natural numbers that is not empty has a least element: what the
\* inductions of this module rest on.
LEMMA LeastNumber ==
    ASSUME NEW T, T \subseteq Nat, T # {}
    PROVE  \E x \in T : \A y \in T : x <= y
<1>1. IsWellFoundedOn(Below, Nat)
  <2>1. Below = OpToRel(<, Nat)
    BY DEF OpToRel, Below
  <2>. QED BY <2>1, NatLessThanWellFounded, Zenon
<1>2. \E x \in T : \A y \in T : <<y, x>> \notin Below
  BY <1>1, WFMin
<1>3. \A x, y \in Nat : <<y, x>> \notin Below => x <= y
  BY DEF Below
<1>. QED BY <1>2, <1>3

\* The members of a list are the values at its positions.
LEMMA ListMembers ==
    ASSUME NEW S, NEW list \in Seq(S), NEW p
    PROVE  /\ p \in ToSet(list) <=> \E i \in 1..Len(list) : list[i] = p
           /\ p \in ToSet(list) => p \in S
BY DEF ToSet

LEMMA InjectiveList ==
    ASSUME NEW S, NEW list \in Seq(S)
    PROVE  IsInjective(list) <=>
             \A i, j \in 1..Len(list) : list[i] = list[j] => i = j
BY DEF IsInjective

LEMMA Concatenation ==
    ASSUME NEW S, NEW a \in Seq(S), NEW b \in Seq(S)
    PROVE  /\ a \o b \in Seq(S) /\ Len(a \o b) = Len(a) + Len(b)
           /\ \A j \in 1..Len(a) : (a \o b)[j] = a[j]
           /\ \A j \in (Len(a) + 1)..(Len(a) + Len(b)) : (a \o b)[j] = b[j - Len(a)]
<1>1. a \o b \in Seq(S)
  OBVIOUS
<1>2. Len(a \o b) = Len(a) + Len(b)
  OBVIOUS
<1>3. \A j \in 1..Len(a) : (a \o b)[j] = a[j]
  OBVIOUS
<1>4. \A j \in (Len(a) + 1)..(Len(a) + Len(b)) : (a \o b)[j] = b[j - Len(a)]
  OBVIOUS
<1>. QED BY <1>1, <1>2, <1>3, <1>4

\* A list without the positions from i + 1 to k: the positions ahead stay, the
\* others move up.
LEMMA CutOut ==
    ASSUME NEW S, NEW list \in Seq(S), NEW i \in 0..Len(list), NEW k \in i..Len(list)
    PROVE  LET rest == SubSeq(list, 1, i) \o SubSeq(list, k + 1, Len(list))
           IN  /\ rest \in Seq(S) /\ Len(rest) = Len(list) - (k - i)
               /\ \A j \in 1..Len(rest) :
                    rest[j] = IF j <= i THEN list[j] ELSE list[j + (k - i)]
<1> DEFINE a == SubSeq(list, 1, i)
           b == SubSeq(list, k + 1, Len(list))
<1>1. /\ a \in Seq(S) /\ Len(a) = i
      /\ \A j \in 1..i : a[j] = list[j]
  OBVIOUS
<1>2. /\ b \in Seq(S) /\ Len(b) = Len(list) - k
      /\ \A j \in 1..(Len(list) - k) : b[j] = list[j + k]
  OBVIOUS
<1> HIDE DEF a, b
<1>3. /\ a \o b \in Seq(S) /\ Len(a \o b) = Len(a) + Len(b)
      /\ \A j \in 1..Len(a) : (a \o b)[j] = a[j]
      /\ \A j \in (Len(a) + 1)..(Len(a) + Len(b)) : (a \o b)[j] = b[j - Len(a)]
  BY <1>1, <1>2, Concatenation
<1>4. ASSUME NEW j \in 1..Len(a \o b)
      PROVE  (a \o b)[j] = IF j <= i THEN list[j] ELSE list[j + (k - i)]
  <2>1. CASE j <= i
    BY <1>1, <1>3, <2>1
  <2>2. CASE j > i
    <3>1. j - i \in 1..(Len(list) - k) /\ (a \o b)[j] = b[j - i]
      BY <1>1, <1>2, <1>3, <2>2
    <3>2. b[j - i] = list[(j - i) + k]
      BY <1>2, <3>1
    <3>. QED BY <3>1, <3>2, <2>2
  <2>. QED BY <2>1, <2>2
<1>5. Len(a \o b) = Len(list) - (k - i)
  BY <1>1, <1>2, <1>3
<1>. QED BY <1>3, <1>4, <1>5 DEF a, b

\* TCP_RMV takes a block off a list and leaves the rest as it was.
LEMMA RemoveFromList ==
    ASSUME NEW S, NEW list \in Seq(S), IsInjective(list), NEW p
    PROVE  /\ RemoveFirst(list, p) \in Seq(S)
           /\ IsInjective(RemoveFirst(list, p))
           /\ \A q : q \in ToSet(RemoveFirst(list, p)) <=> q \in ToSet(list) /\ q # p
<1>1. CASE ~\E i \in 1..Len(list) : list[i] = p
  BY <1>1, ListMembers DEF RemoveFirst
<1>2. CASE \E i \in 1..Len(list) : list[i] = p
  <2>1. PICK i \in 1..Len(list) : list[i] = p
    BY <1>2
  <2>2. {j \in 1..Len(list) : list[j] = p} = {i}
    BY <2>1, InjectiveList
  <2>3. SelectInSeq(list, LAMBDA v : v = p) = i
    <3>1. SelectInSeq(list, LAMBDA v : v = p) = Min({i})
      BY <2>2 DEF SelectInSeq
    <3>2. Min({i}) = i
      BY DEF Min
    <3>. QED BY <3>1, <3>2
  <2> DEFINE rest == SubSeq(list, 1, i - 1) \o SubSeq(list, i + 1, Len(list))
  <2>4. RemoveFirst(list, p) = rest
    BY <1>2, <2>3 DEF RemoveFirst, RemoveAt
  <2>5. /\ rest \in Seq(S) /\ Len(rest) = Len(list) - 1
        /\ \A j \in 1..Len(rest) : rest[j] = IF j <= i - 1 THEN list[j] ELSE list[j + 1]
    <3>1. i - 1 \in 0..Len(list) /\ i \in (i - 1)..Len(list) /\ i - (i - 1) = 1
      OBVIOUS
    <3>2. /\ rest \in Seq(S) /\ Len(rest) = Len(list) - (i - (i - 1))
          /\ \A j \in 1..Len(rest) :
               rest[j] = IF j <= i - 1 THEN list[j] ELSE list[j + (i - (i - 1))]
      BY ONLY <3>1, CutOut, list \in Seq(S)
    <3>. QED BY <3>1, <3>2
  <2> HIDE DEF rest
  <2>6. IsInjective(rest)
    BY <2>5, InjectiveList
  <2>7. ASSUME NEW q
        PROVE  q \in ToSet(rest) <=> q \in ToSet(list) /\ q # p
    <3>1. ASSUME q \in ToSet(rest) PROVE q \in ToSet(list) /\ q # p
      BY <2>1, <2>5, <3>1, ListMembers, InjectiveList
    <3>2. ASSUME q \in ToSet(list), q # p PROVE q \in ToSet(rest)
      <4>1. PICK j \in 1..Len(list) : list[j] = q
        BY <3>2, ListMembers
      <4>2. j # i
        BY <3>2, <4>1, <2>1
      <4>3. CASE j < i
        <5>1. j \in 1..Len(rest) /\ rest[j] = q
          BY <4>1, <4>3, <2>5
        <5>. QED BY <5>1, <2>5, ListMembers
      <4>4. CASE j > i
        <5>1. j - 1 \in 1..Len(rest) /\ rest[j - 1] = q
          BY <4>1, <4>4, <2>5
        <5>. QED BY <5>1, <2>5, ListMembers
      <4>. QED BY <4>2, <4>3, <4>4
    <3>. QED BY <3>1, <3>2
  <2>. QED BY <2>4, <2>5, <2>6, <2>7
<1>. QED BY <1>1, <1>2

\* TCP_REG puts a block that is not on a list before all others.
LEMMA PushOnList ==
    ASSUME NEW S, NEW list \in Seq(S), IsInjective(list), NEW p \in S, p \notin ToSet(list)
    PROVE  /\ <<p>> \o list \in Seq(S)
           /\ IsInjective(<<p>> \o list)
           /\ \A q : q \in ToSet(<<p>> \o list) <=> q = p \/ q \in ToSet(list)
<1> DEFINE longer == <<p>> \o list
<1>1. /\ longer \in Seq(S) /\ Len(longer) = Len(list) + 1 /\ longer[1] = p
      /\ \A i \in 1..Len(list) : longer[i + 1] = list[i]
  OBVIOUS
<1> HIDE DEF longer
<1>2. \A i \in 1..Len(longer) : i # 1 => i - 1 \in 1..Len(list) /\ longer[i] = list[i - 1]
  <2>1. ASSUME NEW i \in 1..Len(longer), i # 1
        PROVE  i - 1 \in 1..Len(list) /\ longer[i] = list[i - 1]
    <3>1. i - 1 \in 1..Len(list)
      BY <1>1, <2>1
    <3>2. longer[(i - 1) + 1] = list[i - 1]
      BY <1>1, <3>1
    <3>. QED BY <3>1, <3>2
  <2>. QED BY <2>1
<1>3. IsInjective(longer)
  <2>1. ASSUME NEW i \in 1..Len(longer), NEW j \in 1..Len(longer), longer[i] = longer[j]
        PROVE  i = j
    <3>1. CASE i = 1 /\ j = 1
      BY <3>1
    <3>2. CASE i # 1 /\ j # 1
      <4>1. /\ i - 1 \in 1..Len(list) /\ j - 1 \in 1..Len(list)
            /\ list[i - 1] = list[j - 1]
        BY <1>2, <2>1, <3>2
      <4>2. i - 1 = j - 1
        BY <4>1, InjectiveList
      <4>. QED BY <4>2, <1>1
    <3>3. ASSUME NEW m \in 1..Len(longer), m # 1 PROVE longer[m] # p
      BY <1>2, <3>3, ListMembers
    <3>. QED BY <1>1, <2>1, <3>1, <3>2, <3>3
  <2>. QED BY <1>1, <2>1, InjectiveList
<1>4. ASSUME NEW q
      PROVE  q \in ToSet(longer) <=> q = p \/ q \in ToSet(list)
  <2>1. ASSUME q \in ToSet(longer) PROVE q = p \/ q \in ToSet(list)
    BY <1>1, <1>2, <2>1, ListMembers
  <2>2. ASSUME q = p PROVE q \in ToSet(longer)
    <3>1. 1 \in 1..Len(longer)
      BY <1>1
    <3>. QED BY <1>1, <2>2, <3>1, ListMembers
  <2>3. ASSUME q \in ToSet(list) PROVE q \in ToSet(longer)
    <3>1. PICK i \in 1..Len(list) : list[i] = q
      BY <2>3, ListMembers
    <3>2. i + 1 \in 1..Len(longer)
      BY <1>1
    <3>. QED BY <1>1, <3>1, <3>2, ListMembers
  <2>. QED BY <2>1, <2>2, <2>3
<1>. QED BY <1>1, <1>3, <1>4 DEF longer


\* What comes after a position of a list, and what comes first.
LEMMA NextOnList ==
    ASSUME NEW S, NEW list \in Seq(S), IsInjective(list), NEW k \in 1..Len(list)
    PROVE  Succ(list, list[k]) = IF k < Len(list) THEN list[k + 1] ELSE NULL
<1> DEFINE later == {i \in 2..Len(list) : list[i - 1] = list[k]}
<1>1. \A i \in 2..Len(list) : list[i - 1] = list[k] => i - 1 = k
  <2>1. \A i \in 2..Len(list) : i - 1 \in 1..Len(list)
    OBVIOUS
  <2>. QED BY <2>1, InjectiveList
<1>2. CASE k < Len(list)
  <2>1. later = {k + 1}
    BY <1>1, <1>2
  <2>2. (CHOOSE i \in later : TRUE) = k + 1
    BY <2>1
  <2>. QED BY <1>2, <2>1, <2>2 DEF Succ
<1>3. CASE ~(k < Len(list))
  <2>1. later = {}
    BY <1>1, <1>3
  <2>. QED BY <1>3, <2>1 DEF Succ
<1>. QED BY <1>2, <1>3

LEMMA FirstOnList ==
    ASSUME NEW S, NEW list \in Seq(S)
    PROVE  First(list) = IF Len(list) = 0 THEN NULL ELSE list[1]
BY DEF First


\* The slow timer takes the block at position k out of the list, and with it
\* what lies between the block it noted as the one before, at j, and k.
Cut(list, rest, j, k) ==
    /\ rest \in Seq(Pcb) /\ Len(rest) = Len(list) - (k - j)
    /\ \A i \in 1..Len(rest) : rest[i] = IF i <= j THEN list[i] ELSE list[i + (k - j)]

LEMMA UnlinkFromList ==
    ASSUME NEW list \in Seq(Pcb), IsInjective(list), NEW k \in 1..Len(list),
           NEW j \in 0..(k - 1), NEW prev, prev = IF j = 0 THEN NULL ELSE list[j]
    PROVE  Cut(list, Unlink(list, prev, list[k]), j, k)
<1> USE TcpAssumption
<1>1. ASSUME NEW i \in 1..Len(list)
      PROVE  (CHOOSE h \in 1..Len(list) : list[h] = list[i]) = i
  BY InjectiveList
<1>2. CASE j = 0
  <2>1. Unlink(list, prev, list[k]) = SubSeq(list, k + 1, Len(list))
    BY <1>1, <1>2 DEF Unlink
  <2> DEFINE b == SubSeq(list, k + 1, Len(list))
  <2>2. /\ b \in Seq(Pcb) /\ Len(b) = Len(list) - k
        /\ \A h \in 1..(Len(list) - k) : b[h] = list[h + k]
    OBVIOUS
  <2> HIDE DEF b
  <2>3. k - j = k /\ \A i \in 1..Len(b) : ~(i <= j)
    BY <1>2
  <2>4. Unlink(list, prev, list[k]) = b
    BY <2>1 DEF b
  <2>5. Len(b) = Len(list) - (k - j)
    BY <2>2, <2>3
  <2>6. \A i \in 1..Len(b) : b[i] = IF i <= j THEN list[i] ELSE list[i + (k - j)]
    BY <2>2, <2>3
  <2>. QED BY <2>2, <2>4, <2>5, <2>6 DEF Cut
<1>3. CASE j # 0
  <2>1. prev # NULL
    BY <1>3
  <2>2. (CHOOSE h \in 1..Len(list) : list[h] = prev) = j
    BY <1>1, <1>3
  <2>3. Unlink(list, prev, list[k]) = SubSeq(list, 1, j) \o SubSeq(list, k + 1, Len(list))
    BY <1>1, <2>1, <2>2 DEF Unlink
  <2>4. j \in 0..Len(list) /\ k \in j..Len(list)
    OBVIOUS
  <2> DEFINE rest == SubSeq(list, 1, j) \o SubSeq(list, k + 1, Len(list))
  <2>5. /\ rest \in Seq(Pcb) /\ Len(rest) = Len(list) - (k - j)
        /\ \A i \in 1..Len(rest) : rest[i] = IF i <= j THEN list[i] ELSE list[i + (k - j)]
    BY ONLY <2>4, CutOut, list \in Seq(Pcb)
  <2>6. Unlink(list, prev, list[k]) = rest
    BY <2>3
  <2> HIDE DEF rest
  <2>. QED BY <2>5, <2>6 DEF Cut
<1>. QED BY <1>2, <1>3

\* What is left has no block twice, has none that was not on the list, and has
\* all of the others when nothing lay between.
LEMMA CutList ==
    ASSUME NEW S, NEW list \in Seq(S), IsInjective(list), NEW k \in 1..Len(list),
           NEW j \in 0..(k - 1), NEW rest \in Seq(S), Len(rest) = Len(list) - (k - j),
           \A i \in 1..Len(rest) : rest[i] = IF i <= j THEN list[i] ELSE list[i + (k - j)]
    PROVE  /\ IsInjective(rest)
           /\ \A q : q \in ToSet(rest) => q \in ToSet(list) /\ q # list[k]
           /\ j = k - 1 => \A q \in ToSet(list) : q # list[k] => q \in ToSet(rest)
<1> DEFINE from(i) == IF i <= j THEN i ELSE i + (k - j)
<1>1. \A i \in 1..Len(rest) : /\ from(i) \in 1..Len(list) /\ from(i) # k
                              /\ rest[i] = list[from(i)]
  OBVIOUS
<1>2. \A h, i \in 1..Len(rest) : from(h) = from(i) => h = i
  OBVIOUS
<1>3. j = k - 1 => \A h \in 1..Len(list) : h # k => \E i \in 1..Len(rest) : from(i) = h
  <2>1. ASSUME j = k - 1, NEW h \in 1..Len(list), h # k
        PROVE  \E i \in 1..Len(rest) : from(i) = h
    <3>1. CASE h < k
      <4>1. h \in 1..Len(rest) /\ from(h) = h
        BY <2>1, <3>1
      <4>. QED BY <4>1
    <3>2. CASE h > k
      <4>1. h - 1 \in 1..Len(rest) /\ from(h - 1) = h
        BY <2>1, <3>2
      <4>. QED BY <4>1
    <3>. QED BY <2>1, <3>1, <3>2
  <2>. QED BY <2>1
<1> HIDE DEF from
<1>4. IsInjective(rest)
  <2>1. ASSUME NEW h \in 1..Len(rest), NEW i \in 1..Len(rest), rest[h] = rest[i]
        PROVE  h = i
    <3>1. list[from(h)] = list[from(i)]
      BY <1>1, <2>1
    <3>2. from(h) = from(i)
      BY <1>1, <3>1, InjectiveList
    <3>. QED BY <3>2, <1>2
  <2>. QED BY <2>1, InjectiveList
<1>5. ASSUME NEW q, q \in ToSet(rest)
      PROVE  q \in ToSet(list) /\ q # list[k]
  <2>1. PICK i \in 1..Len(rest) : rest[i] = q
    BY <1>5, ListMembers
  <2>2. from(i) \in 1..Len(list) /\ from(i) # k /\ list[from(i)] = q
    BY <1>1, <2>1
  <2>. QED BY <2>2, ListMembers, InjectiveList
<1>6. ASSUME j = k - 1, NEW q \in ToSet(list), q # list[k]
      PROVE  q \in ToSet(rest)
  <2>1. PICK h \in 1..Len(list) : list[h] = q
    BY <1>6, ListMembers
  <2>2. PICK i \in 1..Len(rest) : from(i) = h
    BY <1>3, <1>6, <2>1
  <2>. QED BY <1>1, <2>1, <2>2, ListMembers
<1>. QED BY <1>4, <1>5, <1>6


-----------------------------------------------------------------------------
(* The pass over a list in search of a victim                               *)

Beats(best, p, beats) == IF <<best, p>> \in beats THEN p ELSE best

\* The fold of LastBest, as a function of the positions folded: it takes the
\* greatest position last.
Fold(list, beats, n, g) ==
    g = [s \in SUBSET (1..n) |->
           IF s = {} THEN NULL
           ELSE Beats(g[s \ {Max(s)}], list[Max(s)], beats)]

LEMMA Greatest ==
    ASSUME NEW s \in SUBSET Int, NEW m \in s, \A i \in s : i <= m
    PROVE  Max(s) = m
<1>1. /\ \A i \in s : i \in Int
      /\ m \in s /\ \A i \in s : m >= i
  OBVIOUS
<1>2. \A x \in s : (\A i \in s : x >= i) => x = m
  BY <1>1
<1>. QED BY <1>1, <1>2 DEF Max

\* Such a function exists, by induction on the number of positions.
LEMMA FoldExists ==
    ASSUME NEW list, NEW beats
    PROVE  \A n \in Nat : \E g : Fold(list, beats, n, g)
<1> DEFINE P(n) == \E g : Fold(list, beats, n, g)
<1>1. P(0)
  <2> DEFINE g == [s \in SUBSET (1..0) |-> NULL]
  <2>1. \A s \in SUBSET (1..0) : s = {}
    OBVIOUS
  <2>2. g = [s \in SUBSET (1..0) |->
               IF s = {} THEN NULL ELSE Beats(g[s \ {Max(s)}], list[Max(s)], beats)]
    BY <2>1
  <2>. QED BY <2>2 DEF Fold
<1>2. ASSUME NEW n \in Nat, P(n)
      PROVE  P(n + 1)
  <2>1. PICK g : Fold(list, beats, n, g)
    BY <1>2
  <2> DEFINE step(s) == Beats(g[s \ {n + 1}], list[n + 1], beats)
             h == [s \in SUBSET (1..(n + 1)) |-> IF n + 1 \in s THEN step(s) ELSE g[s]]
             rec(s) == IF s = {} THEN NULL ELSE Beats(h[s \ {Max(s)}], list[Max(s)], beats)
  <2>2. ASSUME NEW s \in SUBSET (1..(n + 1)), n + 1 \in s
        PROVE  h[s] = rec(s)
    <3>1. Max(s) = n + 1
      BY <2>2, Greatest
    <3>2. s \ {n + 1} \in SUBSET (1..(n + 1)) /\ n + 1 \notin s \ {n + 1}
      OBVIOUS
    <3>3. h[s \ {n + 1}] = g[s \ {n + 1}]
      BY <3>2
    <3>. QED BY <2>2, <3>1, <3>3
  <2>3. ASSUME NEW s \in SUBSET (1..(n + 1)), n + 1 \notin s
        PROVE  h[s] = rec(s)
    <3>1. s \in SUBSET (1..n)
      BY <2>3
    <3>2. g[s] = IF s = {} THEN NULL ELSE Beats(g[s \ {Max(s)}], list[Max(s)], beats)
      BY <2>1, <3>1 DEF Fold
    <3>3. s \ {Max(s)} \in SUBSET (1..(n + 1)) /\ n + 1 \notin s \ {Max(s)}
      BY <2>3
    <3>4. h[s \ {Max(s)}] = g[s \ {Max(s)}]
      BY <3>3
    <3>. QED BY <2>3, <3>2, <3>4
  <2>4. h = [s \in SUBSET (1..(n + 1)) |-> h[s]]
    OBVIOUS
  <2>5. \A s \in SUBSET (1..(n + 1)) : h[s] = rec(s)
    BY <2>2, <2>3
  <2> HIDE DEF h
  <2>6. h = [s \in SUBSET (1..(n + 1)) |-> rec(s)]
    BY <2>4, <2>5
  <2>. QED BY <2>6 DEF Fold
<1> HIDE DEF P
<1>3. \A n \in Nat : P(n)
  <2>1. SUFFICES ASSUME {n \in Nat : ~P(n)} # {} PROVE FALSE
    OBVIOUS
  <2>2. PICK n \in {m \in Nat : ~P(m)} : \A m \in {i \in Nat : ~P(i)} : n <= m
    BY <2>1, LeastNumber
  <2>3. n # 0
    BY <1>1, <2>2
  <2>4. n - 1 \in Nat /\ (n - 1) + 1 = n /\ ~(n <= n - 1)
    BY <2>2, <2>3
  <2>5. P(n - 1)
    BY <2>2, <2>4
  <2>. QED BY <1>2, <2>2, <2>4, <2>5
<1>. QED BY <1>3 DEF P

\* LastBest walks along the list, one block after the other.
LEMMA LastBestWalks ==
    ASSUME NEW list \in Seq(Pcb), NEW beats
    PROVE  \E best :
              /\ best[0] = NULL
              /\ \A i \in 1..Len(list) : best[i] = Beats(best[i - 1], list[i], beats)
              /\ LastBest(list, beats) = best[Len(list)]
<1> DEFINE n == Len(list)
           iter == CHOOSE g : Fold(list, beats, n, g)
           best == [i \in 0..n |-> iter[1..i]]
<1>1. LastBest(list, beats) = iter[1..n]
  <2>1. DOMAIN list = 1..n
    OBVIOUS
  <2>. QED BY <2>1 DEF LastBest, FoldLeft, MapThenFoldSet, Beats, Fold
<1>2. Fold(list, beats, n, iter)
  <2>1. n \in Nat
    OBVIOUS
  <2>2. \E g : Fold(list, beats, n, g)
    BY <2>1, FoldExists
  <2>. QED BY <2>2
<1> HIDE DEF iter
<1>3. best[0] = NULL
  <2>1. 1..0 = {} /\ {} \in SUBSET (1..n)
    OBVIOUS
  <2>2. iter[{}] = NULL
    BY <1>2, <2>1 DEF Fold
  <2>. QED BY <2>1, <2>2
<1>4. ASSUME NEW i \in 1..n
      PROVE  best[i] = Beats(best[i - 1], list[i], beats)
  <2>1. 1..i \in SUBSET (1..n) /\ i \in 1..i
    OBVIOUS
  <2>2. Max(1..i) = i
    <3> DEFINE s == 1..i
    <3>1. s \in SUBSET Int /\ i \in s /\ \A h \in s : h <= i
      OBVIOUS
    <3> HIDE DEF s
    <3>2. Max(s) = i
      BY <3>1, Greatest
    <3>. QED BY <3>2 DEF s
  <2>3. (1..i) \ {i} = 1..(i - 1)
    OBVIOUS
  <2>4. iter[1..i] = Beats(iter[1..(i - 1)], list[i], beats)
    BY <1>2, <2>1, <2>2, <2>3 DEF Fold
  <2>. QED BY <2>4
<1>. QED BY <1>1, <1>3, <1>4


\* The pass answers a block of the list, or nothing.
LEMMA LastBestIsMember ==
    ASSUME NEW list \in Seq(Pcb), NEW beats
    PROVE  LastBest(list, beats) \in ToSet(list) \cup {NULL}
<1>1. PICK best :
         /\ best[0] = NULL
         /\ \A i \in 1..Len(list) : best[i] = Beats(best[i - 1], list[i], beats)
         /\ LastBest(list, beats) = best[Len(list)]
  BY LastBestWalks
<1> DEFINE bad == {i \in 0..Len(list) : best[i] \notin ToSet(list) \cup {NULL}}
<1>2. bad = {}
  <2>1. SUFFICES ASSUME bad # {} PROVE FALSE
    OBVIOUS
  <2>2. PICK i \in bad : \A h \in bad : i <= h
    <3>1. bad \subseteq Nat
      OBVIOUS
    <3> HIDE DEF bad
    <3>. QED BY <2>1, <3>1, LeastNumber
  <2>3. i \in 1..Len(list)
    BY <1>1, <2>2
  <2>4. i - 1 \in 0..Len(list) /\ i - 1 \notin bad
    BY <2>2, <2>3
  <2>5. best[i] \in {best[i - 1], list[i]}
    BY <1>1, <2>3 DEF Beats
  <2>6. list[i] \in ToSet(list)
    BY <2>3, ListMembers
  <2>. QED BY <2>2, <2>4, <2>5, <2>6
<1>3. Len(list) \in 0..Len(list)
  OBVIOUS
<1>. QED BY <1>1, <1>2, <1>3

LEMMA StackFields ==
    ASSUME NEW t \in Stack
    PROVE  /\ t.pcb \in [Pcb -> Block]
           /\ t.lpcb \in [ListenPcb -> Listener]
           /\ t.listen \in SUBSET ListenPcb /\ t.bound \in SUBSET Pcb
           /\ t.active \in Seq(Pcb) /\ t.tw \in Seq(Pcb)
           /\ t.changed \in BOOLEAN /\ t.held \in SUBSET Pcb /\ t.lost \in SUBSET Pcb
BY DEF Stack

LEMMA ConstantTypes ==
    /\ MAX_AGE \in Nat /\ TCP_MAXRTX \in Nat /\ TCP_SYNMAXRTX \in Nat
    /\ TIMER_CTR \in Nat /\ TIMER_CTR >= 2
    /\ \A prio \in Prios : prio \in Nat
<1>1. MAX_AGE \in Nat /\ TCP_MAXRTX \in Nat
  BY TcpAssumption
<1>2. TCP_SYNMAXRTX \in Nat
  BY <1>1, TcpAssumption
<1>3. TIMER_CTR \in Nat /\ TIMER_CTR >= 2
  BY TcpAssumption
<1>4. \A prio \in Prios : prio \in Nat
  BY TcpAssumption
<1>. QED BY <1>1, <1>2, <1>3, <1>4

LEMMA BlockFields ==
    ASSUME NEW b \in Block
    PROVE  /\ b.state \in TcpStates \cup {"FREE"} /\ b.port \in Ports
           /\ b.prio \in Prios /\ b.prio \in Nat
           /\ b.age \in 0..MAX_AGE /\ b.age \in Nat
           /\ b.lag \in 0..(TIMER_CTR - 1) /\ b.nrtx \in 0..TCP_MAXRTX
           /\ b.output \in {"idle", "unacked", "persist"}
           /\ b.refused \in {"none", "data", "fin"}
           /\ b.unread \in BOOLEAN /\ b.rxclosed \in BOOLEAN
<1>1. /\ b.state \in TcpStates \cup {"FREE"} /\ b.port \in Ports
      /\ b.prio \in Prios /\ b.age \in 0..MAX_AGE
      /\ b.lag \in 0..(TIMER_CTR - 1) /\ b.nrtx \in 0..TCP_MAXRTX
      /\ b.output \in {"idle", "unacked", "persist"}
      /\ b.refused \in {"none", "data", "fin"}
      /\ b.unread \in BOOLEAN /\ b.rxclosed \in BOOLEAN
  BY DEF Block, Ports
<1>2. b.prio \in Nat /\ b.age \in Nat
  BY <1>1, ConstantTypes
<1>. QED BY <1>1, <1>2

\* The pass of tcp_kill_prio.  Until the end of the list it holds that the best
\* so far is a candidate, if there has been any, and that no candidate so far
\* is both less important and older.
LEMMA KillPrioPass ==
    ASSUME NEW t \in Stack, NEW prio \in Prios
    PROVE  LET v == tcp_kill_prio_victim(t, prio)
               candidates == {p \in ToSet(t.active) : t.pcb[p].prio <= prio}
           IN  /\ v = NULL <=> candidates = {}
               /\ v # NULL =>
                    /\ v \in candidates
                    /\ ~\E p \in candidates : /\ t.pcb[p].prio < t.pcb[v].prio
                                              /\ t.pcb[p].age > t.pcb[v].age
<1> USE TcpAssumption
<1> DEFINE list == t.active
           pr(p) == t.pcb[p].prio
           age(p) == t.pcb[p].age
           beats == {c \in Contests :
                       /\ t.pcb[c[2]].prio <= prio
                       /\ c[1] # NULL => /\ t.pcb[c[2]].prio <= t.pcb[c[1]].prio
                                         /\ t.pcb[c[2]].age >= t.pcb[c[1]].age}
<1>1. list \in Seq(Pcb) /\ \A p \in Pcb : pr(p) \in Nat /\ age(p) \in Nat
  BY StackFields, BlockFields
<1>2. prio \in Nat
  OBVIOUS
<1>3. ASSUME NEW p \in Pcb, NEW b \in Pcb \cup {NULL}
      PROVE  Beats(b, p, beats) =
               IF pr(p) <= prio /\ (b # NULL => pr(p) <= pr(b) /\ age(p) >= age(b))
               THEN p ELSE b
  BY DEF Beats, Contests
<1>4. PICK best :
         /\ best[0] = NULL
         /\ \A i \in 1..Len(list) : best[i] = Beats(best[i - 1], list[i], beats)
         /\ LastBest(list, beats) = best[Len(list)]
  BY <1>1, LastBestWalks
<1>5. tcp_kill_prio_victim(t, prio) = best[Len(list)]
  BY <1>4 DEF tcp_kill_prio_victim
<1>6. \A i \in 1..Len(list) : list[i] \in Pcb
  BY <1>1
<1> HIDE DEF list, beats, pr, age
<1> DEFINE Good(i) ==
      /\ best[i] = NULL => \A h \in 1..i : ~(pr(list[h]) <= prio)
      /\ best[i] # NULL =>
           /\ \E h \in 1..i : best[i] = list[h]
           /\ best[i] \in Pcb /\ pr(best[i]) <= prio
           /\ \A h \in 1..i : pr(list[h]) <= prio =>
                ~(pr(list[h]) < pr(best[i]) /\ age(list[h]) > age(best[i]))
<1>7. Good(0)
  BY <1>4
<1>8. ASSUME NEW i \in 1..Len(list), Good(i - 1)
      PROVE  Good(i)
  <2>1. best[i - 1] \in Pcb \cup {NULL} /\ list[i] \in Pcb
    BY <1>6, <1>8
  <2> DEFINE wins == /\ pr(list[i]) <= prio
                     /\ best[i - 1] # NULL => /\ pr(list[i]) <= pr(best[i - 1])
                                              /\ age(list[i]) >= age(best[i - 1])
  <2>2. best[i] = IF wins THEN list[i] ELSE best[i - 1]
    BY <1>3, <1>4, <2>1
  <2>3. \A h \in 1..i : h = i \/ h \in 1..(i - 1)
    BY <1>1 DEF list
  <2>4. i \in 1..i /\ 1..(i - 1) \subseteq 1..i
    BY <1>1 DEF list
  <2>5. /\ pr(list[i]) \in Nat /\ age(list[i]) \in Nat
        /\ best[i - 1] # NULL => pr(best[i - 1]) \in Nat /\ age(best[i - 1]) \in Nat
        /\ \A h \in 1..(i - 1) : pr(list[h]) \in Nat /\ age(list[h]) \in Nat
    <3>1. \A h \in 1..(i - 1) : h \in 1..Len(list)
      BY <1>1 DEF list
    <3>. QED BY <1>1, <1>6, <2>1, <3>1
  <2>6. CASE wins
    <3>1. best[i] = list[i] /\ list[i] # NULL
      BY <2>1, <2>2, <2>6
    <3>2. ASSUME NEW h \in 1..(i - 1), pr(list[h]) <= prio
          PROVE  ~(pr(list[h]) < pr(list[i]) /\ age(list[h]) > age(list[i]))
      <4>1. best[i - 1] # NULL
        BY <1>8, <3>2
      <4>2. ~(pr(list[h]) < pr(best[i - 1]) /\ age(list[h]) > age(best[i - 1]))
        BY <1>8, <3>2, <4>1
      <4>3. pr(list[i]) <= pr(best[i - 1]) /\ age(list[i]) >= age(best[i - 1])
        BY <2>6, <4>1
      <4>4. \A a, b, c, x, y, z \in Nat :
              ~(a < b /\ x > y) /\ c <= b /\ z >= y => ~(a < c /\ x > z)
        OBVIOUS
      <4>. QED BY <2>5, <4>1, <4>2, <4>3, <4>4
    <3>3. ~(pr(list[i]) < pr(list[i]))
      BY <2>5
    <3>. QED BY <2>1, <2>3, <2>4, <2>6, <3>1, <3>2, <3>3
  <2>7. CASE ~wins
    <3>1. best[i] = best[i - 1]
      BY <2>2, <2>7
    <3>2. CASE best[i - 1] = NULL
      <4>1. ~(pr(list[i]) <= prio)
        BY <2>7, <3>2
      <4>. QED BY <1>8, <2>3, <3>1, <3>2, <4>1
    <3>3. CASE best[i - 1] # NULL
      <4>1. pr(list[i]) <= prio =>
              ~(pr(list[i]) < pr(best[i - 1]) /\ age(list[i]) > age(best[i - 1]))
        BY <2>5, <2>7, <3>3
      <4>. QED BY <1>8, <2>3, <2>4, <3>1, <3>3, <4>1
    <3>. QED BY <3>2, <3>3
  <2>. QED BY <2>6, <2>7
<1> HIDE DEF Good
<1>9. Good(Len(list))
  <2> DEFINE bad == {i \in 0..Len(list) : ~Good(i)}
  <2>0. Len(list) \in Nat
    BY <1>1 DEF list
  <2>1. SUFFICES bad = {}
    BY <2>0
  <2>2. SUFFICES ASSUME bad # {} PROVE FALSE
    OBVIOUS
  <2>3. PICK i \in bad : \A h \in bad : i <= h
    <3>1. bad \subseteq Nat
      BY <2>0
    <3> HIDE DEF bad
    <3>. QED BY <2>2, <3>1, LeastNumber
  <2>4. i \in 1..Len(list)
    BY <1>7, <2>0, <2>3
  <2>5. i - 1 \in 0..Len(list) /\ i - 1 \notin bad
    BY <2>0, <2>3, <2>4
  <2>. QED BY <1>8, <2>3, <2>4, <2>5
<1>10. \A p : p \in ToSet(list) <=> \E h \in 1..Len(list) : list[h] = p
  BY <1>1, ListMembers DEF list
<1> DEFINE v == best[Len(list)]
           candidates == {p \in ToSet(list) : pr(p) <= prio}
<1>11. v = NULL <=> candidates = {}
  BY <1>9, <1>10 DEF Good
<1>12. v # NULL => /\ v \in candidates
                   /\ ~\E p \in candidates : pr(p) < pr(v) /\ age(p) > age(v)
  BY <1>9, <1>10 DEF Good
<1>. QED BY <1>5, <1>11, <1>12 DEF list, pr, age


-----------------------------------------------------------------------------
(* What the functions of tcp.c do to the stack                              *)

\* u is t with another block at p.
Touches(t, u, p) ==
    /\ u \in Stack /\ u.listen = t.listen /\ u.lpcb = t.lpcb /\ u.lost = t.lost
    /\ \A q \in Pcb \ {p} : u.pcb[q] = t.pcb[q]
SameLists(t, u) ==
    u.active = t.active /\ u.tw = t.tw /\ u.changed = t.changed /\ u.bound = t.bound
SameBlock(b, c) ==
    c.state = b.state /\ c.port = b.port /\ c.rxclosed = b.rxclosed /\ c.lag = b.lag

\* A new value for one block gives a stack.
WithBlock(t, p, b) == [t EXCEPT !.pcb = [t.pcb EXCEPT ![p] = b]]
LEMMA SetBlock ==
    ASSUME NEW t \in Stack, NEW p \in Pcb, NEW b \in Block
    PROVE  LET u == WithBlock(t, p, b)
           IN  /\ Touches(t, u, p) /\ SameLists(t, u) /\ u.held = t.held
               /\ u.pcb[p] = b
BY DEF WithBlock, Stack, Touches, SameLists

LEMMA FreeBlocks ==
    /\ \A prio \in Prios : NewBlock(prio) \in Block
    /\ FreeBlock \in Block /\ FreeBlock.state = "FREE" /\ FreeBlock.port = 0
<1> USE TcpAssumption, ConstantTypes
<1>1. ASSUME NEW prio \in Prios PROVE NewBlock(prio) \in Block
  BY DEF NewBlock, Block, TcpStates, Active
<1>2. FreeBlock \in Block
  BY <1>1 DEF FreeBlock, NewBlock, Block, TcpStates
<1>. QED BY <1>1, <1>2 DEF FreeBlock, NewBlock

LEMMA MempFree ==
    ASSUME NEW t \in Stack, NEW p \in Pcb
    PROVE  LET u == memp_free(t, p)
           IN  /\ Touches(t, u, p) /\ SameLists(t, u) /\ u.held = t.held
               /\ u.pcb[p] = FreeBlock
<1>1. memp_free(t, p) = WithBlock(t, p, FreeBlock)
  BY DEF memp_free, WithBlock
<1>. QED BY <1>1, FreeBlocks, SetBlock

LEMMA Purge ==
    ASSUME NEW t \in Stack, NEW p \in Pcb
    PROVE  LET u == tcp_pcb_purge(t, p)
           IN  /\ Touches(t, u, p) /\ SameLists(t, u) /\ u.held = t.held
               /\ SameBlock(t.pcb[p], u.pcb[p])
<1> DEFINE b == [t.pcb[p] EXCEPT !.refused = "none", !.output = "idle"]
<1>1. t.pcb[p] \in Block /\ t.pcb \in [Pcb -> Block]
  BY StackFields
<1>2. b \in Block /\ SameBlock(t.pcb[p], b)
  BY <1>1 DEF Block, SameBlock
<1>3. CASE t.pcb[p].state \in Active
  <2>1. tcp_pcb_purge(t, p) = WithBlock(t, p, b)
    BY <1>1, <1>3 DEF tcp_pcb_purge, WithBlock, Stack, Block
  <2> HIDE DEF b
  <2>. QED BY <1>2, <2>1, SetBlock
<1>4. CASE t.pcb[p].state \notin Active
  BY <1>4 DEF tcp_pcb_purge, Touches, SameLists, SameBlock
<1>. QED BY <1>3, <1>4

LEMMA RemoveActive ==
    ASSUME NEW t \in Stack, IsInjective(t.active), NEW p \in Pcb
    PROVE  LET u == TCP_RMV_ACTIVE(t, p)
           IN  /\ Touches(t, u, p) /\ u.pcb = t.pcb /\ u.held = t.held
               /\ u.active = RemoveFirst(t.active, p) /\ u.tw = t.tw
               /\ u.bound = t.bound /\ u.changed = TRUE
<1>1. t.active \in Seq(Pcb)
  BY StackFields
<1>2. RemoveFirst(t.active, p) \in Seq(Pcb)
  BY <1>1, RemoveFromList
<1>. QED BY <1>2 DEF TCP_RMV_ACTIVE, Stack, Touches

LEMMA RegisterActive ==
    ASSUME NEW t \in Stack, NEW p \in Pcb
    PROVE  LET u == TCP_REG_ACTIVE(t, p)
           IN  /\ Touches(t, u, p) /\ u.pcb = t.pcb /\ u.held = t.held
               /\ u.active = <<p>> \o t.active /\ u.tw = t.tw
               /\ u.bound = t.bound /\ u.changed = TRUE
<1>1. t.active \in Seq(Pcb)
  BY StackFields
<1>2. <<p>> \o t.active \in Seq(Pcb)
  BY <1>1
<1>. QED BY <1>2 DEF TCP_REG_ACTIVE, Stack, Touches


LEMMA TouchesTwice ==
    ASSUME NEW t, NEW u, NEW v, NEW p, Touches(t, u, p), Touches(u, v, p)
    PROVE  Touches(t, v, p)
BY DEF Touches

WithState(t, p, s) == [t EXCEPT !.pcb[p].state = s]
LEMMA SetState ==
    ASSUME NEW t \in Stack, NEW p \in Pcb, NEW s \in TcpStates
    PROVE  LET u == WithState(t, p, s)
           IN  /\ Touches(t, u, p) /\ SameLists(t, u) /\ u.held = t.held
               /\ u.pcb[p].state = s /\ u.pcb[p].port = t.pcb[p].port
               /\ u.pcb[p].rxclosed = t.pcb[p].rxclosed /\ u.pcb[p].lag = t.pcb[p].lag
<1> DEFINE b == [t.pcb[p] EXCEPT !.state = s]
<1>1. t.pcb[p] \in Block
  BY StackFields
<1>2. /\ b \in Block /\ b.state = s /\ b.port = t.pcb[p].port
      /\ b.rxclosed = t.pcb[p].rxclosed /\ b.lag = t.pcb[p].lag
  BY <1>1 DEF Block
<1>3. WithState(t, p, s) = WithBlock(t, p, b)
  BY DEF WithBlock, WithState
<1> HIDE DEF b
<1>4. LET u == WithBlock(t, p, b)
      IN  /\ Touches(t, u, p) /\ SameLists(t, u) /\ u.held = t.held
          /\ u.pcb[p] = b
  BY <1>2, SetBlock
<1>. QED BY <1>2, <1>3, <1>4

\* TCP_PCB_REMOVE_ACTIVE
LEMMA PcbRemove ==
    ASSUME NEW t \in Stack, IsInjective(t.active), NEW p \in Pcb
    PROVE  LET u == tcp_pcb_remove(t, p)
           IN  /\ Touches(t, u, p) /\ u.held = t.held /\ u.bound = t.bound
               /\ u.active = RemoveFirst(t.active, p) /\ u.tw = t.tw /\ u.changed = TRUE
<1> DEFINE u1 == TCP_RMV_ACTIVE(t, p)
           u2 == tcp_pcb_purge(u1, p)
           u3 == [u2 EXCEPT !.pcb[p].state = "CLOSED"]
<1>1. /\ Touches(t, u1, p) /\ u1.held = t.held /\ u1.active = RemoveFirst(t.active, p)
      /\ u1.tw = t.tw /\ u1.bound = t.bound /\ u1.changed = TRUE
  BY RemoveActive
<1> HIDE DEF u1
<1>2. Touches(u1, u2, p) /\ SameLists(u1, u2) /\ u2.held = u1.held
  BY <1>1, Purge DEF Touches
<1> HIDE DEF u2
<1>3. Touches(u2, u3, p) /\ SameLists(u2, u3) /\ u3.held = u2.held
  <2>1. u2 \in Stack /\ "CLOSED" \in TcpStates
    BY <1>2 DEF Touches, TcpStates
  <2>2. u3 = WithState(u2, p, "CLOSED")
    BY DEF WithState
  <2> HIDE DEF u3
  <2>3. LET u == WithState(u2, p, "CLOSED")
        IN  Touches(u2, u, p) /\ SameLists(u2, u) /\ u.held = u2.held
    BY <2>1, SetState
  <2>. QED BY <2>2, <2>3
<1>4. tcp_pcb_remove(t, p) = u3
  BY DEF tcp_pcb_remove, u3, u2, u1
<1> HIDE DEF u3
<1>5. Touches(t, u3, p)
  BY <1>1, <1>2, <1>3, TouchesTwice
<1>. QED BY <1>1, <1>2, <1>3, <1>4, <1>5 DEF SameLists

LEMMA EventErr ==
    ASSUME NEW t \in Stack, NEW p \in Pcb
    PROVE  LET u == TCP_EVENT_ERR(t, p)
           IN  /\ Touches(t, u, p) /\ SameLists(t, u) /\ u.pcb = t.pcb
               /\ u.held = t.held \ {p}
BY DEF TCP_EVENT_ERR, Stack, Touches, SameLists

\* A block of TIME_WAIT goes off that list, any other off the active list, and
\* the application forgets it.
LEMMA Abandon ==
    ASSUME NEW t \in Stack, IsInjective(t.active), IsInjective(t.tw), NEW p \in Pcb
    PROVE  LET u == tcp_abandon(t, p)
           IN  /\ Touches(t, u, p) /\ u.bound = t.bound /\ u.pcb[p] = FreeBlock
               /\ t.pcb[p].state = "TIME_WAIT" =>
                    /\ u.tw = RemoveFirst(t.tw, p) /\ u.active = t.active
                    /\ u.held = t.held /\ u.changed = t.changed
               /\ t.pcb[p].state # "TIME_WAIT" =>
                    /\ u.tw = t.tw /\ u.active = RemoveFirst(t.active, p)
                    /\ u.held = t.held \ {p} /\ u.changed = TRUE
<1>1. CASE t.pcb[p].state = "TIME_WAIT"
  <2> DEFINE u1 == [t EXCEPT !.tw = RemoveFirst(@, p)]
  <2>1. RemoveFirst(t.tw, p) \in Seq(Pcb)
    BY StackFields, RemoveFromList
  <2>2. /\ u1 \in Stack /\ Touches(t, u1, p) /\ u1.pcb = t.pcb /\ u1.held = t.held
        /\ u1.active = t.active /\ u1.tw = RemoveFirst(t.tw, p)
        /\ u1.bound = t.bound /\ u1.changed = t.changed
    BY <2>1 DEF Stack, Touches
  <2>3. tcp_abandon(t, p) = memp_free(u1, p)
    BY <1>1 DEF tcp_abandon
  <2> HIDE DEF u1
  <2>4. LET u == memp_free(u1, p)
        IN  /\ Touches(u1, u, p) /\ SameLists(u1, u) /\ u.held = u1.held
            /\ u.pcb[p] = FreeBlock
    BY <2>2, MempFree
  <2>. QED BY <1>1, <2>2, <2>3, <2>4, TouchesTwice DEF SameLists
<1>2. CASE t.pcb[p].state # "TIME_WAIT"
  <2> DEFINE u1 == tcp_pcb_remove(t, p)
             u2 == memp_free(u1, p)
             u3 == TCP_EVENT_ERR(u2, p)
  <2>1. /\ Touches(t, u1, p) /\ u1.held = t.held /\ u1.bound = t.bound
        /\ u1.active = RemoveFirst(t.active, p) /\ u1.tw = t.tw /\ u1.changed = TRUE
    BY PcbRemove
  <2>2. tcp_abandon(t, p) = u3
    BY <1>2 DEF tcp_abandon
  <2> HIDE DEF u1
  <2>3. /\ Touches(u1, u2, p) /\ SameLists(u1, u2) /\ u2.held = u1.held
        /\ u2.pcb[p] = FreeBlock
    BY <2>1, MempFree DEF Touches
  <2> HIDE DEF u2
  <2>4. /\ Touches(u2, u3, p) /\ SameLists(u2, u3) /\ u3.pcb = u2.pcb
        /\ u3.held = u2.held \ {p}
    BY <2>3, EventErr DEF Touches
  <2> HIDE DEF u3
  <2>5. Touches(t, u3, p)
    BY <2>1, <2>3, <2>4, TouchesTwice
  <2>. QED BY <1>2, <2>1, <2>2, <2>3, <2>4, <2>5 DEF SameLists
<1>. QED BY <1>1, <1>2


-----------------------------------------------------------------------------
(* Steps on one block                                                       *)

\* Only p goes on a list or off it, or in or out of the application's hands.
OneBlock(t, u, p) ==
    /\ Touches(t, u, p)
    /\ IsInjective(u.active) /\ IsInjective(u.tw)
    /\ \A q \in Pcb \ {p} :
         /\ q \in ToSet(u.active) => q \in ToSet(t.active)
         /\ q \in ToSet(u.tw) <=> q \in ToSet(t.tw)
         /\ q \in u.bound <=> q \in t.bound
         /\ q \in u.held <=> q \in t.held

\* A block that is bound had its port before, or has one that was not in use.
PortKept(t, u, p) ==
    p \in u.bound =>
      \/ p \in t.bound /\ u.pcb[p].port = t.pcb[p].port
      \/ u.pcb[p].port \notin PortsInUse(t)

\* The walks of the timers ask more of a block: it is on the active list when
\* its state is active, and a timer has dealt with it.
StrictAt(t, p) ==
    /\ t.pcb[p].state \in Active => p \in ToSet(t.active)
    /\ t.pcb[p].state \in Active \cup {"CLOSED"} => t.pcb[p].lag = 0

\* Where the flag is not raised, the active list is the same.
Noted(t, u) == u.changed = FALSE => t.changed = FALSE /\ u.active = t.active

Step(t, u, p) ==
    /\ OneBlock(t, u, p) /\ BlockOK(u, p) /\ PortKept(t, u, p) /\ Noted(t, u)
    /\ \A q \in Pcb \ {p} : q \in ToSet(t.active) => q \in ToSet(u.active)
    /\ StrictAt(t, p) => StrictAt(u, p)

Carries(t, u) ==
    /\ StackOK(u) /\ Noted(t, u)
    /\ Listed(t) /\ Rested(t) => Listed(u) /\ Rested(u)

LEMMA PortsOfLists ==
    ASSUME NEW t \in Stack
    PROVE  /\ \A q \in t.bound : t.pcb[q].port \in PortsInUse(t)
           /\ \A l \in t.listen : t.lpcb[l].port \in PortsInUse(t)
BY DEF PortsInUse

LEMMA OneBlockKeeps ==
    ASSUME NEW t, StackOK(t), NEW p \in Pcb, NEW u,
           OneBlock(t, u, p), BlockOK(u, p), PortKept(t, u, p)
    PROVE  StackOK(u)
<1>1. /\ t \in Stack /\ u \in Stack /\ u.listen = t.listen /\ u.lpcb = t.lpcb
      /\ u.lost = t.lost /\ \A q \in Pcb \ {p} : u.pcb[q] = t.pcb[q]
  BY DEF StackOK, OneBlock, Touches
<1>2. ASSUME NEW q \in Pcb PROVE BlockOK(u, q)
  <2>1. CASE q = p
    BY <2>1
  <2>2. CASE q # p
    <3>1. BlockOK(t, q)
      BY DEF StackOK
    <3>. QED BY <1>1, <2>2, <3>1 DEF BlockOK, OneBlock
  <2>. QED BY <2>1, <2>2
<1>3. Reserved(u)
  <2>1. u.bound \subseteq Pcb /\ t.bound \subseteq Pcb
    BY <1>1, StackFields
  <2>2. ASSUME NEW q \in u.bound, q # p
        PROVE  q \in t.bound /\ u.pcb[q].port = t.pcb[q].port
                 /\ u.pcb[q].port \in PortsInUse(t)
    BY <1>1, <2>1, <2>2, PortsOfLists DEF OneBlock
  <2>3. /\ Reserving(u) = Reserving(t)
        /\ \A l \in Reserving(u) : u.lpcb[l].port = t.lpcb[l].port
                                      /\ u.lpcb[l].port \in PortsInUse(t)
    BY <1>1, PortsOfLists DEF Reserving
  <2>4. Reserved(t)
    BY DEF StackOK
  <2>5. ASSUME NEW q \in u.bound, NEW r \in u.bound, u.pcb[q].port = u.pcb[r].port
        PROVE  q = r
    <3>1. CASE q = p \/ r = p
      BY <2>2, <2>4, <2>5, <3>1 DEF Reserved, PortKept
    <3>2. CASE q # p /\ r # p
      BY <2>2, <2>4, <2>5, <3>2 DEF Reserved
    <3>. QED BY <3>1, <3>2
  <2>6. ASSUME NEW q \in u.bound, NEW l \in Reserving(u)
        PROVE  u.pcb[q].port # u.lpcb[l].port
    BY <2>2, <2>3, <2>4, <2>6 DEF Reserved, PortKept
  <2>7. ASSUME NEW l \in Reserving(u), NEW m \in Reserving(u), u.lpcb[l].port = u.lpcb[m].port
        PROVE  l = m
    BY <2>3, <2>4, <2>7 DEF Reserved
  <2>. QED BY <2>5, <2>6, <2>7 DEF Reserved
<1>. QED BY <1>1, <1>2, <1>3 DEF StackOK, OneBlock

LEMMA StepCarries ==
    ASSUME NEW t, StackOK(t), NEW p \in Pcb, NEW u, Step(t, u, p)
    PROVE  Carries(t, u)
<1>1. StackOK(u)
  BY OneBlockKeeps DEF Step
<1>2. ASSUME Listed(t), Rested(t) PROVE Listed(u) /\ Rested(u)
  <2>1. StrictAt(u, p)
    BY <1>2 DEF Step, StrictAt, Listed, Rested
  <2>2. ASSUME NEW q \in Pcb \ {p}
        PROVE  /\ u.pcb[q] = t.pcb[q]
               /\ q \in ToSet(t.active) => q \in ToSet(u.active)
    BY DEF Step, OneBlock, Touches
  <2>. QED BY <1>2, <2>1, <2>2 DEF StrictAt, Listed, Rested
<1>. QED BY <1>1, <1>2 DEF Carries, Step

LEMMA CarriesTwice ==
    ASSUME NEW t, NEW u, NEW v, Carries(t, u), Carries(u, v)
    PROVE  Carries(t, v)
BY DEF Carries, Noted

LEMMA CarriesNothing ==
    ASSUME NEW t, StackOK(t)
    PROVE  Carries(t, t)
BY DEF Carries, Noted


LEMMA BlockFacts ==
    ASSUME NEW t, StackOK(t), NEW p \in Pcb
    PROVE  /\ t \in Stack /\ t.pcb[p] \in Block /\ IsInjective(t.active) /\ IsInjective(t.tw)
           /\ p \in ToSet(t.active) => t.pcb[p].state \in Active
           /\ p \in ToSet(t.tw) <=> t.pcb[p].state = "TIME_WAIT"
           /\ p \in t.bound => t.pcb[p].state = "CLOSED" /\ t.pcb[p].port # 0
           /\ t.pcb[p].state = "CLOSED" => p \in t.held \cup t.lost
           /\ p \in t.held => /\ t.pcb[p].state \notin {"FREE", "TIME_WAIT"}
                              /\ t.pcb[p].rxclosed => t.pcb[p].state \notin FinSent
<1>1. t \in Stack /\ BlockOK(t, p) /\ IsInjective(t.active) /\ IsInjective(t.tw)
  BY DEF StackOK
<1>2. t.pcb[p] \in Block
  BY <1>1, StackFields
<1>. QED BY <1>1, <1>2 DEF BlockOK

\* A change of the fields of a block that leaves it on the lists it is on.
LEMMA DataStep ==
    ASSUME NEW t, StackOK(t), NEW p \in Pcb, NEW u,
           Touches(t, u, p), SameLists(t, u),
           \A q \in Pcb \ {p} : q \in u.held <=> q \in t.held,
           \/ u.pcb[p].state = t.pcb[p].state
           \/ u.pcb[p].state \in Active /\ t.pcb[p].state \in Active,
           t.pcb[p].port # 0 => u.pcb[p].port = t.pcb[p].port,
           u.pcb[p].lag \in {0, t.pcb[p].lag},
           u.pcb[p].state = "CLOSED" => p \in u.held \cup u.lost,
           p \in u.held => /\ u.pcb[p].state \notin {"FREE", "TIME_WAIT"}
                           /\ u.pcb[p].rxclosed => u.pcb[p].state \notin FinSent
    PROVE  Step(t, u, p)
<1>1. OneBlock(t, u, p)
  BY BlockFacts DEF OneBlock, SameLists
<1>2. BlockOK(u, p)
  BY BlockFacts DEF BlockOK, SameLists, Active
<1>3. PortKept(t, u, p)
  BY BlockFacts DEF PortKept, SameLists
<1>4. Noted(t, u) /\ \A q \in Pcb \ {p} : q \in ToSet(t.active) => q \in ToSet(u.active)
  BY DEF Noted, SameLists
<1>5. StrictAt(t, p) => StrictAt(u, p)
  BY DEF StrictAt, SameLists
<1>. QED BY <1>1, <1>2, <1>3, <1>4, <1>5 DEF Step

\* A block is freed, off all lists, and the application refers to it no more.
LEMMA GoneStep ==
    ASSUME NEW t, StackOK(t), NEW p \in Pcb, NEW u,
           Touches(t, u, p), u.pcb[p] = FreeBlock,
           \/ u.active = RemoveFirst(t.active, p) /\ u.changed = TRUE
           \/ u.active = t.active /\ u.changed = t.changed /\ t.pcb[p].state \notin Active,
           \/ u.tw = RemoveFirst(t.tw, p)
           \/ u.tw = t.tw /\ t.pcb[p].state # "TIME_WAIT",
           \A q \in Pcb \ {p} : q \in u.bound <=> q \in t.bound,
           \A q \in Pcb \ {p} : q \in u.held <=> q \in t.held,
           p \notin u.bound, p \notin u.held
    PROVE  Step(t, u, p)
<1>1. /\ t.active \in Seq(Pcb) /\ t.tw \in Seq(Pcb)
      /\ IsInjective(t.active) /\ IsInjective(t.tw)
  BY StackFields DEF StackOK
<1>2. /\ IsInjective(u.active) /\ p \notin ToSet(u.active)
      /\ \A q \in Pcb \ {p} : q \in ToSet(u.active) <=> q \in ToSet(t.active)
  BY <1>1, RemoveFromList, BlockFacts
<1>3. /\ IsInjective(u.tw) /\ p \notin ToSet(u.tw)
      /\ \A q \in Pcb \ {p} : q \in ToSet(u.tw) <=> q \in ToSet(t.tw)
  BY <1>1, RemoveFromList, BlockFacts
<1>4. OneBlock(t, u, p)
  BY <1>2, <1>3 DEF OneBlock
<1>5. u.pcb[p].state = "FREE"
  BY FreeBlocks
<1>6. BlockOK(u, p)
  BY <1>2, <1>3, <1>5 DEF BlockOK
<1>7. PortKept(t, u, p)
  BY DEF PortKept
<1>8. Noted(t, u)
  BY DEF Noted
<1>9. StrictAt(u, p)
  BY <1>5 DEF StrictAt, Active
<1>. QED BY <1>2, <1>4, <1>6, <1>7, <1>8, <1>9 DEF Step

LEMMA AbandonStep ==
    ASSUME NEW t, StackOK(t), NEW p \in Pcb, p \notin t.bound
    PROVE  Step(t, tcp_abandon(t, p), p)
<1> DEFINE u == tcp_abandon(t, p)
<1>1. /\ t \in Stack /\ IsInjective(t.active) /\ IsInjective(t.tw)
      /\ p \in ToSet(t.tw) <=> t.pcb[p].state = "TIME_WAIT"
      /\ p \in t.held => t.pcb[p].state \notin {"FREE", "TIME_WAIT"}
  BY BlockFacts
<1>2. /\ Touches(t, u, p) /\ u.bound = t.bound /\ u.pcb[p] = FreeBlock
      /\ t.pcb[p].state = "TIME_WAIT" =>
           /\ u.tw = RemoveFirst(t.tw, p) /\ u.active = t.active
           /\ u.held = t.held /\ u.changed = t.changed
      /\ t.pcb[p].state # "TIME_WAIT" =>
           /\ u.tw = t.tw /\ u.active = RemoveFirst(t.active, p)
           /\ u.held = t.held \ {p} /\ u.changed = TRUE
  BY <1>1, Abandon
<1> SUFFICES Step(t, u, p)
  OBVIOUS
<1> HIDE DEF u
<1>3. CASE t.pcb[p].state = "TIME_WAIT"
  <2>1. p \notin u.held /\ t.pcb[p].state \notin Active
    BY <1>1, <1>2, <1>3 DEF Active
  <2>. QED BY <1>2, <1>3, <2>1, GoneStep
<1>4. CASE t.pcb[p].state # "TIME_WAIT"
  BY <1>2, <1>4, GoneStep
<1>. QED BY <1>3, <1>4

\* Making room kills blocks of the two lists only, and those are not bound.
LEMMA AllocRoomCarries ==
    ASSUME NEW t, StackOK(t), NEW prio
    PROVE  Carries(t, tcp_alloc_room(t, prio))
<1>1. ASSUME NEW s, StackOK(s) PROVE Carries(s, tcp_kill_timewait(s))
  <2> DEFINE beats == {c \in Contests : c[1] # NULL => s.pcb[c[2]].age >= s.pcb[c[1]].age}
             v == LastBest(s.tw, beats)
  <2>1. s.tw \in Seq(Pcb)
    BY <1>1, StackFields DEF StackOK
  <2> HIDE DEF beats
  <2>2. v \in ToSet(s.tw) \cup {NULL}
    BY <2>1, LastBestIsMember
  <2>3. tcp_kill_timewait(s) = IF v = NULL THEN s ELSE tcp_abandon(s, v)
    BY DEF tcp_kill_timewait, beats
  <2> HIDE DEF v
  <2>4. CASE v = NULL
    BY <1>1, <2>3, <2>4, CarriesNothing
  <2>5. CASE v # NULL
    <3>1. v \in Pcb
      BY <2>1, <2>2, <2>5, ListMembers
    <3>2. v \notin s.bound
      BY <1>1, <2>2, <2>5, <3>1, BlockFacts
    <3>. QED BY <1>1, <2>3, <2>5, <3>1, <3>2, AbandonStep, StepCarries
  <2>. QED BY <2>4, <2>5
<1>2. ASSUME NEW s, StackOK(s) PROVE Carries(s, tcp_kill_prio(s, prio))
  <2> DEFINE v == tcp_kill_prio_victim(s, prio)
  <2>1. s.active \in Seq(Pcb)
    BY <1>2, StackFields DEF StackOK
  <2>2. v \in ToSet(s.active) \cup {NULL}
    BY <2>1, LastBestIsMember DEF tcp_kill_prio_victim
  <2>3. tcp_kill_prio(s, prio) = IF v = NULL THEN s ELSE tcp_abandon(s, v)
    BY DEF tcp_kill_prio
  <2> HIDE DEF v
  <2>4. CASE v = NULL
    BY <1>2, <2>3, <2>4, CarriesNothing
  <2>5. CASE v # NULL
    <3>1. v \in Pcb
      BY <2>1, <2>2, <2>5, ListMembers
    <3>2. v \notin s.bound
      BY <1>2, <2>2, <2>5, <3>1, BlockFacts DEF Active
    <3>. QED BY <1>2, <2>3, <2>5, <3>1, <3>2, AbandonStep, StepCarries
  <2>. QED BY <2>4, <2>5
<1> DEFINE s == IF FreePcbs(t) = {} THEN tcp_kill_timewait(t) ELSE t
<1>3. Carries(t, s)
  BY <1>1, CarriesNothing
<1>4. tcp_alloc_room(t, prio) = IF FreePcbs(s) = {} THEN tcp_kill_prio(s, prio) ELSE s
  BY DEF tcp_alloc_room
<1> HIDE DEF s
<1>5. StackOK(s)
  BY <1>3 DEF Carries
<1>. QED BY <1>2, <1>3, <1>4, <1>5, CarriesTwice


\* A block goes from the active list to that of TIME_WAIT.
LEMMA TimeWaitStep ==
    ASSUME NEW t, StackOK(t), NEW p \in Pcb, NEW u,
           Touches(t, u, p), t.pcb[p].state \in Active, u.pcb[p].state = "TIME_WAIT",
           u.active = RemoveFirst(t.active, p), u.changed = TRUE,
           u.tw = <<p>> \o t.tw, u.bound = t.bound,
           \A q \in Pcb \ {p} : q \in u.held <=> q \in t.held, p \notin u.held
    PROVE  Step(t, u, p)
<1>1. /\ t.active \in Seq(Pcb) /\ t.tw \in Seq(Pcb)
      /\ IsInjective(t.active) /\ IsInjective(t.tw)
  BY StackFields DEF StackOK
<1>2. p \notin ToSet(t.tw) /\ p \notin t.bound
  BY BlockFacts DEF Active
<1>3. /\ IsInjective(u.active) /\ p \notin ToSet(u.active)
      /\ \A q \in Pcb \ {p} : q \in ToSet(u.active) <=> q \in ToSet(t.active)
  BY <1>1, RemoveFromList
<1>4. /\ IsInjective(u.tw) /\ p \in ToSet(u.tw)
      /\ \A q \in Pcb \ {p} : q \in ToSet(u.tw) <=> q \in ToSet(t.tw)
  BY <1>1, <1>2, PushOnList
<1>5. OneBlock(t, u, p)
  BY <1>3, <1>4 DEF OneBlock
<1>6. BlockOK(u, p)
  BY <1>2, <1>3, <1>4 DEF BlockOK
<1>7. PortKept(t, u, p) /\ Noted(t, u)
  BY <1>2 DEF PortKept, Noted
<1>8. StrictAt(u, p)
  BY DEF StrictAt, Active
<1>. QED BY <1>3, <1>5, <1>6, <1>7, <1>8 DEF Step

LEMMA SendFinBlock ==
    ASSUME NEW b \in Block, NeedsFin(b)
    PROVE  /\ SendFin(b) \in Block /\ SendFin(b).state \in {"LAST_ACK", "FIN_WAIT_1"}
           /\ SendFin(b).port = b.port /\ SendFin(b).lag = b.lag
           /\ SendFin(b).rxclosed = b.rxclosed
BY DEF SendFin, NeedsFin, Block, TcpStates, Active

\* The four outcomes of a close: the block is freed, reset into TIME_WAIT, sent a
\* FIN for, or left as it is.
Freed(t, u, p) ==
    /\ Touches(t, u, p) /\ u.pcb[p] = FreeBlock /\ u.tw = t.tw /\ u.held = t.held
    /\ \/ /\ t.pcb[p].state \in {"SYN_SENT", "CLOSE_WAIT"} /\ u.bound = t.bound
          /\ u.active = RemoveFirst(t.active, p) /\ u.changed = TRUE
       \/ /\ t.pcb[p].state = "CLOSED" /\ u.bound = t.bound \ {p}
          /\ u.active = t.active /\ u.changed = t.changed
ResetTo(t, u, p) ==
    /\ Touches(t, u, p) /\ u.tw = <<p>> \o t.tw /\ u.held = t.held /\ u.bound = t.bound
    /\ t.pcb[p].state = "ESTABLISHED" /\ u.pcb[p].state = "TIME_WAIT"
    /\ u.active = RemoveFirst(t.active, p) /\ u.changed = TRUE
FinSentFor(t, u, p) ==
    /\ Touches(t, u, p) /\ SameLists(t, u) /\ u.held = t.held
    /\ NeedsFin(t.pcb[p]) /\ u.pcb[p] = SendFin(t.pcb[p])

LEMMA CloseOutcomes ==
    ASSUME NEW t \in Stack, IsInjective(t.active), NEW p \in Pcb,
           NEW rst \in BOOLEAN, NEW finOk \in BOOLEAN
    PROVE  LET u == tcp_close_shutdown(t, p, rst, finOk)
               b == t.pcb[p]
           IN  \/ /\ Freed(t, u, p) /\ ~CloseFails(b, rst, finOk)
                  /\ rst = TRUE \/ ~NeedsFin(b)
               \/ ResetTo(t, u, p) /\ ~CloseFails(b, rst, finOk) /\ rst = TRUE
               \/ FinSentFor(t, u, p) /\ finOk = TRUE
               \/ u = t /\ CloseFails(b, rst, finOk) /\ finOk = FALSE
               \/ u = t /\ b.state \notin {"CLOSED", "SYN_SENT"} /\ ~NeedsFin(b)
<1> DEFINE b == t.pcb[p]
           u == tcp_close_shutdown(t, p, rst, finOk)
           purged == tcp_pcb_purge(t, p)
           gone == TCP_RMV_ACTIVE(purged, p)
<1>1. b \in Block
  BY StackFields
<1>2. /\ Touches(t, purged, p) /\ SameLists(t, purged) /\ purged.held = t.held
      /\ SameBlock(b, purged.pcb[p])
  BY Purge
<1> HIDE DEF purged
<1>3. purged \in Stack /\ IsInjective(purged.active)
  BY <1>2 DEF Touches, SameLists
<1>4. /\ Touches(purged, gone, p) /\ gone.pcb = purged.pcb /\ gone.held = purged.held
      /\ gone.active = RemoveFirst(purged.active, p) /\ gone.tw = purged.tw
      /\ gone.bound = purged.bound /\ gone.changed = TRUE
  BY <1>3, RemoveActive
<1> HIDE DEF gone
<1>5. /\ Touches(t, gone, p) /\ gone \in Stack /\ gone.held = t.held
      /\ gone.active = RemoveFirst(t.active, p) /\ gone.tw = t.tw
      /\ gone.bound = t.bound /\ gone.changed = TRUE
  <2>1. Touches(t, gone, p)
    BY <1>2, <1>4, TouchesTwice
  <2>. QED BY <1>2, <1>4, <2>1 DEF SameLists, Touches
<1>6. CASE rst /\ ResetsOnClose(b) /\ b.state = "ESTABLISHED"
  <2> DEFINE v == [gone EXCEPT !.pcb[p].state = "TIME_WAIT"]
             w == [v EXCEPT !.tw = <<p>> \o @]
  <2>1. u = w
    <3>1. u = [gone EXCEPT !.pcb[p].state = "TIME_WAIT", !.tw = <<p>> \o @]
      BY <1>6 DEF tcp_close_shutdown, gone, purged
    <3>. QED BY <3>1, <1>5 DEF Stack
  <2>2. "TIME_WAIT" \in TcpStates
    BY DEF TcpStates
  <2>3. /\ Touches(gone, v, p) /\ SameLists(gone, v) /\ v.held = gone.held
        /\ v.pcb[p].state = "TIME_WAIT"
    <3>1. v = WithState(gone, p, "TIME_WAIT")
      BY DEF WithState
    <3> HIDE DEF v
    <3>2. LET x == WithState(gone, p, "TIME_WAIT")
          IN  /\ Touches(gone, x, p) /\ SameLists(gone, x) /\ x.held = gone.held
              /\ x.pcb[p].state = "TIME_WAIT"
      BY <1>5, <2>2, SetState
    <3>. QED BY <3>1, <3>2
  <2> HIDE DEF v
  <2>4. v \in Stack /\ v.tw \in Seq(Pcb) /\ <<p>> \o v.tw \in Seq(Pcb)
    BY <2>3, StackFields DEF Touches
  <2>5. /\ Touches(v, w, p) /\ w.pcb = v.pcb /\ w.active = v.active /\ w.held = v.held
        /\ w.tw = <<p>> \o v.tw /\ w.bound = v.bound /\ w.changed = v.changed
    BY <2>4 DEF Stack, Touches
  <2> HIDE DEF w
  <2>6. Touches(t, w, p)
    BY <1>5, <2>3, <2>5, TouchesTwice
  <2>7. ResetTo(t, w, p)
    BY <1>5, <1>6, <2>3, <2>5, <2>6 DEF ResetTo, SameLists
  <2>. QED BY <1>6, <2>1, <2>7 DEF CloseFails
<1>7. CASE rst /\ ResetsOnClose(b) /\ b.state = "CLOSE_WAIT"
  <2>1. u = memp_free(gone, p)
    BY <1>7 DEF tcp_close_shutdown, gone, purged
  <2>2. /\ Touches(gone, u, p) /\ SameLists(gone, u) /\ u.held = gone.held
        /\ u.pcb[p] = FreeBlock
    BY <1>5, <2>1, MempFree
  <2>3. Touches(t, u, p)
    BY <1>5, <2>2, TouchesTwice
  <2> HIDE DEF u
  <2>4. Freed(t, u, p)
    BY <1>5, <1>7, <2>2, <2>3 DEF Freed, SameLists
  <2>. QED BY <1>7, <2>4 DEF CloseFails, u
<1>8. CASE ~(rst /\ ResetsOnClose(b)) /\ NeedsFin(b)
  <2>1. u = IF finOk THEN [t EXCEPT !.pcb[p] = SendFin(@)] ELSE t
    BY <1>8 DEF tcp_close_shutdown, ResetsOnClose, NeedsFin
  <2>2. CASE finOk = TRUE
    <3>1. u = WithBlock(t, p, SendFin(b))
      BY <2>1, <2>2 DEF WithBlock
    <3>2. SendFin(b) \in Block
      BY <1>1, <1>8, SendFinBlock
    <3>3. /\ Touches(t, u, p) /\ SameLists(t, u) /\ u.held = t.held
          /\ u.pcb[p] = SendFin(b)
      BY <3>1, <3>2, SetBlock
    <3> HIDE DEF u
    <3>. QED BY <1>8, <2>2, <3>3 DEF FinSentFor, u
  <2>3. CASE finOk = FALSE
    BY <1>8, <2>1, <2>3 DEF CloseFails
  <2>. QED BY <2>2, <2>3
<1>9. CASE b.state = "CLOSED"
  <2> DEFINE v == [t EXCEPT !.bound = @ \ {p}]
  <2>1. u = memp_free(v, p)
    BY <1>9 DEF tcp_close_shutdown, ResetsOnClose, NeedsFin
  <2>2. /\ v \in Stack /\ Touches(t, v, p) /\ v.pcb = t.pcb /\ v.active = t.active
        /\ v.tw = t.tw /\ v.held = t.held /\ v.changed = t.changed
        /\ v.bound = t.bound \ {p}
    BY DEF Stack, Touches
  <2> HIDE DEF v
  <2>3. /\ Touches(v, u, p) /\ SameLists(v, u) /\ u.held = v.held
        /\ u.pcb[p] = FreeBlock
    BY <2>1, <2>2, MempFree
  <2>4. Touches(t, u, p)
    BY <2>2, <2>3, TouchesTwice
  <2> HIDE DEF u
  <2>5. Freed(t, u, p)
    BY <1>9, <2>2, <2>3, <2>4 DEF Freed, SameLists
  <2>. QED BY <1>9, <2>5 DEF CloseFails, NeedsFin, u
<1>10. CASE b.state = "SYN_SENT"
  <2> DEFINE v == tcp_pcb_remove(t, p)
  <2>1. u = memp_free(v, p)
    BY <1>10 DEF tcp_close_shutdown, ResetsOnClose, NeedsFin
  <2>2. /\ Touches(t, v, p) /\ v.held = t.held /\ v.bound = t.bound
        /\ v.active = RemoveFirst(t.active, p) /\ v.tw = t.tw /\ v.changed = TRUE
    BY PcbRemove
  <2> HIDE DEF v
  <2>3. /\ Touches(v, u, p) /\ SameLists(v, u) /\ u.held = v.held
        /\ u.pcb[p] = FreeBlock
    BY <2>1, <2>2, MempFree DEF Touches
  <2>4. Touches(t, u, p)
    BY <2>2, <2>3, TouchesTwice
  <2> HIDE DEF u
  <2>5. Freed(t, u, p)
    BY <1>10, <2>2, <2>3, <2>4 DEF Freed, SameLists
  <2>. QED BY <1>10, <2>5 DEF CloseFails, NeedsFin, u
<1>11. CASE b.state \notin {"CLOSED", "SYN_SENT"} /\ ~NeedsFin(b)
  <2>1. u = t
    BY <1>11 DEF tcp_close_shutdown, ResetsOnClose, NeedsFin
  <2>. QED BY <1>11, <2>1
<1>. QED BY <1>6, <1>7, <1>8, <1>9, <1>10, <1>11 DEF NeedsFin, ResetsOnClose


-----------------------------------------------------------------------------
(* Calls of the application and segments                                    *)

\* What a call or a segment does to the stack: some u, but for the flag.
Handled == \E u : Carries(tcp, u) /\ Becomes(u)

\* A change of fields that the lists do not depend on.
Gentle(t, u, p) ==
    /\ Touches(t, u, p) /\ SameLists(t, u) /\ u.held = t.held
    /\ SameBlock(t.pcb[p], u.pcb[p])

LEMMA GentleTwice ==
    ASSUME NEW t, NEW u, NEW v, NEW p, Gentle(t, u, p), Gentle(u, v, p)
    PROVE  Gentle(t, v, p)
BY TouchesTwice DEF Gentle, SameLists, SameBlock

LEMMA GentleBlock ==
    ASSUME NEW t \in Stack, NEW p \in Pcb, NEW b \in Block, SameBlock(t.pcb[p], b)
    PROVE  Gentle(t, WithBlock(t, p, b), p)
BY SetBlock DEF Gentle

LEMMA GentleStep ==
    ASSUME NEW t, StackOK(t), NEW p \in Pcb, NEW u, Gentle(t, u, p)
    PROVE  Step(t, u, p)
<1>1. /\ t.pcb[p].state = "CLOSED" => p \in t.held \cup t.lost
      /\ p \in t.held => /\ t.pcb[p].state \notin {"FREE", "TIME_WAIT"}
                         /\ t.pcb[p].rxclosed => t.pcb[p].state \notin FinSent
  BY BlockFacts
<1>. QED BY <1>1, DataStep DEF Gentle, SameLists, SameBlock, Touches

LEMMA SetUnread ==
    ASSUME NEW t \in Stack, NEW p \in Pcb, NEW x \in BOOLEAN
    PROVE  Gentle(t, [t EXCEPT !.pcb[p].unread = x], p)
<1> DEFINE b == [t.pcb[p] EXCEPT !.unread = x]
<1>0. t.pcb[p] \in Block
  BY StackFields
<1>1. b \in Block /\ SameBlock(t.pcb[p], b)
  BY <1>0 DEF Block, SameBlock
<1>2. [t EXCEPT !.pcb[p].unread = x] = WithBlock(t, p, b)
  BY DEF WithBlock
<1> HIDE DEF b
<1>3. Gentle(t, WithBlock(t, p, b), p)
  BY <1>1, GentleBlock
<1>. QED BY <1>2, <1>3, Zenon

LEMMA SetRefused ==
    ASSUME NEW t \in Stack, NEW p \in Pcb, NEW r \in {"none", "data", "fin"}
    PROVE  Gentle(t, [t EXCEPT !.pcb[p].refused = r], p)
<1> DEFINE b == [t.pcb[p] EXCEPT !.refused = r]
<1>0. t.pcb[p] \in Block
  BY StackFields
<1>1. b \in Block /\ SameBlock(t.pcb[p], b)
  BY <1>0 DEF Block, SameBlock
<1>2. [t EXCEPT !.pcb[p].refused = r] = WithBlock(t, p, b)
  BY DEF WithBlock
<1> HIDE DEF b
<1>3. Gentle(t, WithBlock(t, p, b), p)
  BY <1>1, GentleBlock
<1>. QED BY <1>2, <1>3, Zenon

LEMMA SetOutput ==
    ASSUME NEW t \in Stack, NEW p \in Pcb, NEW o \in {"idle", "unacked", "persist"}
    PROVE  Gentle(t, [t EXCEPT !.pcb[p].output = o], p)
<1> DEFINE b == [t.pcb[p] EXCEPT !.output = o]
<1>0. t.pcb[p] \in Block
  BY StackFields
<1>1. b \in Block /\ SameBlock(t.pcb[p], b)
  BY <1>0 DEF Block, SameBlock
<1>2. [t EXCEPT !.pcb[p].output = o] = WithBlock(t, p, b)
  BY DEF WithBlock
<1> HIDE DEF b
<1>3. Gentle(t, WithBlock(t, p, b), p)
  BY <1>1, GentleBlock
<1>. QED BY <1>2, <1>3, Zenon

LEMMA SetPrio ==
    ASSUME NEW t \in Stack, NEW p \in Pcb, NEW prio \in Prios
    PROVE  Gentle(t, [t EXCEPT !.pcb[p].prio = prio], p)
<1> DEFINE b == [t.pcb[p] EXCEPT !.prio = prio]
<1>0. t.pcb[p] \in Block
  BY StackFields
<1>1. b \in Block /\ SameBlock(t.pcb[p], b)
  BY <1>0 DEF Block, SameBlock
<1>2. [t EXCEPT !.pcb[p].prio = prio] = WithBlock(t, p, b)
  BY DEF WithBlock
<1> HIDE DEF b
<1>3. Gentle(t, WithBlock(t, p, b), p)
  BY <1>1, GentleBlock
<1>. QED BY <1>2, <1>3, Zenon

\* The peer has been heard of, and has acknowledged.
LEMMA HeardOf ==
    ASSUME NEW t \in Stack, NEW p \in Pcb
    PROVE  Gentle(t, Heard(t, p), p)
<1> DEFINE b == [t.pcb[p] EXCEPT !.age = 0]
<1>0. t.pcb[p] \in Block /\ 0 \in 0..MAX_AGE /\ 0 \in 0..TCP_MAXRTX
  BY StackFields, ConstantTypes
<1>1. b \in Block /\ SameBlock(t.pcb[p], b)
  BY <1>0 DEF Block, SameBlock
<1>2. [t EXCEPT !.pcb[p].age = 0] = WithBlock(t, p, b)
  BY DEF WithBlock
<1> HIDE DEF b
<1>3. Gentle(t, WithBlock(t, p, b), p)
  BY <1>1, GentleBlock
<1>4. Gentle(t, t, p)
  BY DEF Gentle, Touches, SameLists, SameBlock
<1>5. Heard(t, p) = t \/ Heard(t, p) = WithBlock(t, p, b)
  BY <1>2 DEF Heard
<1>. QED BY <1>3, <1>4, <1>5

LEMMA AcknowledgedTo ==
    ASSUME NEW t \in Stack, NEW p \in Pcb
    PROVE  Gentle(t, Acknowledged(t, p), p)
<1> DEFINE b == [t.pcb[p] EXCEPT !.output = "idle", !.nrtx = 0]
<1>0. t.pcb[p] \in Block /\ 0 \in 0..MAX_AGE /\ 0 \in 0..TCP_MAXRTX
  BY StackFields, ConstantTypes
<1>1. b \in Block /\ SameBlock(t.pcb[p], b)
  BY <1>0 DEF Block, SameBlock
<1>2. Acknowledged(t, p) = WithBlock(t, p, b)
  BY StackFields DEF Acknowledged, WithBlock, Stack, Block
<1> HIDE DEF b
<1>. QED BY <1>1, <1>2, GentleBlock

LEMMA HeardAndAcknowledged ==
    ASSUME NEW t \in Stack, NEW p \in Pcb
    PROVE  Gentle(t, Acknowledged(Heard(t, p), p), p)
<1>1. Gentle(t, Heard(t, p), p)
  BY HeardOf
<1>2. Heard(t, p) \in Stack
  BY <1>1 DEF Gentle, Touches
<1>3. Gentle(Heard(t, p), Acknowledged(Heard(t, p), p), p)
  BY <1>2, AcknowledgedTo
<1>. QED BY <1>1, <1>3, GentleTwice

LEMMA SetHeld ==
    ASSUME NEW t \in Stack, NEW p \in Pcb, NEW h \in SUBSET Pcb
    PROVE  LET u == [t EXCEPT !.held = h]
           IN  Touches(t, u, p) /\ SameLists(t, u) /\ u.pcb = t.pcb /\ u.held = h
BY DEF Stack, Touches, SameLists

\* A block that was free, or not connected, goes on the active list.
LEMMA RegisterStep ==
    ASSUME NEW t, StackOK(t), NEW p \in Pcb, NEW u,
           Touches(t, u, p), t.pcb[p].state \in {"CLOSED", "FREE"},
           u.pcb[p].state \in {"SYN_SENT", "SYN_RCVD"},
           \/ u.pcb[p].lag = 0
           \/ t.pcb[p].state = "CLOSED" /\ u.pcb[p].lag = t.pcb[p].lag,
           u.active = <<p>> \o t.active, u.changed = TRUE, u.tw = t.tw,
           u.bound = t.bound \ {p}, u.held = t.held
    PROVE  Step(t, u, p)
<1>1. /\ t.active \in Seq(Pcb) /\ t.tw \in Seq(Pcb)
      /\ IsInjective(t.active) /\ IsInjective(t.tw)
  BY StackFields DEF StackOK
<1>2. p \notin ToSet(t.active) /\ p \notin ToSet(t.tw)
  BY BlockFacts DEF Active
<1>3. /\ IsInjective(u.active) /\ p \in ToSet(u.active)
      /\ \A q \in Pcb \ {p} : q \in ToSet(u.active) <=> q \in ToSet(t.active)
  BY <1>1, <1>2, PushOnList
<1>4. OneBlock(t, u, p)
  BY <1>1, <1>3 DEF OneBlock
<1>5. BlockOK(u, p)
  BY <1>2, <1>3 DEF BlockOK, Active, FinSent
<1>6. PortKept(t, u, p) /\ Noted(t, u)
  BY DEF PortKept, Noted
<1>7. StrictAt(t, p) => StrictAt(u, p)
  BY <1>3 DEF StrictAt
<1>. QED BY <1>3, <1>4, <1>5, <1>6, <1>7 DEF Step

\* A connection goes from one state to another, on the same list.
LEMMA MoveStep ==
    ASSUME NEW t, StackOK(t), NEW p \in Pcb, NEW s \in Active,
           t.pcb[p].state \in Active, s \in FinSent => t.pcb[p].state \in FinSent
    PROVE  Step(t, [t EXCEPT !.pcb[p].state = s], p)
<1> DEFINE b == [t.pcb[p] EXCEPT !.state = s]
           u == WithBlock(t, p, b)
<1>1. /\ t \in Stack /\ t.pcb[p] \in Block /\ s \in TcpStates
  BY BlockFacts DEF TcpStates
<1>2. /\ b \in Block /\ b.state = s /\ b.port = t.pcb[p].port
      /\ b.rxclosed = t.pcb[p].rxclosed /\ b.lag = t.pcb[p].lag
  BY <1>1 DEF Block
<1> SUFFICES Step(t, u, p)
  BY DEF WithBlock
<1> HIDE DEF b
<1>5. Touches(t, u, p) /\ SameLists(t, u) /\ u.held = t.held /\ u.pcb[p] = b
  BY <1>1, <1>2, SetBlock
<1> HIDE DEF u
<1>3. p \in t.held /\ t.pcb[p].rxclosed => t.pcb[p].state \notin FinSent
  BY BlockFacts
<1>4. s \notin {"FREE", "TIME_WAIT", "CLOSED"}
  BY DEF Active
<1>. QED BY <1>2, <1>3, <1>4, <1>5, DataStep

\* Another block at p, and other lists for it to be on.
Rewrite(t, p, b, active, bound, held, changed) ==
    [t EXCEPT !.pcb = [t.pcb EXCEPT ![p] = b], !.active = active, !.bound = bound,
              !.held = held, !.changed = changed]
LEMMA Rewritten ==
    ASSUME NEW t \in Stack, NEW p \in Pcb, NEW b \in Block, NEW active \in Seq(Pcb),
           NEW bound \in SUBSET Pcb, NEW held \in SUBSET Pcb, NEW changed \in BOOLEAN
    PROVE  LET u == Rewrite(t, p, b, active, bound, held, changed)
           IN  /\ Touches(t, u, p) /\ u.pcb[p] = b /\ u.active = active /\ u.tw = t.tw
               /\ u.bound = bound /\ u.held = held /\ u.changed = changed
BY DEF Rewrite, Stack, Touches

LEMMA EnterTimeWaitStep ==
    ASSUME NEW t, StackOK(t), NEW p \in Pcb, t.pcb[p].state \in Active
    PROVE  Step(t, EnterTimeWait(t, p), p)
<1> DEFINE purged == tcp_pcb_purge(t, p)
           gone == TCP_RMV_ACTIVE(purged, p)
           waits == [gone EXCEPT !.pcb[p].state = "TIME_WAIT"]
           u == [waits EXCEPT !.tw = <<p>> \o @, !.held = @ \ {p}]
<1>1. t \in Stack /\ IsInjective(t.active)
  BY BlockFacts
<1>2. /\ Touches(t, purged, p) /\ SameLists(t, purged) /\ purged.held = t.held
  BY <1>1, Purge
<1>3. EnterTimeWait(t, p) = [gone EXCEPT !.pcb[p].state = "TIME_WAIT",
                                         !.tw = <<p>> \o @, !.held = @ \ {p}]
  BY DEF EnterTimeWait, gone, purged
<1> HIDE DEF purged
<1>4. purged \in Stack /\ IsInjective(purged.active)
  BY <1>1, <1>2 DEF Touches, SameLists
<1>5. /\ Touches(purged, gone, p) /\ gone.held = purged.held
      /\ gone.active = RemoveFirst(purged.active, p) /\ gone.tw = purged.tw
      /\ gone.bound = purged.bound /\ gone.changed = TRUE
  BY <1>4, RemoveActive
<1> HIDE DEF gone
<1>6. gone \in Stack /\ "TIME_WAIT" \in TcpStates
  BY <1>5 DEF Touches, TcpStates
<1>7. EnterTimeWait(t, p) = u
  BY <1>3, <1>6 DEF Stack
<1>8. waits = WithState(gone, p, "TIME_WAIT")
  BY DEF WithState
<1> HIDE DEF waits
<1>9. /\ Touches(gone, waits, p) /\ SameLists(gone, waits) /\ waits.held = gone.held
      /\ waits.pcb[p].state = "TIME_WAIT"
  <2>1. LET x == WithState(gone, p, "TIME_WAIT")
        IN  /\ Touches(gone, x, p) /\ SameLists(gone, x) /\ x.held = gone.held
            /\ x.pcb[p].state = "TIME_WAIT"
    BY <1>6, SetState
  <2>. QED BY <1>8, <2>1
<1>10. waits \in Stack /\ <<p>> \o waits.tw \in Seq(Pcb)
  <2>1. waits \in Stack
    BY <1>9 DEF Touches
  <2>2. waits.tw \in Seq(Pcb)
    BY <2>1, StackFields
  <2>. QED BY <2>1, <2>2
<1>11. /\ Touches(waits, u, p) /\ u.pcb = waits.pcb /\ u.active = waits.active
       /\ u.held = waits.held \ {p} /\ u.tw = <<p>> \o waits.tw
       /\ u.bound = waits.bound /\ u.changed = waits.changed
  BY <1>10 DEF Stack, Touches
<1> HIDE DEF u
<1>12. Touches(t, u, p)
  BY <1>2, <1>5, <1>9, <1>11, TouchesTwice
<1>13. /\ u.pcb[p].state = "TIME_WAIT" /\ u.active = RemoveFirst(t.active, p)
       /\ u.changed = TRUE /\ u.tw = <<p>> \o t.tw /\ u.bound = t.bound
       /\ u.held = t.held \ {p}
  BY <1>2, <1>5, <1>9, <1>11 DEF SameLists
<1>. QED BY <1>7, <1>12, <1>13, TimeWaitStep

\* Closing, whatever comes of it: the application refers to the block only where
\* the close has failed.
LEMMA CloseStep ==
    ASSUME NEW t, StackOK(t), NEW p \in Pcb, NEW finOk \in BOOLEAN, NEW h \in SUBSET Pcb,
           h = IF CloseFails(t.pcb[p], TRUE, finOk) THEN t.held ELSE t.held \ {p}
    PROVE  Step(t, [tcp_close(t, p, finOk) EXCEPT !.held = h], p)
<1> DEFINE b == [t.pcb[p] EXCEPT !.rxclosed = TRUE]
           shut == WithBlock(t, p, b)
           done == tcp_close_shutdown(shut, p, TRUE, finOk)
           u == [done EXCEPT !.held = h]
<1>1. t \in Stack /\ IsInjective(t.active) /\ t.pcb[p] \in Block
  BY BlockFacts
<1>2. /\ b \in Block /\ b.state = t.pcb[p].state /\ b.port = t.pcb[p].port
      /\ b.lag = t.pcb[p].lag /\ b.rxclosed = TRUE
      /\ CloseFails(b, TRUE, finOk) <=> CloseFails(t.pcb[p], TRUE, finOk)
  BY <1>1 DEF Block, CloseFails, NeedsFin, ResetsOnClose
<1>3. tcp_close(t, p, finOk) = done
  BY DEF tcp_close, WithBlock
<1> HIDE DEF b
<1>4. Touches(t, shut, p) /\ SameLists(t, shut) /\ shut.held = t.held /\ shut.pcb[p] = b
  BY <1>1, <1>2, SetBlock
<1> HIDE DEF shut
<1>5. shut \in Stack /\ IsInjective(shut.active)
  BY <1>1, <1>4 DEF Touches, SameLists
<1>6. \/ /\ Freed(shut, done, p) /\ ~CloseFails(b, TRUE, finOk)
      \/ ResetTo(shut, done, p) /\ ~CloseFails(b, TRUE, finOk)
      \/ FinSentFor(shut, done, p) /\ finOk = TRUE
      \/ done = shut /\ CloseFails(b, TRUE, finOk) /\ finOk = FALSE
      \/ done = shut /\ b.state \notin {"CLOSED", "SYN_SENT"} /\ ~NeedsFin(b)
  BY <1>4, <1>5, CloseOutcomes
<1> HIDE DEF done
<1>7. Touches(t, done, p) /\ done \in Stack
  <2>1. Touches(shut, done, p) \/ done = shut
    BY <1>6 DEF Freed, ResetTo, FinSentFor
  <2>2. Touches(t, done, p)
    BY <1>4, <2>1, TouchesTwice
  <2>. QED BY <2>2 DEF Touches
<1>8. Touches(done, u, p) /\ SameLists(done, u) /\ u.pcb = done.pcb /\ u.held = h
  BY <1>7, SetHeld
<1> HIDE DEF u
<1>9. Touches(t, u, p)
  BY <1>7, <1>8, TouchesTwice
<1>10. /\ \A q \in Pcb \ {p} : q \in h <=> q \in t.held
       /\ ~CloseFails(b, TRUE, finOk) => p \notin h
       /\ h \subseteq t.held
  BY <1>2
<1>11. /\ p \in t.bound => t.pcb[p].state = "CLOSED"
       /\ p \in t.held => t.pcb[p].state \notin {"FREE", "TIME_WAIT"}
       /\ t.pcb[p].state = "CLOSED" => p \in t.held \cup t.lost
  BY BlockFacts
<1>12. CASE Freed(shut, done, p) /\ ~CloseFails(b, TRUE, finOk)
  <2>1. /\ u.pcb[p] = FreeBlock /\ u.tw = t.tw /\ t.pcb[p].state # "TIME_WAIT"
        /\ p \notin u.held /\ p \notin u.bound
        /\ \A q \in Pcb \ {p} : q \in u.bound <=> q \in t.bound
        /\ \/ u.active = RemoveFirst(t.active, p) /\ u.changed = TRUE
           \/ u.active = t.active /\ u.changed = t.changed /\ t.pcb[p].state \notin Active
    BY <1>2, <1>4, <1>8, <1>10, <1>11, <1>12 DEF Freed, SameLists, Active
  <2>2. Step(t, u, p)
    BY <1>8, <1>9, <1>10, <2>1, GoneStep
  <2>. QED BY <1>3, <2>2 DEF u
<1>13. CASE ResetTo(shut, done, p) /\ ~CloseFails(b, TRUE, finOk)
  <2>1. /\ t.pcb[p].state \in Active /\ u.pcb[p].state = "TIME_WAIT"
        /\ u.active = RemoveFirst(t.active, p) /\ u.changed = TRUE
        /\ u.tw = <<p>> \o t.tw /\ u.bound = t.bound /\ p \notin u.held
    BY <1>2, <1>4, <1>8, <1>10, <1>13 DEF ResetTo, SameLists, Active
  <2>2. Step(t, u, p)
    BY <1>8, <1>9, <1>10, <2>1, TimeWaitStep
  <2>. QED BY <1>3, <2>2 DEF u
<1>14. CASE FinSentFor(shut, done, p) /\ finOk = TRUE
  <2>1. SameLists(t, u) /\ u.pcb[p] = SendFin(b) /\ NeedsFin(b)
    BY <1>4, <1>8, <1>14 DEF FinSentFor, SameLists
  <2>2. /\ SendFin(b).state \in {"LAST_ACK", "FIN_WAIT_1"} /\ SendFin(b).port = b.port
        /\ SendFin(b).lag = b.lag
    BY <1>2, <2>1, SendFinBlock
  <2>3. p \notin u.held /\ ~CloseFails(b, TRUE, finOk)
    BY <1>8, <1>10, <1>14 DEF CloseFails
  <2>4. u.pcb[p].state \in Active /\ t.pcb[p].state \in Active
    BY <1>2, <2>1, <2>2 DEF NeedsFin, Active
  <2>5. u.pcb[p].state # "CLOSED"
    BY <2>4 DEF Active
  <2>6. Step(t, u, p)
    BY <1>2, <1>8, <1>9, <1>10, <2>1, <2>2, <2>3, <2>4, <2>5, DataStep
  <2>. QED BY <1>3, <2>6 DEF u
<1>15. CASE done = shut /\ CloseFails(b, TRUE, finOk) /\ finOk = FALSE
  <2>1. SameLists(t, u) /\ u.pcb[p] = b /\ u.held = t.held
    BY <1>2, <1>4, <1>8, <1>15 DEF SameLists
  <2>2. b.state \notin FinSent /\ b.state # "CLOSED"
    BY <1>15 DEF CloseFails, NeedsFin, FinSent
  <2>3. Step(t, u, p)
    BY <1>2, <1>9, <1>11, <2>1, <2>2, DataStep
  <2>. QED BY <1>3, <2>3 DEF u
<1>16. CASE done = shut /\ b.state \notin {"CLOSED", "SYN_SENT"} /\ ~NeedsFin(b)
  <2>1. ~CloseFails(b, TRUE, finOk)
    BY <1>16 DEF CloseFails
  <2>2. SameLists(t, u) /\ u.pcb[p] = b /\ p \notin u.held
    BY <1>4, <1>8, <1>10, <1>16, <2>1 DEF SameLists
  <2>3. Step(t, u, p)
    BY <1>2, <1>8, <1>9, <1>10, <1>16, <2>2, DataStep
  <2>. QED BY <1>3, <2>3 DEF u
<1>. QED BY <1>6, <1>12, <1>13, <1>14, <1>15, <1>16

\* A close itself leaves it to its caller to forget the block.
LEMMA CloseHeld ==
    ASSUME NEW t, StackOK(t), NEW p \in Pcb, NEW finOk \in BOOLEAN
    PROVE  tcp_close(t, p, finOk).held = t.held /\ tcp_close(t, p, finOk) \in Stack
<1> DEFINE done == tcp_close(t, p, finOk)
           b == [t.pcb[p] EXCEPT !.rxclosed = TRUE]
           shut == WithBlock(t, p, b)
<1>1. t \in Stack /\ IsInjective(t.active) /\ t.pcb[p] \in Block
  BY BlockFacts
<1>2. b \in Block
  BY <1>1 DEF Block
<1>3. done = tcp_close_shutdown(shut, p, TRUE, finOk)
  BY DEF tcp_close, WithBlock
<1> HIDE DEF b, done
<1>4. Touches(t, shut, p) /\ SameLists(t, shut) /\ shut.held = t.held
  BY <1>1, <1>2, SetBlock
<1> HIDE DEF shut
<1>5. shut \in Stack /\ IsInjective(shut.active)
  BY <1>1, <1>4 DEF Touches, SameLists
<1>6. \/ Freed(shut, done, p) \/ ResetTo(shut, done, p) \/ FinSentFor(shut, done, p)
      \/ done = shut
  BY <1>3, <1>5, CloseOutcomes
<1>7. done.held = t.held /\ done \in Stack
  BY <1>4, <1>5, <1>6 DEF Freed, ResetTo, FinSentFor, Touches
<1>. QED BY <1>7 DEF done

LEMMA HandledStep ==
    ASSUME StackOK(tcp), NEW p \in Pcb, NEW u, Step(tcp, u, p), Becomes(u)
    PROVE  Handled
BY StepCarries DEF Handled

LEMMA HandlesNew ==
    ASSUME StackOK(tcp), tcp_new
    PROVE  Handled
<1> DEFINE room == tcp_alloc_room(tcp, TCP_PRIO_NORMAL)
<1>1. Carries(tcp, room)
  BY AllocRoomCarries
<1>2. StackOK(room)
  BY <1>1 DEF Carries
<1>3. /\ FreePcbs(room) = {} => Becomes(room)
      /\ FreePcbs(room) # {} => \E p \in FreePcbs(room) :
           Becomes([room EXCEPT !.pcb[p] = NewBlock(TCP_PRIO_NORMAL), !.held = @ \cup {p}])
  BY DEF tcp_new, Call
<1> HIDE DEF room
<1>4. CASE FreePcbs(room) = {}
  BY <1>1, <1>3, <1>4 DEF Handled
<1>5. CASE FreePcbs(room) # {}
  <2>1. PICK p \in FreePcbs(room) :
           Becomes([room EXCEPT !.pcb[p] = NewBlock(TCP_PRIO_NORMAL), !.held = @ \cup {p}])
    BY <1>3, <1>5
  <2> DEFINE b == NewBlock(TCP_PRIO_NORMAL)
             u == Rewrite(room, p, b, room.active, room.bound, room.held \cup {p},
                          room.changed)
  <2>2. p \in Pcb /\ room.pcb[p].state = "FREE"
    BY DEF FreePcbs
  <2>3. b \in Block /\ b.state = "CLOSED" /\ b.lag = 0 /\ b.rxclosed = FALSE
    BY FreeBlocks, TcpAssumption DEF NewBlock
  <2> HIDE DEF b
  <2>4. /\ room \in Stack /\ room.held \cup {p} \in SUBSET Pcb
        /\ room.bound \in SUBSET Pcb /\ room.active \in Seq(Pcb) /\ room.changed \in BOOLEAN
    BY <1>2, <2>2, StackFields DEF StackOK
  <2>5. [room EXCEPT !.pcb[p] = b, !.held = @ \cup {p}] = u
    BY <2>4 DEF Rewrite, Stack
  <2>6. /\ Touches(room, u, p) /\ u.pcb[p] = b /\ u.active = room.active /\ u.tw = room.tw
        /\ u.bound = room.bound /\ u.held = room.held \cup {p} /\ u.changed = room.changed
    BY <2>2, <2>3, <2>4, Rewritten
  <2> HIDE DEF u
  <2>7. OneBlock(room, u, p)
    BY <1>2, <2>2, <2>6, BlockFacts DEF OneBlock
  <2>8. BlockOK(u, p)
    BY <1>2, <2>2, <2>3, <2>6, BlockFacts DEF BlockOK, Active, FinSent
  <2>9. PortKept(room, u, p)
    BY <1>2, <2>2, <2>6, BlockFacts DEF PortKept
  <2>10. Noted(room, u) /\ StrictAt(u, p)
    BY <2>3, <2>6 DEF Noted, StrictAt, Active
  <2>11. Carries(room, u)
    BY <1>2, <2>2, <2>6, <2>7, <2>8, <2>9, <2>10, StepCarries DEF Step
  <2>12. Carries(tcp, u)
    BY <1>1, <2>11, CarriesTwice
  <2>13. Becomes(u)
    BY <2>1, <2>5 DEF b
  <2>. QED BY <2>12, <2>13 DEF Handled
<1>. QED BY <1>4, <1>5

LEMMA HandlesBind ==
    ASSUME StackOK(tcp), NEW p \in Pcb, NEW port \in ServerPorts \cup LocalPorts,
           tcp_bind(p, port)
    PROVE  Handled
<1> DEFINE b == [tcp.pcb[p] EXCEPT !.port = port]
           u == Rewrite(tcp, p, b, tcp.active, tcp.bound \cup {p}, tcp.held, tcp.changed)
<1>1. /\ p \in tcp.held /\ p \notin tcp.bound /\ tcp.pcb[p].state = "CLOSED"
      /\ port \notin PortsInUse(tcp) /\ port \in Ports /\ port # 0
      /\ Becomes([tcp EXCEPT !.pcb[p].port = port, !.bound = @ \cup {p}])
  <2>1. port \notin PortsInUse(tcp)
    BY DEF tcp_bind, tcp_new_port
  <2>. QED BY <2>1, TcpAssumption DEF tcp_bind, Call, Ports
<1>2. tcp \in Stack /\ tcp.pcb[p] \in Block
  BY BlockFacts
<1>3. /\ b \in Block /\ b.state = "CLOSED" /\ b.port = port /\ b.lag = tcp.pcb[p].lag
      /\ b.rxclosed = tcp.pcb[p].rxclosed
  BY <1>1, <1>2 DEF Block, Ports
<1>4. [tcp EXCEPT !.pcb[p].port = port, !.bound = @ \cup {p}] = u
  BY <1>2 DEF Rewrite, Stack
<1> HIDE DEF b
<1>5. /\ tcp.bound \cup {p} \in SUBSET Pcb /\ tcp.held \in SUBSET Pcb
      /\ tcp.active \in Seq(Pcb) /\ tcp.changed \in BOOLEAN
  BY <1>2, StackFields
<1>6. /\ Touches(tcp, u, p) /\ u.pcb[p] = b /\ u.active = tcp.active /\ u.tw = tcp.tw
      /\ u.bound = tcp.bound \cup {p} /\ u.held = tcp.held /\ u.changed = tcp.changed
  BY <1>2, <1>3, <1>5, Rewritten
<1> HIDE DEF u
<1>7. OneBlock(tcp, u, p)
  BY <1>6, BlockFacts DEF OneBlock
<1>8. BlockOK(u, p)
  BY <1>1, <1>3, <1>6, BlockFacts DEF BlockOK, Active, FinSent
<1>9. PortKept(tcp, u, p)
  BY <1>1, <1>3, <1>6 DEF PortKept
<1>10. Noted(tcp, u) /\ (StrictAt(tcp, p) => StrictAt(u, p))
  BY <1>1, <1>3, <1>6 DEF Noted, StrictAt, Active
<1>11. Step(tcp, u, p)
  BY <1>6, <1>7, <1>8, <1>9, <1>10 DEF Step
<1>. QED BY <1>1, <1>4, <1>11, HandledStep

\* The port goes from the block to the listening one, which no other has if it
\* was reserved.  Without a listening block the block is lost.
LEMMA HandlesListen ==
    ASSUME StackOK(tcp), NEW p \in Pcb, tcp_listen_with_backlog(p)
    PROVE  Handled
<1>1. /\ p \in tcp.held /\ tcp.pcb[p].state = "CLOSED"
      /\ tcp \in Stack /\ tcp.pcb[p] \in Block
  BY BlockFacts DEF tcp_listen_with_backlog
<1>2. CASE ListenPcb = tcp.listen
  <2> DEFINE u == [tcp EXCEPT !.held = @ \ {p}, !.lost = @ \cup {p}]
  <2>1. Becomes(u)
    BY <1>2 DEF tcp_listen_with_backlog, Call
  <2>2. /\ u \in Stack /\ u.pcb = tcp.pcb /\ u.lpcb = tcp.lpcb /\ u.listen = tcp.listen
        /\ u.bound = tcp.bound /\ u.active = tcp.active /\ u.tw = tcp.tw
        /\ u.changed = tcp.changed /\ u.held = tcp.held \ {p} /\ u.lost = tcp.lost \cup {p}
    BY <1>1 DEF Stack
  <2> HIDE DEF u
  <2>3. \A q \in Pcb : BlockOK(u, q)
    BY <1>1, <2>2 DEF StackOK, BlockOK
  <2>4. Reserved(u)
    BY <2>2 DEF StackOK, Reserved, Reserving
  <2>5. Carries(tcp, u)
    BY <2>2, <2>3, <2>4 DEF StackOK, Carries, Noted, Listed, Rested
  <2>. QED BY <2>1, <2>5 DEF Handled
<1>3. CASE ListenPcb # tcp.listen
  <2> DEFINE c == [port |-> tcp.pcb[p].port, prio |-> tcp.pcb[p].prio,
                   reserved |-> p \in tcp.bound]
             v(l) == [tcp EXCEPT !.lpcb[l] = [port |-> tcp.pcb[p].port,
                                              prio |-> tcp.pcb[p].prio,
                                              reserved |-> p \in tcp.bound],
                                 !.listen = @ \cup {l}, !.bound = @ \ {p},
                                 !.held = @ \ {p}]
  <2>1. PICK l \in ListenPcb \ tcp.listen : Becomes(memp_free(v(l), p))
    BY <1>3 DEF tcp_listen_with_backlog, Call
  <2> DEFINE w == v(l)
             u == memp_free(w, p)
  <2>2. c \in Listener
    BY <1>1 DEF Block, Listener
  <2>3. /\ w \in Stack /\ w.pcb = tcp.pcb /\ w.lpcb = [tcp.lpcb EXCEPT ![l] = c]
        /\ w.listen = tcp.listen \cup {l} /\ w.bound = tcp.bound \ {p}
        /\ w.held = tcp.held \ {p} /\ w.active = tcp.active /\ w.tw = tcp.tw
        /\ w.changed = tcp.changed /\ w.lost = tcp.lost
    BY <1>1, <2>2 DEF Stack
  <2>4. Becomes(u)
    BY <2>1
  <2> HIDE DEF w
  <2>5. Touches(w, u, p) /\ SameLists(w, u) /\ u.held = w.held /\ u.pcb[p] = FreeBlock
    BY <2>3, MempFree
  <2> HIDE DEF u
  <2>6. /\ u \in Stack /\ u.lpcb = w.lpcb /\ u.listen = w.listen /\ u.lost = tcp.lost
        /\ \A q \in Pcb \ {p} : u.pcb[q] = tcp.pcb[q]
    BY <2>3, <2>5 DEF Touches
  <2>7. /\ u.active = tcp.active /\ u.tw = tcp.tw /\ u.changed = tcp.changed
        /\ u.bound = tcp.bound \ {p} /\ u.held = tcp.held \ {p}
    BY <2>3, <2>5 DEF SameLists
  <2>8. ASSUME NEW q \in Pcb PROVE BlockOK(u, q)
    <3>1. CASE q = p
      <4>1. u.pcb[p].state = "FREE"
        BY <2>5, FreeBlocks
      <4>. QED BY <1>1, <2>7, <3>1, <4>1, BlockFacts DEF BlockOK, Active
    <3>2. CASE q # p
      <4>1. BlockOK(tcp, q) /\ u.pcb[q] = tcp.pcb[q]
        BY <2>6, <3>2 DEF StackOK
      <4>. QED BY <2>6, <2>7, <3>2, <4>1 DEF BlockOK
    <3>. QED BY <3>1, <3>2
  <2>9. Reserved(u)
    <3>1. /\ \A q \in u.bound : q \in tcp.bound /\ q # p /\ u.pcb[q].port = tcp.pcb[q].port
          /\ u.listen = tcp.listen \cup {l}
      BY <1>1, <2>3, <2>6, <2>7, StackFields
    <3>2. /\ u.lpcb[l].port = tcp.pcb[p].port /\ (u.lpcb[l].reserved <=> p \in tcp.bound)
          /\ \A m \in tcp.listen : u.lpcb[m] = tcp.lpcb[m]
      <4>1. u.lpcb = [tcp.lpcb EXCEPT ![l] = c] /\ l \in ListenPcb /\ l \notin tcp.listen
        BY <2>1, <2>3, <2>6
      <4>2. tcp.lpcb \in [ListenPcb -> Listener] /\ tcp.listen \in SUBSET ListenPcb
        BY <1>1, StackFields
      <4>3. u.lpcb[l] = c /\ \A m \in tcp.listen : u.lpcb[m] = tcp.lpcb[m]
        BY <4>1, <4>2
      <4>4. c.port = tcp.pcb[p].port
        OBVIOUS
      <4>5. c.reserved = (p \in tcp.bound)
        BY Zenon
      <4> HIDE DEF c
      <4>. QED BY <4>3, <4>4, <4>5
    <3>3. \A m \in Reserving(u) : \/ m \in Reserving(tcp) /\ u.lpcb[m].port = tcp.lpcb[m].port
                                  \/ /\ m = l /\ p \in tcp.bound
                                     /\ u.lpcb[m].port = tcp.pcb[p].port
      BY <3>1, <3>2 DEF Reserving
    <3>4. Reserved(tcp)
      BY DEF StackOK
    <3>5. \A q, r \in u.bound : u.pcb[q].port = u.pcb[r].port => q = r
      BY <3>1, <3>4 DEF Reserved
    <3>6. \A m, n \in Reserving(u) : u.lpcb[m].port = u.lpcb[n].port => m = n
      BY <3>3, <3>4 DEF Reserved
    <3>7. \A q \in u.bound, m \in Reserving(u) : u.pcb[q].port # u.lpcb[m].port
      BY <3>1, <3>3, <3>4 DEF Reserved
    <3>. QED BY <3>5, <3>6, <3>7 DEF Reserved
  <2>10. StackOK(u)
    BY <2>6, <2>7, <2>8, <2>9, BlockFacts DEF StackOK
  <2>11. ASSUME Listed(tcp), Rested(tcp) PROVE Listed(u) /\ Rested(u)
    <3>1. u.pcb[p].state = "FREE"
      BY <2>5, FreeBlocks
    <3>. QED BY <2>6, <2>7, <2>11, <3>1 DEF Listed, Rested, Active
  <2>12. Carries(tcp, u)
    BY <2>7, <2>10, <2>11 DEF Carries, Noted
  <2>. QED BY <2>4, <2>12 DEF Handled
<1>. QED BY <1>2, <1>3

LEMMA HandlesCloseListener ==
    ASSUME StackOK(tcp), NEW l \in ListenPcb, CloseListener(l)
    PROVE  Handled
<1> DEFINE u == [tcp EXCEPT !.listen = @ \ {l}, !.lpcb[l] = FreeListener]
<1>1. Becomes(u)
  BY DEF CloseListener, Call
<1>2. tcp \in Stack
  BY DEF StackOK
<1>3. /\ u \in Stack /\ u.pcb = tcp.pcb /\ u.active = tcp.active
      /\ u.tw = tcp.tw /\ u.bound = tcp.bound /\ u.held = tcp.held
      /\ u.changed = tcp.changed /\ u.listen = tcp.listen \ {l} /\ u.lost = tcp.lost
      /\ \A m \in u.listen : u.lpcb[m] = tcp.lpcb[m]
  <2>1. FreeListener \in Listener
    BY TcpAssumption DEF FreeListener, Listener
  <2>. QED BY <1>2, <2>1 DEF Stack
<1> HIDE DEF u
<1>4. StackOK(u)
  <2>1. Reserving(u) \subseteq Reserving(tcp)
    BY <1>3 DEF Reserving
  <2>2. \A m \in Reserving(u) : u.lpcb[m] = tcp.lpcb[m]
    BY <1>3 DEF Reserving
  <2>3. Reserved(u)
    BY <1>3, <2>1, <2>2 DEF StackOK, Reserved
  <2>. QED BY <1>3, <2>3 DEF StackOK, BlockOK
<1>5. Carries(tcp, u)
  BY <1>3, <1>4 DEF Carries, Noted, Listed, Rested
<1>. QED BY <1>1, <1>5 DEF Handled

LEMMA HandlesConnect ==
    ASSUME StackOK(tcp), NEW p \in Pcb, NEW port \in ServerPorts \cup LocalPorts,
           NEW synOk \in BOOLEAN, tcp_connect(p, port, synOk)
    PROVE  Handled
<1>1. /\ p \in tcp.held /\ tcp.pcb[p].state = "CLOSED" /\ port \in Ports
      /\ tcp.pcb[p].port # 0 => port = tcp.pcb[p].port
  BY DEF tcp_connect, Ports
<1>2. tcp \in Stack /\ tcp.pcb[p] \in Block
  BY BlockFacts
<1>3. CASE synOk = TRUE
  <2> DEFINE b == [tcp.pcb[p] EXCEPT !.port = port, !.state = "SYN_SENT",
                                     !.output = "unacked"]
             longer == <<p>> \o tcp.active
             raised == TRUE
             u == Rewrite(tcp, p, b, longer, tcp.bound \ {p}, tcp.held, raised)
  <2>1. Becomes(TCP_REG_ACTIVE([tcp EXCEPT !.pcb[p].port = port,
                                           !.pcb[p].state = "SYN_SENT",
                                           !.pcb[p].output = "unacked",
                                           !.bound = @ \ {p}], p))
    BY <1>3 DEF tcp_connect, Call
  <2>2. b \in Block /\ b.state = "SYN_SENT" /\ b.lag = tcp.pcb[p].lag
    BY <1>1, <1>2 DEF Block, Ports, TcpStates, Active
  <2>3. [tcp EXCEPT !.pcb[p].port = port, !.pcb[p].state = "SYN_SENT",
                    !.pcb[p].output = "unacked", !.bound = @ \ {p}]
          = [tcp EXCEPT !.pcb = [tcp.pcb EXCEPT ![p] = b], !.bound = @ \ {p}]
    <3> DEFINE v == [tcp EXCEPT !.pcb[p].port = port, !.pcb[p].state = "SYN_SENT",
                                !.pcb[p].output = "unacked"]
    <3>1. v = [tcp EXCEPT !.pcb = [tcp.pcb EXCEPT ![p] = b]]
      BY <1>2 DEF Stack
    <3>2. [tcp EXCEPT !.pcb[p].port = port, !.pcb[p].state = "SYN_SENT",
                      !.pcb[p].output = "unacked", !.bound = @ \ {p}]
            = [v EXCEPT !.bound = @ \ {p}]
      OBVIOUS
    <3> HIDE DEF v, b
    <3>3. [v EXCEPT !.bound = @ \ {p}]
            = [tcp EXCEPT !.pcb = [tcp.pcb EXCEPT ![p] = b], !.bound = @ \ {p}]
      BY <1>2, <3>1 DEF Stack
    <3>. QED BY <3>2, <3>3
  <2> HIDE DEF b
  <2>4. Becomes(u)
    <3>1. TCP_REG_ACTIVE([tcp EXCEPT !.pcb = [tcp.pcb EXCEPT ![p] = b],
                                     !.bound = @ \ {p}], p) = u
      BY <1>2 DEF Rewrite, TCP_REG_ACTIVE, Stack
    <3>. QED BY <2>1, <2>3, <3>1
  <2>5. /\ longer \in Seq(Pcb) /\ tcp.bound \ {p} \in SUBSET Pcb
        /\ tcp.held \in SUBSET Pcb /\ raised \in BOOLEAN
    <3>1. tcp.active \in Seq(Pcb)
      BY <1>2, StackFields
    <3>. QED BY <1>2, <3>1, StackFields
  <2> HIDE DEF longer, raised
  <2>6. /\ Touches(tcp, u, p) /\ u.pcb[p] = b /\ u.active = longer
        /\ u.tw = tcp.tw /\ u.bound = tcp.bound \ {p} /\ u.held = tcp.held
        /\ u.changed = raised
    BY <1>2, <2>2, <2>5, Rewritten
  <2> HIDE DEF u
  <2>7. Step(tcp, u, p)
    BY <1>1, <2>2, <2>6, RegisterStep DEF longer, raised
  <2>. QED BY <2>4, <2>7, HandledStep
<1>4. CASE synOk = FALSE
  <2> DEFINE b == [tcp.pcb[p] EXCEPT !.port = port]
             u == WithBlock(tcp, p, b)
  <2>1. Becomes(u)
    BY <1>4 DEF tcp_connect, Call, WithBlock
  <2>2. /\ b \in Block /\ b.state = tcp.pcb[p].state /\ b.lag = tcp.pcb[p].lag
        /\ b.port = port /\ b.rxclosed = tcp.pcb[p].rxclosed
    BY <1>1, <1>2 DEF Block, Ports
  <2> HIDE DEF b
  <2>3. Touches(tcp, u, p) /\ SameLists(tcp, u) /\ u.held = tcp.held /\ u.pcb[p] = b
    BY <1>2, <2>2, SetBlock
  <2> HIDE DEF u
  <2>4. Step(tcp, u, p)
    BY <1>1, <2>2, <2>3, DataStep DEF FinSent
  <2>. QED BY <2>1, <2>4, HandledStep
<1>. QED BY <1>3, <1>4

\* Calls that change fields only: priority, data written, data taken.
LEMMA HandlesData ==
    ASSUME StackOK(tcp), NEW p \in Pcb,
           \/ \E prio \in Prios : tcp_setprio(p, prio)
           \/ tcp_write(p) \/ tcp_recved(p)
    PROVE  Handled
<1>1. tcp \in Stack
  BY DEF StackOK
<1>2. CASE \E prio \in Prios : tcp_setprio(p, prio)
  <2>1. PICK prio \in Prios : tcp_setprio(p, prio)
    BY <1>2
  <2> DEFINE u == [tcp EXCEPT !.pcb[p].prio = prio]
  <2>2. Becomes(u)
    BY <2>1 DEF tcp_setprio, Call
  <2>3. Gentle(tcp, u, p)
    BY <1>1, SetPrio
  <2> HIDE DEF u
  <2>. QED BY <2>2, <2>3, GentleStep, HandledStep
<1>3. CASE tcp_write(p)
  <2> DEFINE u == [tcp EXCEPT !.pcb[p].output = "unacked"]
  <2>2. Becomes(u)
    BY <1>3 DEF tcp_write, Call
  <2>3. Gentle(tcp, u, p)
    BY <1>1, SetOutput
  <2> HIDE DEF u
  <2>. QED BY <2>2, <2>3, GentleStep, HandledStep
<1>4. CASE tcp_recved(p)
  <2> DEFINE u == [tcp EXCEPT !.pcb[p].unread = FALSE]
  <2>2. Becomes(u)
    BY <1>4 DEF tcp_recved, Call
  <2>3. Gentle(tcp, u, p)
    BY <1>1, SetUnread
  <2> HIDE DEF u
  <2>. QED BY <2>2, <2>3, GentleStep, HandledStep
<1>. QED BY <1>2, <1>3, <1>4

LEMMA HandlesClose ==
    ASSUME StackOK(tcp), NEW p \in Pcb, NEW finOk \in BOOLEAN, Close(p, finOk)
    PROVE  Handled
<1> DEFINE done == tcp_close(tcp, p, finOk)
           h == IF CloseFails(tcp.pcb[p], TRUE, finOk) THEN done.held
                ELSE done.held \ {p}
           u == [done EXCEPT !.held = h]
<1>1. Becomes(u)
  BY DEF Close, Call
<1>2. done.held = tcp.held
  BY CloseHeld
<1>3. /\ h \in SUBSET Pcb
      /\ h = IF CloseFails(tcp.pcb[p], TRUE, finOk) THEN tcp.held ELSE tcp.held \ {p}
  BY <1>2, StackFields DEF StackOK
<1> HIDE DEF h
<1>4. Step(tcp, u, p)
  BY <1>3, CloseStep
<1>. QED BY <1>1, <1>4, HandledStep

LEMMA HandlesShutdownRx ==
    ASSUME StackOK(tcp), NEW p \in Pcb, tcp_shutdown_rx(p)
    PROVE  Handled
<1> DEFINE b == [tcp.pcb[p] EXCEPT !.rxclosed = TRUE, !.refused = "none"]
           h == IF tcp.pcb[p].state \in FinSent THEN tcp.held \ {p} ELSE tcp.held
           u == Rewrite(tcp, p, b, tcp.active, tcp.bound, h, tcp.changed)
<1>1. tcp \in Stack /\ tcp.pcb[p] \in Block
  BY BlockFacts
<1>2. /\ b \in Block /\ b.state = tcp.pcb[p].state /\ b.port = tcp.pcb[p].port
      /\ b.lag = tcp.pcb[p].lag
  BY <1>1 DEF Block
<1>3. Becomes(u)
  <2> DEFINE v == [tcp EXCEPT !.pcb[p].rxclosed = TRUE, !.pcb[p].refused = "none"]
  <2>1. v = [tcp EXCEPT !.pcb = [tcp.pcb EXCEPT ![p] = b]]
    BY <1>1 DEF Stack
  <2>2. Becomes([tcp EXCEPT !.pcb[p].rxclosed = TRUE, !.pcb[p].refused = "none", !.held = h])
    BY DEF tcp_shutdown_rx, Call
  <2>3. [tcp EXCEPT !.pcb[p].rxclosed = TRUE, !.pcb[p].refused = "none", !.held = h] =
          [v EXCEPT !.held = h]
    OBVIOUS
  <2> HIDE DEF v, b, h
  <2>4. [v EXCEPT !.held = h] = u
    BY <1>1, <2>1 DEF Rewrite, Stack
  <2>. QED BY <2>2, <2>3, <2>4
<1> HIDE DEF b
<1>4. h \in SUBSET Pcb /\ p \in tcp.held
  BY <1>1, StackFields DEF tcp_shutdown_rx
<1>5. /\ p \in h => tcp.pcb[p].state \notin FinSent
      /\ tcp.pcb[p].state = "CLOSED" => p \in h
      /\ \A q \in Pcb \ {p} : q \in h <=> q \in tcp.held
  BY <1>4 DEF FinSent
<1> HIDE DEF h
<1>6. /\ Touches(tcp, u, p) /\ u.pcb[p] = b /\ u.active = tcp.active /\ u.tw = tcp.tw
      /\ u.bound = tcp.bound /\ u.held = h /\ u.changed = tcp.changed
  BY <1>1, <1>2, <1>4, Rewritten, StackFields
<1> HIDE DEF u
<1>7. tcp.pcb[p].state \notin {"FREE", "TIME_WAIT"}
  BY <1>4, BlockFacts
<1>8. Step(tcp, u, p)
  BY <1>2, <1>5, <1>6, <1>7, DataStep DEF SameLists
<1>. QED BY <1>3, <1>8, HandledStep

LEMMA HandlesShutdownTx ==
    ASSUME StackOK(tcp), NEW p \in Pcb, NEW finOk \in BOOLEAN, tcp_shutdown_tx(p, finOk)
    PROVE  Handled
<1> DEFINE b == tcp.pcb[p]
           done == tcp_close_shutdown(tcp, p, FALSE, finOk)
           h == IF finOk /\ b.rxclosed THEN done.held \ {p} ELSE done.held
           u == [done EXCEPT !.held = h]
<1>1. Becomes(u) /\ p \in tcp.held /\ NeedsFin(b)
  BY DEF tcp_shutdown_tx, Call
<1>2. tcp \in Stack /\ IsInjective(tcp.active) /\ b \in Block
  BY BlockFacts
<1>3. \/ FinSentFor(tcp, done, p) /\ finOk = TRUE
      \/ done = tcp /\ finOk = FALSE
  <2>1. \/ Freed(tcp, done, p) /\ ~NeedsFin(b)
        \/ FinSentFor(tcp, done, p) /\ finOk = TRUE
        \/ done = tcp /\ finOk = FALSE
        \/ done = tcp /\ ~NeedsFin(b)
    <3> DEFINE rst == FALSE
    <3>1. rst \in BOOLEAN
      OBVIOUS
    <3>2. done = tcp_close_shutdown(tcp, p, rst, finOk)
      OBVIOUS
    <3> HIDE DEF rst, done
    <3>3. \/ /\ Freed(tcp, done, p) /\ ~CloseFails(b, rst, finOk)
             /\ rst = TRUE \/ ~NeedsFin(b)
          \/ ResetTo(tcp, done, p) /\ ~CloseFails(b, rst, finOk) /\ rst = TRUE
          \/ FinSentFor(tcp, done, p) /\ finOk = TRUE
          \/ done = tcp /\ CloseFails(b, rst, finOk) /\ finOk = FALSE
          \/ done = tcp /\ b.state \notin {"CLOSED", "SYN_SENT"} /\ ~NeedsFin(b)
      BY <1>2, <3>1, <3>2, CloseOutcomes
    <3>. QED BY <3>3 DEF rst
  <2>. QED BY <1>1, <2>1
<1> HIDE DEF done
<1>4. done \in Stack /\ done.held = tcp.held /\ Touches(tcp, done, p) /\ SameLists(tcp, done)
  BY <1>2, <1>3 DEF FinSentFor, Touches, SameLists
<1>5. h \in SUBSET Pcb
  BY <1>2, <1>4, StackFields
<1>6. Touches(done, u, p) /\ SameLists(done, u) /\ u.pcb = done.pcb /\ u.held = h
  BY <1>4, <1>5, SetHeld
<1>7. Touches(tcp, u, p) /\ SameLists(tcp, u)
  BY <1>4, <1>6, TouchesTwice DEF SameLists
<1> HIDE DEF u
<1>8. /\ b.state \in Active /\ b.state \notin FinSent
      /\ b.state \notin {"FREE", "TIME_WAIT", "CLOSED"}
  BY <1>1 DEF NeedsFin, Active, FinSent
<1>9. /\ u.pcb[p].state \in Active
      /\ u.pcb[p].port = b.port /\ u.pcb[p].lag = b.lag
      /\ p \in u.held /\ u.pcb[p].rxclosed => u.pcb[p].state \notin FinSent
  <2>1. CASE FinSentFor(tcp, done, p) /\ finOk = TRUE
    <3>1. u.pcb[p] = SendFin(b)
      BY <1>6, <2>1 DEF FinSentFor
    <3>2. /\ SendFin(b).state \in {"LAST_ACK", "FIN_WAIT_1"} /\ SendFin(b).port = b.port
          /\ SendFin(b).lag = b.lag /\ SendFin(b).rxclosed = b.rxclosed
      BY <1>1, <1>2, SendFinBlock
    <3>. QED BY <1>6, <2>1, <3>1, <3>2 DEF Active
  <2>2. CASE done = tcp /\ finOk = FALSE
    BY <1>6, <1>8, <2>2
  <2>. QED BY <1>3, <2>1, <2>2
<1>10. u.pcb[p].state \notin {"FREE", "TIME_WAIT", "CLOSED"}
  BY <1>9 DEF Active
<1>11. \A q \in Pcb \ {p} : q \in u.held <=> q \in tcp.held
  BY <1>4, <1>6
<1> HIDE DEF h, b
<1>12. Step(tcp, u, p)
  BY <1>7, <1>8, <1>9, <1>10, <1>11, DataStep DEF b
<1>. QED BY <1>1, <1>12, HandledStep

LEMMA HandlesAbort ==
    ASSUME StackOK(tcp), NEW p \in Pcb, tcp_abort(p)
    PROVE  Handled
<1> DEFINE done == tcp_abandon(tcp, p)
           u == [done EXCEPT !.held = @ \ {p}]
<1>1. Becomes(u) /\ p \in tcp.held /\ p \notin tcp.bound
  BY DEF tcp_abort
<1>2. /\ tcp \in Stack /\ IsInjective(tcp.active) /\ IsInjective(tcp.tw)
      /\ tcp.pcb[p].state # "TIME_WAIT"
  BY <1>1, BlockFacts
<1>3. done \in Stack /\ done.held = tcp.held \ {p}
  BY <1>2, Abandon DEF Touches
<1>4. Step(tcp, done, p)
  BY <1>1, AbandonStep
<1> HIDE DEF done
<1>5. u = done
  BY <1>3 DEF Stack
<1>. QED BY <1>1, <1>4, <1>5, HandledStep

\* A SYN takes a block, in the place of others if need be.
LEMMA HandlesSyn ==
    ASSUME StackOK(tcp), NEW l \in ListenPcb, NEW synOk \in BOOLEAN, SynArrives(l, synOk)
    PROVE  Handled
<1> DEFINE room == tcp_alloc_room(tcp, tcp.lpcb[l].prio)
           b == [NewBlock(tcp.lpcb[l].prio) EXCEPT !.state = "SYN_RCVD",
                    !.output = "unacked", !.port = tcp.lpcb[l].port]
<1>1. Carries(tcp, room)
  BY AllocRoomCarries
<1>2. StackOK(room)
  BY <1>1 DEF Carries
<1>3. \/ Becomes(room)
      \/ \E p \in FreePcbs(room) : Becomes(TCP_REG_ACTIVE([room EXCEPT !.pcb[p] = b], p))
  BY DEF SynArrives, Call
<1>4. b \in Block /\ b.state = "SYN_RCVD" /\ b.lag = 0
  <2>1. tcp.lpcb[l].prio \in Prios /\ tcp.lpcb[l].port \in Ports
    BY StackFields DEF StackOK, Listener, Ports
  <2>2. NewBlock(tcp.lpcb[l].prio) \in Block /\ NewBlock(tcp.lpcb[l].prio).lag = 0
    BY <2>1, FreeBlocks DEF NewBlock
  <2>. QED BY <2>1, <2>2 DEF Block, Ports, TcpStates, Active
<1> HIDE DEF room, b
<1>5. CASE Becomes(room)
  BY <1>1, <1>5 DEF Handled
<1>6. CASE \E p \in FreePcbs(room) : Becomes(TCP_REG_ACTIVE([room EXCEPT !.pcb[p] = b], p))
  <2>1. PICK p \in FreePcbs(room) : Becomes(TCP_REG_ACTIVE([room EXCEPT !.pcb[p] = b], p))
    BY <1>6
  <2> DEFINE taken == WithBlock(room, p, b)
             u == TCP_REG_ACTIVE(taken, p)
  <2>2. p \in Pcb /\ room.pcb[p].state = "FREE" /\ room \in Stack
    BY <1>2 DEF FreePcbs, StackOK
  <2>3. Becomes(u)
    BY <2>1 DEF WithBlock
  <2>4. Touches(room, taken, p) /\ SameLists(room, taken) /\ taken.held = room.held
          /\ taken.pcb[p] = b
    BY <1>4, <2>2, SetBlock
  <2> HIDE DEF taken
  <2>5. taken \in Stack
    BY <2>4 DEF Touches
  <2>6. /\ Touches(taken, u, p) /\ u.pcb = taken.pcb /\ u.held = taken.held
        /\ u.active = <<p>> \o taken.active /\ u.tw = taken.tw
        /\ u.bound = taken.bound /\ u.changed = TRUE
    BY <2>2, <2>5, RegisterActive
  <2> HIDE DEF u
  <2>7. Touches(room, u, p)
    BY <2>4, <2>6, TouchesTwice
  <2>8. p \notin room.bound
    BY <1>2, <2>2, BlockFacts
  <2>9. /\ u.active = <<p>> \o room.active /\ u.tw = room.tw
        /\ u.bound = room.bound \ {p} /\ u.held = room.held /\ u.pcb[p] = b
    BY <2>4, <2>6, <2>8 DEF SameLists
  <2>10. Step(room, u, p)
    BY <1>2, <1>4, <2>2, <2>6, <2>7, <2>9, RegisterStep
  <2>11. Carries(tcp, u)
    BY <1>1, <1>2, <2>2, <2>10, StepCarries, CarriesTwice
  <2>. QED BY <2>3, <2>11 DEF Handled
<1>. QED BY <1>3, <1>5, <1>6

\* What a segment does before it is looked at closely.
LEMMA HeardCarries ==
    ASSUME StackOK(tcp), NEW p \in Pcb, NEW t,
           Gentle(tcp, t, p)
    PROVE  /\ Carries(tcp, t) /\ StackOK(t) /\ t \in Stack /\ t.held = tcp.held
           /\ t.pcb[p].state = tcp.pcb[p].state /\ t.pcb[p].rxclosed = tcp.pcb[p].rxclosed
<1>1. Carries(tcp, t)
  BY GentleStep, StepCarries
<1>. QED BY <1>1 DEF Carries, StackOK, Gentle, SameBlock

LEMMA HandledTwice ==
    ASSUME StackOK(tcp), NEW t, NEW u, NEW p \in Pcb, Carries(tcp, t), Step(t, u, p), Becomes(u)
    PROVE  Handled
<1>1. Carries(t, u)
  BY StepCarries DEF Carries
<1>. QED BY <1>1, CarriesTwice DEF Handled

LEMMA HandlesHandshake ==
    ASSUME StackOK(tcp), NEW p \in Pcb,
           NEW answer \in {"ok", "error", "tcp_accept_null"},
           SynAcked(p) \/ HandshakeEnds(p, answer)
    PROVE  Handled
<1> DEFINE s == Acknowledged(Heard(tcp, p), p)
           t == [s EXCEPT !.pcb[p].state = "ESTABLISHED"]
<1>1. tcp \in Stack
  BY DEF StackOK
<1>2. Gentle(tcp, s, p)
  BY <1>1, HeardAndAcknowledged
<1>3. /\ \/ Becomes(t)
         \/ Becomes([t EXCEPT !.held = @ \cup {p}])
         \/ Becomes(tcp_abandon(t, p))
      /\ tcp.pcb[p].state \in {"SYN_SENT", "SYN_RCVD"}
  BY DEF SynAcked, HandshakeEnds, Call, Segment
<1> HIDE DEF s
<1>4. /\ Carries(tcp, s) /\ StackOK(s) /\ s \in Stack /\ s.held = tcp.held
      /\ s.pcb[p].state = tcp.pcb[p].state
  BY <1>2, HeardCarries
<1>5. "ESTABLISHED" \in Active /\ "ESTABLISHED" \notin FinSent /\ "ESTABLISHED" \in TcpStates
      /\ s.pcb[p].state \in Active
  BY <1>3, <1>4 DEF Active, FinSent, TcpStates
<1>6. Step(s, t, p)
  BY <1>4, <1>5, MoveStep
<1>7. t.pcb[p].state = "ESTABLISHED"
  BY <1>4, StackFields
<1> HIDE DEF t
<1>8. Carries(tcp, t)
  BY <1>4, <1>6, StepCarries, CarriesTwice
<1>9. StackOK(t) /\ t \in Stack
  BY <1>8 DEF Carries, StackOK
<1>10. CASE Becomes(t)
  BY <1>8, <1>10 DEF Handled
<1>11. CASE Becomes([t EXCEPT !.held = @ \cup {p}])
  <2> DEFINE u == [t EXCEPT !.held = @ \cup {p}]
  <2>1. t.held \cup {p} \in SUBSET Pcb
    BY <1>9, StackFields
  <2>2. Touches(t, u, p) /\ SameLists(t, u) /\ u.pcb = t.pcb /\ u.held = t.held \cup {p}
    BY <1>9, <2>1, SetHeld
  <2>3. Becomes(u)
    BY <1>11
  <2> HIDE DEF u
  <2>4. Step(t, u, p)
    BY <1>7, <1>9, <2>2, DataStep DEF FinSent
  <2>. QED BY <1>8, <2>3, <2>4, HandledTwice
<1>12. CASE Becomes(tcp_abandon(t, p))
  <2>1. p \notin t.bound
    BY <1>7, <1>9, BlockFacts
  <2>2. Step(t, tcp_abandon(t, p), p)
    BY <1>9, <2>1, AbandonStep
  <2>. QED BY <1>8, <1>12, <2>2, HandledTwice
<1>. QED BY <1>3, <1>10, <1>11, <1>12

LEMMA HandlesDataSegment ==
    ASSUME StackOK(tcp), NEW p \in Pcb, NEW taken \in BOOLEAN, DataArrives(p, taken)
    PROVE  Handled
<1> DEFINE s == Heard(tcp, p)
           t == [s EXCEPT !.pcb[p].unread = TRUE]
<1>1. tcp \in Stack
  BY DEF StackOK
<1>2. Gentle(tcp, s, p)
  BY <1>1, HeardOf
<1>3. /\ \/ Becomes(tcp_abandon(tcp, p))
         \/ Becomes([t EXCEPT !.pcb[p].unread = FALSE])
         \/ Becomes(t)
         \/ Becomes([t EXCEPT !.pcb[p].refused = "data"])
      /\ tcp.pcb[p].state \in {"ESTABLISHED", "FIN_WAIT_1", "FIN_WAIT_2"}
  BY DEF DataArrives, Call, Segment, tcp_recv_null
<1> HIDE DEF s
<1>4. s \in Stack
  BY <1>2, HeardCarries
<1>5. Gentle(s, t, p)
  BY <1>4, SetUnread
<1> HIDE DEF t
<1>6. Gentle(tcp, t, p)
  BY <1>2, <1>5, GentleTwice
<1>7. t \in Stack
  BY <1>6, HeardCarries
<1>8. CASE Becomes(tcp_abandon(tcp, p))
  <2>1. p \notin tcp.bound
    BY <1>3, BlockFacts
  <2>. QED BY <1>8, <2>1, AbandonStep, HandledStep
<1>9. CASE Becomes([t EXCEPT !.pcb[p].unread = FALSE])
  <2>1. Gentle(t, [t EXCEPT !.pcb[p].unread = FALSE], p)
    BY <1>7, SetUnread
  <2>. QED BY <1>6, <1>9, <2>1, GentleTwice, GentleStep, HandledStep
<1>10. CASE Becomes(t)
  BY <1>6, <1>10, GentleStep, HandledStep
<1>11. CASE Becomes([t EXCEPT !.pcb[p].refused = "data"])
  <2>1. Gentle(t, [t EXCEPT !.pcb[p].refused = "data"], p)
    BY <1>7, SetRefused
  <2>. QED BY <1>6, <1>11, <2>1, GentleTwice, GentleStep, HandledStep
<1>. QED BY <1>3, <1>8, <1>9, <1>10, <1>11

\* The FIN of the peer, in each state in which it can come.
LEMMA HandlesFin ==
    ASSUME StackOK(tcp), NEW p \in Pcb, NEW acked \in BOOLEAN, NEW finOk \in BOOLEAN,
           FinArrives(p, acked, finOk)
    PROVE  Handled
<1> DEFINE s == Heard(tcp, p)
           t == [s EXCEPT !.pcb[p].refused = IF @ = "none" THEN @ ELSE "fin"]
           waits == [t EXCEPT !.pcb[p].state = "CLOSE_WAIT"]
           closing == [t EXCEPT !.pcb[p].state = "CLOSING"]
           again == WithBlock(tcp, p, [tcp.pcb[p] EXCEPT !.age = 0])
<1>1. tcp \in Stack /\ tcp.pcb[p] \in Block
  BY BlockFacts
<1>2. Gentle(tcp, s, p)
  BY <1>1, HeardOf
<1>3. /\ tcp.pcb[p].state \in {"ESTABLISHED", "FIN_WAIT_1", "FIN_WAIT_2", "TIME_WAIT"}
      /\ \/ tcp.pcb[p].state = "ESTABLISHED" /\ Becomes(waits)
         \/ /\ tcp.pcb[p].state = "ESTABLISHED" /\ p \notin tcp.held
            /\ Becomes(tcp_close(waits, p, finOk))
         \/ tcp.pcb[p].state = "FIN_WAIT_1" /\ Becomes(closing)
         \/ tcp.pcb[p].state = "TIME_WAIT" /\ Becomes(again)
         \/ tcp.pcb[p].state \in {"FIN_WAIT_1", "FIN_WAIT_2"} /\ Becomes(EnterTimeWait(t, p))
  BY DEF FinArrives, Call, Segment, tcp_recv_null, WithBlock
<1> HIDE DEF s
<1>4. s \in Stack
  BY <1>2, HeardCarries
<1>5. Gentle(s, t, p)
  <2> DEFINE r == IF s.pcb[p].refused = "none" THEN s.pcb[p].refused ELSE "fin"
  <2>1. r \in {"none", "data", "fin"}
    OBVIOUS
  <2>2. t = [s EXCEPT !.pcb[p].refused = r]
    OBVIOUS
  <2> HIDE DEF r, t
  <2>. QED BY <1>4, <2>1, <2>2, SetRefused
<1> HIDE DEF t
<1>6. Gentle(tcp, t, p)
  BY <1>2, <1>5, GentleTwice
<1>7. /\ Carries(tcp, t) /\ StackOK(t) /\ t \in Stack /\ t.held = tcp.held
      /\ t.pcb[p].state = tcp.pcb[p].state
  BY <1>6, HeardCarries
<1>8. ASSUME tcp.pcb[p].state = "ESTABLISHED"
      PROVE  Step(t, waits, p) /\ waits.held = t.held
  <2>1. "CLOSE_WAIT" \in Active /\ "CLOSE_WAIT" \notin FinSent /\ t.pcb[p].state \in Active
    BY <1>7, <1>8 DEF Active, FinSent
  <2>2. Step(t, waits, p)
    BY <1>7, <2>1, MoveStep
  <2>. QED BY <1>7, <2>2 DEF Stack
<1> HIDE DEF waits
<1>9. CASE tcp.pcb[p].state = "ESTABLISHED" /\ Becomes(waits)
  BY <1>7, <1>8, <1>9, HandledTwice
<1>10. CASE /\ tcp.pcb[p].state = "ESTABLISHED" /\ p \notin tcp.held
            /\ Becomes(tcp_close(waits, p, finOk))
  <2>1. Step(t, waits, p) /\ waits.held = tcp.held
    BY <1>7, <1>8, <1>10
  <2>2. Carries(tcp, waits)
    BY <1>7, <2>1, StepCarries, CarriesTwice
  <2>3. StackOK(waits)
    BY <2>2 DEF Carries
  <2> DEFINE h == waits.held
             done == tcp_close(waits, p, finOk)
  <2>4. /\ h \in SUBSET Pcb
        /\ h = IF CloseFails(waits.pcb[p], TRUE, finOk) THEN waits.held
               ELSE waits.held \ {p}
    BY <1>10, <2>1, <2>3, StackFields DEF StackOK
  <2>5. h = done.held
    BY <2>3, CloseHeld
  <2>6. Step(waits, [done EXCEPT !.held = h], p)
    <3> HIDE DEF h
    <3>. QED BY <2>3, <2>4, CloseStep
  <2>7. [done EXCEPT !.held = done.held] = done
    <3>1. [done EXCEPT !.held = h] \in Stack
      BY <2>6 DEF Step, OneBlock, Touches
    <3>. QED BY <2>3, CloseHeld DEF Stack
  <2>8. Step(waits, done, p)
    BY <2>5, <2>6, <2>7
  <2>. QED BY <1>10, <2>2, <2>8, HandledTwice
<1>11. CASE tcp.pcb[p].state = "FIN_WAIT_1" /\ Becomes(closing)
  <2>1. "CLOSING" \in Active /\ t.pcb[p].state \in Active /\ t.pcb[p].state \in FinSent
    BY <1>7, <1>11 DEF Active, FinSent
  <2>2. Step(t, closing, p)
    BY <1>7, <2>1, MoveStep
  <2>. QED BY <1>7, <1>11, <2>2, HandledTwice
<1>12. CASE tcp.pcb[p].state = "TIME_WAIT" /\ Becomes(again)
  <2> DEFINE b == [tcp.pcb[p] EXCEPT !.age = 0]
  <2>1. 0 \in 0..MAX_AGE
    BY ConstantTypes
  <2>2. b \in Block /\ SameBlock(tcp.pcb[p], b)
    BY <1>1, <2>1 DEF Block, SameBlock
  <2> HIDE DEF b
  <2>3. Gentle(tcp, WithBlock(tcp, p, b), p)
    BY <1>1, <2>2, GentleBlock
  <2>. QED BY <1>12, <2>3, GentleStep, HandledStep DEF b
<1>13. CASE tcp.pcb[p].state \in {"FIN_WAIT_1", "FIN_WAIT_2"} /\ Becomes(EnterTimeWait(t, p))
  <2>1. t.pcb[p].state \in Active
    BY <1>7, <1>13 DEF Active
  <2>2. Step(t, EnterTimeWait(t, p), p)
    BY <1>7, <2>1, EnterTimeWaitStep
  <2>. QED BY <1>7, <1>13, <2>2, HandledTwice
<1>. QED BY <1>3, <1>9, <1>10, <1>11, <1>12, <1>13

\* An active block is removed and freed, and the application refers to it no more.
LEMMA RemovedStep ==
    ASSUME NEW t, StackOK(t), NEW p \in Pcb, NEW v, t.pcb[p].state \in Active,
           Touches(t, v, p), SameLists(t, v), v.pcb = t.pcb,
           v.held \in {t.held, t.held \ {p}}
    PROVE  LET u == memp_free(tcp_pcb_remove(v, p), p)
           IN  /\ Touches(t, u, p) /\ u.held = v.held
               /\ p \notin v.held => Step(t, u, p)
<1> DEFINE w == tcp_pcb_remove(v, p)
           u == memp_free(w, p)
<1>1. v \in Stack /\ IsInjective(v.active)
  BY BlockFacts DEF Touches, SameLists
<1>2. /\ Touches(v, w, p) /\ w.held = v.held /\ w.bound = v.bound
      /\ w.active = RemoveFirst(v.active, p) /\ w.tw = v.tw /\ w.changed = TRUE
  BY <1>1, PcbRemove
<1> HIDE DEF w
<1>3. /\ Touches(w, u, p) /\ SameLists(w, u) /\ u.held = w.held
      /\ u.pcb[p] = FreeBlock
  BY <1>2, MempFree DEF Touches
<1> SUFFICES Touches(t, u, p) /\ u.held = v.held /\ (p \notin v.held => Step(t, u, p))
  BY DEF u, w
<1> HIDE DEF u
<1>4. Touches(t, u, p)
  BY <1>2, <1>3, TouchesTwice
<1>5. /\ u.active = RemoveFirst(t.active, p) /\ u.changed = TRUE /\ u.tw = t.tw
      /\ u.bound = t.bound /\ u.held = v.held
  BY <1>2, <1>3 DEF SameLists
<1>6. t.pcb[p].state # "TIME_WAIT" /\ p \notin t.bound
  BY BlockFacts DEF Active
<1>7. \A q \in Pcb \ {p} : q \in u.held <=> q \in t.held
  BY <1>5
<1>8. p \notin v.held => Step(t, u, p)
  BY <1>3, <1>4, <1>5, <1>6, <1>7, GoneStep
<1>. QED BY <1>4, <1>5, <1>8

LEMMA HandlesFinAck ==
    ASSUME StackOK(tcp), NEW p \in Pcb, FinAcked(p)
    PROVE  Handled
<1> DEFINE t == Acknowledged(Heard(tcp, p), p)
           last == memp_free(tcp_pcb_remove(t, p), p)
           waits == [t EXCEPT !.pcb[p].state = "FIN_WAIT_2"]
<1>1. tcp \in Stack
  BY DEF StackOK
<1>2. Gentle(tcp, t, p)
  BY <1>1, HeardAndAcknowledged
<1>3. /\ tcp.pcb[p].state \in {"FIN_WAIT_1", "CLOSING", "LAST_ACK"}
      /\ \/ tcp.pcb[p].state = "FIN_WAIT_1" /\ Becomes(waits)
         \/ tcp.pcb[p].state = "CLOSING" /\ Becomes(EnterTimeWait(t, p))
         \/ tcp.pcb[p].state = "LAST_ACK" /\ tcp.pcb[p].rxclosed /\ Becomes(last)
         \/ tcp.pcb[p].state = "LAST_ACK" /\ Becomes(TCP_EVENT_ERR(last, p))
  BY DEF FinAcked, Call, Segment
<1> HIDE DEF t
<1>4. /\ Carries(tcp, t) /\ StackOK(t) /\ t \in Stack /\ t.held = tcp.held
      /\ t.pcb[p].state = tcp.pcb[p].state
  BY <1>2, HeardCarries
<1>5. t.pcb[p].state \in Active /\ t.pcb[p].state \in FinSent
  BY <1>3, <1>4 DEF Active, FinSent
<1>6. CASE tcp.pcb[p].state = "FIN_WAIT_1" /\ Becomes(waits)
  <2>1. "FIN_WAIT_2" \in Active
    BY DEF Active
  <2>2. Step(t, waits, p)
    BY <1>4, <1>5, <2>1, MoveStep
  <2>. QED BY <1>4, <1>6, <2>2, HandledTwice
<1>7. CASE tcp.pcb[p].state = "CLOSING" /\ Becomes(EnterTimeWait(t, p))
  BY <1>4, <1>5, <1>7, EnterTimeWaitStep, HandledTwice
<1>8. Touches(t, t, p) /\ SameLists(t, t)
  BY <1>4 DEF Touches, SameLists
<1>9. CASE tcp.pcb[p].state = "LAST_ACK" /\ tcp.pcb[p].rxclosed /\ Becomes(last)
  <2>1. p \notin t.held
    BY <1>4, <1>9, BlockFacts DEF FinSent
  <2>2. Step(t, last, p)
    BY <1>4, <1>5, <1>8, <2>1, RemovedStep
  <2>. QED BY <1>4, <1>9, <2>2, HandledTwice
<1>10. CASE tcp.pcb[p].state = "LAST_ACK" /\ Becomes(TCP_EVENT_ERR(last, p))
  <2> DEFINE u == TCP_EVENT_ERR(last, p)
  <2>1. Touches(t, last, p) /\ last.held = t.held
    BY <1>4, <1>5, <1>8, RemovedStep
  <2>2. t \in Stack /\ IsInjective(t.active)
    BY <1>4, BlockFacts
  <2> DEFINE w == tcp_pcb_remove(t, p)
  <2>3. /\ Touches(t, w, p) /\ w.bound = t.bound
        /\ w.active = RemoveFirst(t.active, p) /\ w.tw = t.tw /\ w.changed = TRUE
    BY <2>2, PcbRemove
  <2> HIDE DEF w
  <2>4. SameLists(w, last) /\ last.pcb[p] = FreeBlock
    BY <2>3, MempFree DEF Touches, w
  <2> HIDE DEF last
  <2>5. /\ Touches(last, u, p) /\ SameLists(last, u) /\ u.pcb = last.pcb
        /\ u.held = last.held \ {p}
    BY <2>1, EventErr DEF Touches
  <2> HIDE DEF u
  <2>6. Touches(t, u, p)
    BY <2>1, <2>5, TouchesTwice
  <2>7. /\ u.pcb[p] = FreeBlock /\ u.active = RemoveFirst(t.active, p) /\ u.changed = TRUE
        /\ u.tw = t.tw /\ u.bound = t.bound /\ u.held = t.held \ {p}
    BY <2>1, <2>3, <2>4, <2>5 DEF SameLists
  <2>8. t.pcb[p].state # "TIME_WAIT" /\ p \notin t.bound
    BY <1>4, <1>5, BlockFacts DEF Active
  <2>9. /\ \A q \in Pcb \ {p} : q \in u.held <=> q \in t.held
        /\ p \notin u.held /\ p \notin u.bound
    BY <2>7, <2>8
  <2>10. Step(t, u, p)
    BY <1>4, <2>6, <2>7, <2>8, <2>9, GoneStep
  <2>11. Becomes(u)
    BY <1>10 DEF u, last
  <2>. QED BY <1>4, <2>10, <2>11, HandledTwice
<1>. QED BY <1>3, <1>6, <1>7, <1>9, <1>10

LEMMA HandlesReset ==
    ASSUME StackOK(tcp), NEW p \in Pcb, ResetArrives(p)
    PROVE  Handled
<1> DEFINE v == TCP_EVENT_ERR(tcp, p)
           u == memp_free(tcp_pcb_remove(v, p), p)
<1>1. tcp.pcb[p].state \in Active /\ Becomes(u)
  BY DEF ResetArrives, Segment, Call
<1>2. tcp \in Stack
  BY DEF StackOK
<1>3. /\ Touches(tcp, v, p) /\ SameLists(tcp, v) /\ v.pcb = tcp.pcb
      /\ v.held = tcp.held \ {p}
  BY <1>2, EventErr
<1> HIDE DEF v
<1>4. Step(tcp, u, p)
  BY <1>1, <1>3, RemovedStep
<1>. QED BY <1>1, <1>4, HandledStep

\* Acknowledgements and windows change what waits to be sent.
LEMMA HandlesOutput ==
    ASSUME StackOK(tcp), NEW p \in Pcb, DataAcked(p) \/ WindowCloses(p) \/ WindowOpens(p)
    PROVE  Handled
<1> DEFINE s == Heard(tcp, p)
           acked == Acknowledged(s, p)
           shut == [s EXCEPT !.pcb[p].output = "persist"]
           open == [s EXCEPT !.pcb[p].output = "unacked"]
<1>1. tcp \in Stack
  BY DEF StackOK
<1>2. Gentle(tcp, s, p) /\ Gentle(tcp, acked, p)
  BY <1>1, HeardOf, HeardAndAcknowledged
<1>3. Becomes(acked) \/ Becomes(shut) \/ Becomes(open)
  BY DEF DataAcked, WindowCloses, WindowOpens, Call
<1> HIDE DEF s
<1>4. s \in Stack
  BY <1>2, HeardCarries
<1>5. Gentle(s, shut, p) /\ Gentle(s, open, p)
  <2>1. Gentle(s, shut, p)
    BY <1>4, SetOutput
  <2>2. Gentle(s, open, p)
    BY <1>4, SetOutput
  <2>. QED BY <2>1, <2>2
<1> HIDE DEF acked, shut, open
<1>6. Gentle(tcp, shut, p) /\ Gentle(tcp, open, p)
  BY <1>2, <1>5, GentleTwice
<1>. QED BY <1>2, <1>3, <1>6, GentleStep, HandledStep

\* A call or a segment leaves the timer in progress as it is, but for the note
\* that a block was aborted from its own callback.
TimerKept ==
    /\ timer' \in TimerType /\ silent' \in BOOLEAN
    /\ timer'.which = timer.which /\ timer'.callback = timer.callback
    /\ timer'.cur = timer.cur /\ timer'.prev = timer.prev

LEMMA ApplicationHandled ==
    ASSUME StackOK(tcp), timer \in TimerType, silent \in BOOLEAN, Application
    PROVE  Handled /\ AppRuns /\ TimerKept
<1>1. Handled
  BY HandlesNew, HandlesCloseListener, HandlesBind, HandlesConnect, HandlesListen,
     HandlesData, HandlesClose, HandlesShutdownTx, HandlesShutdownRx, HandlesAbort
     DEF Application
<1>2. ASSUME timer' = timer, silent' = silent PROVE TimerKept
  BY <1>2 DEF TimerKept
<1>3. ASSUME NEW p \in Pcb, tcp_abort(p) PROVE TimerKept
  <2> DEFINE x == timer.aborted \/ (InCallback /\ p = timer.who)
  <2>1. timer' = [timer EXCEPT !.aborted = x] /\ silent' = silent
    BY <1>3 DEF tcp_abort
  <2>2. x \in BOOLEAN
    OBVIOUS
  <2> HIDE DEF x
  <2>. QED BY <2>1, <2>2 DEF TimerKept, TimerType
<1>4. AppRuns /\ ((timer' = timer /\ silent' = silent) \/ \E p \in Pcb : tcp_abort(p))
  <2>1. CASE tcp_new
    BY <2>1 DEF tcp_new, Call
  <2>2. CASE \E l \in ListenPcb : CloseListener(l)
    BY <2>2 DEF CloseListener, Call
  <2>3. CASE \E p \in Pcb, port \in ServerPorts \cup LocalPorts :
               tcp_bind(p, port) \/ \E ok \in BOOLEAN : tcp_connect(p, port, ok)
    BY <2>3 DEF tcp_bind, tcp_connect, Call
  <2>4. CASE \E p \in Pcb : tcp_listen_with_backlog(p)
    BY <2>4 DEF tcp_listen_with_backlog, Call
  <2>5. CASE \E p \in Pcb : \/ \E prio \in Prios : tcp_setprio(p, prio)
                            \/ tcp_write(p) \/ tcp_recved(p)
    BY <2>5 DEF tcp_setprio, tcp_write, tcp_recved, Call
  <2>6. CASE \E p \in Pcb : \/ \E ok \in BOOLEAN : Close(p, ok) \/ tcp_shutdown_tx(p, ok)
                            \/ tcp_shutdown_rx(p)
    BY <2>6 DEF Close, tcp_shutdown_tx, tcp_shutdown_rx, Call
  <2>7. CASE \E p \in Pcb : tcp_abort(p)
    BY <2>7 DEF tcp_abort
  <2>. QED BY <2>1, <2>2, <2>3, <2>4, <2>5, <2>6, <2>7 DEF Application
<1>. QED BY <1>1, <1>2, <1>3, <1>4

LEMMA SegmentsHandled ==
    ASSUME StackOK(tcp), timer \in TimerType, silent \in BOOLEAN, Segments
    PROVE  ((Handled /\ Idle) \/ tcp' = tcp) /\ TimerKept
<1>1. CASE \E l \in ListenPcb, ok \in BOOLEAN : SynArrives(l, ok)
  <2>1. Handled
    BY <1>1, HandlesSyn
  <2>2. Idle /\ timer' = timer /\ silent' = silent
    BY <1>1 DEF SynArrives, Call
  <2>. QED BY <2>1, <2>2 DEF TimerKept
<1>2. ASSUME NEW p \in Pcb,
             \/ SynAcked(p) \/ \E answer \in {"ok", "error", "tcp_accept_null"} :
                                  HandshakeEnds(p, answer)
      PROVE  Handled /\ Idle /\ TimerKept
  <2>1. Handled
    BY <1>2, HandlesHandshake
  <2>2. Idle /\ timer' = timer /\ silent' = silent
    BY <1>2 DEF SynAcked, HandshakeEnds, Call, Segment
  <2>. QED BY <2>1, <2>2 DEF TimerKept
<1>3. ASSUME NEW p \in Pcb,
             \/ ResetArrives(p) \/ FinAcked(p)
             \/ DataAcked(p) \/ WindowCloses(p) \/ WindowOpens(p)
      PROVE  Handled /\ Idle /\ TimerKept
  <2>1. Handled
    BY <1>3, HandlesReset, HandlesFinAck, HandlesOutput
  <2>2. Idle /\ timer' = timer /\ silent' = silent
    BY <1>3 DEF ResetArrives, FinAcked, DataAcked, WindowCloses, WindowOpens, Call, Segment
  <2>. QED BY <2>1, <2>2 DEF TimerKept
<1>4. ASSUME NEW p \in Pcb,
             \/ \E taken \in BOOLEAN : DataArrives(p, taken)
             \/ \E acked, ok \in BOOLEAN : FinArrives(p, acked, ok)
      PROVE  Handled /\ Idle /\ TimerKept
  <2>1. Handled
    BY <1>4, HandlesDataSegment, HandlesFin
  <2>2. Idle /\ timer' = timer /\ silent' = silent
    BY <1>4 DEF DataArrives, FinArrives, Call, Segment
  <2>. QED BY <2>1, <2>2 DEF TimerKept
<1>5. CASE PeersFallSilent
  BY <1>5 DEF PeersFallSilent, TimerKept
<1>. QED BY <1>1, <1>2, <1>3, <1>4, <1>5 DEF Segments

-----------------------------------------------------------------------------
(* The timers                                                               *)

\* The flag is not part of what StackOK is about.
Flag(t, x) == [t EXCEPT !.changed = x]
LEMMA Flagged ==
    ASSUME NEW t, StackOK(t), NEW x \in BOOLEAN
    PROVE  LET u == Flag(t, x)
           IN  /\ StackOK(u) /\ u.pcb = t.pcb /\ u.active = t.active /\ u.changed = x
               /\ u.held = t.held
<1> DEFINE u == Flag(t, x)
<1>1. t \in Stack
  BY DEF StackOK
<1>2. /\ u \in Stack /\ u.pcb = t.pcb /\ u.lpcb = t.lpcb /\ u.listen = t.listen
      /\ u.active = t.active /\ u.tw = t.tw /\ u.bound = t.bound /\ u.held = t.held
      /\ u.lost = t.lost
      /\ u.changed = x
  BY <1>1 DEF Flag, Stack
<1> SUFFICES StackOK(u)
  BY <1>2
<1> HIDE DEF u
<1>. QED BY <1>2 DEF StackOK, BlockOK, Reserved, Reserving

\* What comes of a call or a segment.
LEMMA HandledKeeps ==
    ASSUME StackOK(tcp), Handled
    PROVE  /\ StackOK(tcp')
           /\ Listed(tcp) /\ Rested(tcp) => Listed(tcp') /\ Rested(tcp')
           /\ ~InCallback => tcp'.changed = FALSE
           /\ InCallback /\ tcp'.changed = FALSE =>
                tcp'.active = tcp.active /\ tcp.changed = FALSE
<1>1. PICK u : Carries(tcp, u) /\ Becomes(u)
  BY DEF Handled
<1> DEFINE x == u.changed /\ InCallback
<1>2. x \in BOOLEAN
  OBVIOUS
<1>3. tcp' = Flag(u, x)
  BY <1>1 DEF Becomes, Flag
<1>4. StackOK(u) /\ u.changed \in BOOLEAN
  BY <1>1, StackFields DEF Carries, StackOK
<1>5. ~InCallback => x = FALSE
  OBVIOUS
<1>6. InCallback /\ x = FALSE => u.changed = FALSE
  BY <1>4
<1> HIDE DEF x
<1>7. /\ StackOK(tcp') /\ tcp'.pcb = u.pcb /\ tcp'.active = u.active /\ tcp'.changed = x
  BY <1>2, <1>3, <1>4, Flagged
<1>. QED BY <1>1, <1>5, <1>6, <1>7 DEF Carries, Noted, Listed, Rested

\* A tick changes nothing but ages and lags.
LEMMA TickKeeps ==
    ASSUME NEW t, StackOK(t), NEW older \in BOOLEAN
    PROVE  LET u == Tick(t, older)
           IN  /\ StackOK(u) /\ u.active = t.active /\ u.changed = t.changed
               /\ \A p \in Pcb :
                    /\ u.pcb[p].state = t.pcb[p].state
                    /\ t.pcb[p].state # "FREE" => u.pcb[p].lag = Lag(t.pcb[p])
<1> DEFINE u == Tick(t, older)
           ticked(b) == [b EXCEPT !.lag = Lag(b),
                                  !.age = IF older /\ @ < MAX_AGE THEN @ + 1 ELSE @]
           pcb == [p \in Pcb |-> IF t.pcb[p].state = "FREE" THEN t.pcb[p]
                                 ELSE ticked(t.pcb[p])]
<1>1. t \in Stack
  BY DEF StackOK
<1>2. ASSUME NEW b \in Block PROVE Lag(b) \in 0..(TIMER_CTR - 1)
  <2>1. b.lag \in 0..(TIMER_CTR - 1) /\ TIMER_CTR \in Nat /\ TIMER_CTR >= 2
    BY ConstantTypes DEF Block
  <2>2. (b.lag + 1) % TIMER_CTR \in 0..(TIMER_CTR - 1)
    BY <2>1
  <2>. QED BY <2>1, <2>2 DEF Lag
<1>3. ASSUME NEW b \in Block
      PROVE  /\ ticked(b) \in Block /\ ticked(b).state = b.state /\ ticked(b).port = b.port
             /\ ticked(b).rxclosed = b.rxclosed /\ ticked(b).lag = Lag(b)
  <2>1. Lag(b) \in 0..(TIMER_CTR - 1)
    BY <1>2
  <2> DEFINE a == IF older /\ b.age < MAX_AGE THEN b.age + 1 ELSE b.age
  <2>2. a \in 0..MAX_AGE
    BY BlockFields, ConstantTypes
  <2>3. ticked(b) = [b EXCEPT !.lag = Lag(b), !.age = a]
    OBVIOUS
  <2> HIDE DEF a
  <2>. QED BY <2>1, <2>2, <2>3 DEF Block
<1>4. u = [t EXCEPT !.pcb = pcb]
  BY DEF Tick
<1> HIDE DEF ticked
<1>5. \A p \in Pcb : t.pcb[p] \in Block
  BY <1>1, StackFields
<1>6. ASSUME NEW p \in Pcb
      PROVE  /\ pcb[p] \in Block /\ pcb[p].state = t.pcb[p].state
             /\ pcb[p].port = t.pcb[p].port /\ pcb[p].rxclosed = t.pcb[p].rxclosed
             /\ t.pcb[p].state # "FREE" => pcb[p].lag = Lag(t.pcb[p])
  BY <1>3, <1>5
<1>7. pcb \in [Pcb -> Block]
  BY <1>6
<1> HIDE DEF pcb
<1>8. /\ u \in Stack /\ u.pcb = pcb /\ u.lpcb = t.lpcb /\ u.listen = t.listen
      /\ u.active = t.active /\ u.tw = t.tw /\ u.bound = t.bound /\ u.held = t.held
      /\ u.lost = t.lost
      /\ u.changed = t.changed
  BY <1>1, <1>4, <1>7 DEF Stack
<1> SUFFICES /\ StackOK(u)
             /\ \A p \in Pcb : /\ u.pcb[p].state = t.pcb[p].state
                               /\ t.pcb[p].state # "FREE" => u.pcb[p].lag = Lag(t.pcb[p])
  BY <1>8
<1> HIDE DEF u
<1>9. \A p \in Pcb : BlockOK(u, p)
  BY <1>6, <1>8 DEF StackOK, BlockOK
<1>10. Reserved(u)
  <2>1. t.bound \subseteq Pcb
    BY <1>1, StackFields
  <2>2. Reserved(t)
    BY DEF StackOK
  <2>. QED BY <1>6, <1>8, <2>1, <2>2 DEF Reserved, Reserving
<1>. QED BY <1>6, <1>8, <1>9, <1>10 DEF StackOK

LEMMA RetransmitBlock ==
    ASSUME NEW b \in Block, ~Expires(b)
    PROVE  /\ Retransmit(b) \in Block /\ Retransmit(b).state = b.state
           /\ Retransmit(b).port = b.port /\ Retransmit(b).rxclosed = b.rxclosed
           /\ Retransmit(b).lag = 0
<1> DEFINE n == IF b.output = "unacked" THEN b.nrtx + 1 ELSE b.nrtx
<1>1. /\ b.nrtx \in 0..TCP_MAXRTX /\ TCP_MAXRTX \in Nat /\ b.nrtx # TCP_MAXRTX
      /\ TIMER_CTR \in Nat /\ TIMER_CTR >= 2
  BY ConstantTypes, BlockFields DEF Expires, RetriesExhausted
<1>2. n \in 0..TCP_MAXRTX /\ 0 \in 0..(TIMER_CTR - 1)
  BY <1>1
<1>3. Retransmit(b) = [b EXCEPT !.lag = 0, !.nrtx = n]
  BY DEF Retransmit
<1> HIDE DEF n
<1>. QED BY <1>2, <1>3 DEF Block

\* A timer has dealt with one block: its fields are new, its state is not.
DealtWith(p, b) ==
    /\ StackOK(tcp') /\ tcp'.active = tcp.active
    /\ tcp'.changed \in {tcp.changed, FALSE}
    /\ tcp'.pcb[p].state = b.state /\ tcp'.pcb[p].lag = 0
    /\ \A q \in Pcb \ {p} : tcp'.pcb[q] = tcp.pcb[q]

LEMMA SlowPollEffect ==
    ASSUME StackOK(tcp), timer \in TimerType, SlowPoll
    PROVE  timer.cur \in Pcb /\ DealtWith(timer.cur, tcp.pcb[timer.cur])
<1> DEFINE p == timer.cur
           b == Retransmit(tcp.pcb[p])
           u == WithBlock(tcp, p, b)
<1>1. p \in Pcb /\ ~Expires(tcp.pcb[p])
  BY DEF SlowPoll, Walking, TimerType
<1>2. tcp' = u \/ tcp' = Flag(u, FALSE)
  BY DEF SlowPoll, Calls, WithBlock, Flag
<1> HIDE DEF p
<1>3. tcp \in Stack /\ tcp.pcb[p] \in Block
  BY <1>1, BlockFacts
<1>4. /\ b \in Block /\ b.state = tcp.pcb[p].state /\ b.port = tcp.pcb[p].port
      /\ b.rxclosed = tcp.pcb[p].rxclosed /\ b.lag = 0
  BY <1>1, <1>3, RetransmitBlock
<1> HIDE DEF b
<1>5. Touches(tcp, u, p) /\ SameLists(tcp, u) /\ u.held = tcp.held /\ u.pcb[p] = b
  BY <1>1, <1>3, <1>4, SetBlock
<1> HIDE DEF u
<1>6. Step(tcp, u, p)
  BY <1>1, <1>4, <1>5, BlockFacts, DataStep DEF SameLists, Touches
<1>7. StackOK(u)
  BY <1>1, <1>6, StepCarries DEF Carries
<1>8. FALSE \in BOOLEAN
  OBVIOUS
<1>9. /\ StackOK(tcp') /\ tcp'.active = u.active /\ tcp'.pcb = u.pcb
      /\ tcp'.changed \in {u.changed, FALSE}
  BY <1>2, <1>7, <1>8, Flagged
<1>. QED BY <1>1, <1>4, <1>5, <1>9 DEF DealtWith, SameLists, Touches, p

LEMMA FastVisitEffect ==
    ASSUME StackOK(tcp), timer \in TimerType, FastVisit
    PROVE  timer.cur \in Pcb /\ DealtWith(timer.cur, tcp.pcb[timer.cur])
<1> DEFINE p == timer.cur
           b == [tcp.pcb[p] EXCEPT !.lag = 0]
           u == WithBlock(tcp, p, b)
           w == [u EXCEPT !.pcb[p].refused = "none"]
<1>1. p \in Pcb
  BY DEF FastVisit, Walking, TimerType
<1>2. tcp' = u \/ tcp' = Flag(w, FALSE)
  <2>1. \/ tcp' = u
        \/ tcp' = [u EXCEPT !.pcb[p].refused = "none", !.changed = FALSE]
    BY DEF FastVisit, OffersRefused, WithBlock
  <2>. QED BY <2>1 DEF Flag
<1> HIDE DEF p
<1>3. tcp \in Stack /\ tcp.pcb[p] \in Block
  BY <1>1, BlockFacts
<1>4. /\ b \in Block /\ b.state = tcp.pcb[p].state /\ b.port = tcp.pcb[p].port
      /\ b.rxclosed = tcp.pcb[p].rxclosed /\ b.lag = 0
  <2>1. 0 \in 0..(TIMER_CTR - 1)
    BY ConstantTypes
  <2>. QED BY <1>3, <2>1 DEF Block
<1> HIDE DEF b
<1>5. Touches(tcp, u, p) /\ SameLists(tcp, u) /\ u.held = tcp.held /\ u.pcb[p] = b
  BY <1>1, <1>3, <1>4, SetBlock
<1> HIDE DEF u
<1>6. Step(tcp, u, p)
  BY <1>1, <1>4, <1>5, BlockFacts, DataStep DEF SameLists, Touches
<1>7. StackOK(u) /\ u \in Stack
  BY <1>1, <1>6, StepCarries DEF Carries, StackOK
<1>8. Gentle(u, w, p)
  BY <1>1, <1>7, SetRefused
<1> HIDE DEF w
<1>9. StackOK(w)
  BY <1>1, <1>7, <1>8, GentleStep, StepCarries DEF Carries
<1>10. FALSE \in BOOLEAN
  OBVIOUS
<1>11. \/ tcp' = u
       \/ /\ StackOK(tcp') /\ tcp'.active = w.active /\ tcp'.pcb = w.pcb
          /\ tcp'.changed = FALSE
  BY <1>2, <1>9, <1>10, Flagged
<1>12. DealtWith(p, tcp.pcb[p])
  BY <1>4, <1>5, <1>7, <1>8, <1>11 DEF DealtWith, SameLists, Touches, Gentle, SameBlock
<1>. QED BY <1>1, <1>12 DEF p

\* Refused data are offered, or refused again: the block stays where it is.
Reoffered ==
    /\ StackOK(tcp') /\ tcp'.active = tcp.active /\ tcp'.changed = FALSE
    /\ \A q \in Pcb : /\ tcp'.pcb[q].state = tcp.pcb[q].state
                      /\ tcp'.pcb[q].lag = tcp.pcb[q].lag

LEMMA ReofferEffect ==
    ASSUME StackOK(tcp), NEW p \in Pcb, NEW r \in {"none", "data", "fin"},
           tcp' = [tcp EXCEPT !.pcb[p].refused = r, !.changed = FALSE]
    PROVE  Reoffered
<1> DEFINE u == [tcp EXCEPT !.pcb[p].refused = r]
<1>1. tcp \in Stack
  BY DEF StackOK
<1>2. tcp' = Flag(u, FALSE)
  BY DEF Flag
<1>3. Gentle(tcp, u, p)
  BY <1>1, SetRefused
<1> HIDE DEF u
<1>4. StackOK(u)
  BY <1>3, GentleStep, StepCarries DEF Carries
<1>5. FALSE \in BOOLEAN
  OBVIOUS
<1>6. /\ StackOK(tcp') /\ tcp'.active = u.active /\ tcp'.pcb = u.pcb
      /\ tcp'.changed = FALSE
  BY <1>2, <1>4, <1>5, Flagged
<1>. QED BY <1>3, <1>6 DEF Reoffered, Gentle, SameLists, SameBlock, Touches

\* A block that is old goes off the list of TIME_WAIT.
LEMMA SlowTimeWaitEffect ==
    ASSUME StackOK(tcp), SlowTimeWait
    PROVE  Carries(tcp, tcp') /\ tcp'.active = tcp.active /\ tcp'.changed = tcp.changed
           /\ \A q \in Pcb : \/ tcp'.pcb[q] = tcp.pcb[q]
                             \/ /\ tcp'.pcb[q].state = "FREE"
                                /\ tcp.pcb[q].state = "TIME_WAIT"
<1>1. tcp \in Stack /\ IsInjective(tcp.tw) /\ tcp.tw \in Seq(Pcb)
  BY StackFields DEF StackOK
<1>2. PICK p \in OldInTimeWait : tcp' = memp_free([tcp EXCEPT !.tw = RemoveFirst(@, p)], p)
  BY DEF SlowTimeWait
<1>3. p \in Pcb /\ p \in ToSet(tcp.tw)
  BY <1>1, ListMembers DEF OldInTimeWait
<1>4. tcp.pcb[p].state = "TIME_WAIT" /\ p \notin tcp.held /\ p \notin tcp.bound
  BY <1>3, BlockFacts
<1>5. RemoveFirst(tcp.tw, p) \in Seq(Pcb)
  BY <1>1, RemoveFromList
<1> DEFINE w == [tcp EXCEPT !.tw = RemoveFirst(@, p)]
           u == memp_free(w, p)
<1>6. /\ w \in Stack /\ Touches(tcp, w, p) /\ w.active = tcp.active /\ w.bound = tcp.bound
      /\ w.tw = RemoveFirst(tcp.tw, p) /\ w.held = tcp.held /\ w.changed = tcp.changed
  BY <1>1, <1>5 DEF Stack, Touches
<1>7. tcp' = u
  BY <1>2
<1> HIDE DEF w
<1>8. Touches(w, u, p) /\ SameLists(w, u) /\ u.held = w.held /\ u.pcb[p] = FreeBlock
  BY <1>3, <1>6, MempFree
<1> HIDE DEF u
<1>9. Touches(tcp, u, p)
  BY <1>6, <1>8, TouchesTwice
<1>10. /\ u.active = tcp.active /\ u.changed = tcp.changed /\ tcp.pcb[p].state \notin Active
       /\ u.tw = RemoveFirst(tcp.tw, p) /\ u.bound = tcp.bound /\ u.held = tcp.held
  BY <1>4, <1>6, <1>8 DEF SameLists, Active
<1>11. Step(tcp, u, p)
  BY <1>3, <1>4, <1>8, <1>9, <1>10, GoneStep
<1>12. Carries(tcp, u)
  BY <1>3, <1>11, StepCarries
<1>. QED BY <1>4, <1>7, <1>8, <1>9, <1>10, <1>12, FreeBlocks DEF Touches

\* The slow timer unlinks the block at position k, and frees it.
LEMMA SlowRemoveEffect ==
    ASSUME StackOK(tcp), timer \in TimerType, SlowRemove,
           NEW k \in 1..Len(tcp.active), tcp.active[k] = timer.cur,
           NEW j \in 0..(k - 1), timer.prev = IF j = 0 THEN NULL ELSE tcp.active[j]
    PROVE  /\ StackOK(tcp') /\ tcp'.changed \in {tcp.changed, FALSE}
           /\ Len(tcp'.active) = Len(tcp.active) - (k - j)
           /\ \A i \in 1..Len(tcp'.active) :
                tcp'.active[i] = IF i <= j THEN tcp.active[i] ELSE tcp.active[i + (k - j)]
           /\ j = k - 1 => \A q \in ToSet(tcp.active) :
                             q # timer.cur => q \in ToSet(tcp'.active)
           /\ tcp'.pcb[timer.cur].state = "FREE"
           /\ \A q \in Pcb : q # timer.cur => tcp'.pcb[q] = tcp.pcb[q]
<1> DEFINE p == timer.cur
           list == tcp.active
           rest == Unlink(list, timer.prev, p)
           purged == tcp_pcb_purge(tcp, p)
           w == [purged EXCEPT !.active = rest]
           freed == memp_free(w, p)
           u == TCP_EVENT_ERR(freed, p)
<1>1. tcp \in Stack /\ list \in Seq(Pcb) /\ IsInjective(list) /\ p \in ToSet(list) /\ p \in Pcb
  <2>1. tcp \in Stack /\ list \in Seq(Pcb) /\ IsInjective(list)
    BY StackFields DEF StackOK
  <2>. QED BY <2>1, ListMembers
<1>2. p \notin tcp.bound /\ p \notin ToSet(tcp.tw)
  BY <1>1, BlockFacts DEF Active
<1>3. /\ rest \in Seq(Pcb) /\ Len(rest) = Len(list) - (k - j)
      /\ \A i \in 1..Len(rest) : rest[i] = IF i <= j THEN list[i] ELSE list[i + (k - j)]
  <2>1. k \in 1..Len(list) /\ p = list[k]
    OBVIOUS
  <2> DEFINE prev == timer.prev
  <2>2. prev = IF j = 0 THEN NULL ELSE list[j]
    OBVIOUS
  <2> HIDE DEF list, p, rest, prev
  <2>3. Cut(list, Unlink(list, prev, list[k]), j, k)
    BY ONLY <1>1, <2>1, <2>2, UnlinkFromList, j \in 0..(k - 1)
  <2>. QED BY <2>1, <2>3 DEF rest, prev, Cut
<1>4. tcp' = u \/ tcp' = Flag(u, FALSE)
  <2>1. Touches(tcp, purged, p) /\ SameLists(tcp, purged)
    BY <1>1, Purge
  <2>2. purged.active = tcp.active
    BY <2>1 DEF SameLists
  <2>3. \/ tcp' = TCP_EVENT_ERR(memp_free([purged EXCEPT !.active =
                                  Unlink(purged.active, timer.prev, p)], p), p)
        \/ tcp' = [TCP_EVENT_ERR(memp_free([purged EXCEPT !.active =
                                  Unlink(purged.active, timer.prev, p)], p), p)
                     EXCEPT !.changed = FALSE]
    BY DEF SlowRemove, Calls
  <2>. QED BY <2>2, <2>3 DEF Flag
<1> HIDE DEF rest
<1>5. /\ IsInjective(rest)
      /\ \A q : q \in ToSet(rest) => q \in ToSet(list) /\ q # p
      /\ j = k - 1 => \A q \in ToSet(list) : q # p => q \in ToSet(rest)
  <2>1. k \in 1..Len(list) /\ p = list[k]
    OBVIOUS
  <2> HIDE DEF list, p
  <2>2. /\ IsInjective(rest)
        /\ \A q : q \in ToSet(rest) => q \in ToSet(list) /\ q # list[k]
        /\ j = k - 1 => \A q \in ToSet(list) : q # list[k] => q \in ToSet(rest)
    BY ONLY <1>1, <1>3, <2>1, CutList, j \in 0..(k - 1)
  <2>. QED BY <2>1, <2>2
<1>6. Touches(tcp, purged, p) /\ SameLists(tcp, purged) /\ purged.held = tcp.held
  BY <1>1, Purge
<1> HIDE DEF purged
<1>7. /\ w \in Stack /\ Touches(purged, w, p) /\ w.active = rest /\ w.tw = purged.tw
      /\ w.bound = purged.bound /\ w.held = purged.held /\ w.changed = purged.changed
  BY <1>3, <1>6 DEF Stack, Touches
<1> HIDE DEF w
<1>8. Touches(w, freed, p) /\ SameLists(w, freed) /\ freed.held = w.held
        /\ freed.pcb[p] = FreeBlock
  BY <1>1, <1>7, MempFree
<1> HIDE DEF freed
<1>9. /\ Touches(freed, u, p) /\ SameLists(freed, u) /\ u.pcb = freed.pcb
      /\ u.held = freed.held \ {p}
  BY <1>1, <1>8, EventErr DEF Touches
<1> HIDE DEF u
<1>10. Touches(tcp, u, p)
  BY <1>6, <1>7, <1>8, <1>9, TouchesTwice
<1>11. /\ u.active = rest /\ u.tw = tcp.tw /\ u.bound = tcp.bound
       /\ u.held = tcp.held \ {p} /\ u.changed = tcp.changed /\ u.pcb[p] = FreeBlock
  BY <1>6, <1>7, <1>8, <1>9 DEF SameLists
<1>12. IsInjective(u.tw)
  BY <1>11 DEF StackOK
<1> HIDE DEF list, p
<1>13. OneBlock(tcp, u, p)
  BY <1>5, <1>10, <1>11, <1>12 DEF OneBlock, list
<1>14. BlockOK(u, p) /\ PortKept(tcp, u, p)
  BY <1>2, <1>5, <1>11, FreeBlocks DEF BlockOK, PortKept
<1>15. StackOK(u)
  BY <1>1, <1>13, <1>14, OneBlockKeeps
<1>16. FALSE \in BOOLEAN
  OBVIOUS
<1>17. /\ StackOK(tcp') /\ tcp'.active = rest /\ tcp'.pcb = u.pcb
       /\ tcp'.changed \in {tcp.changed, FALSE}
  BY <1>4, <1>11, <1>15, <1>16, Flagged
<1>18. tcp'.pcb[p].state = "FREE" /\ \A q \in Pcb : q # p => tcp'.pcb[q] = tcp.pcb[q]
  BY <1>10, <1>11, <1>17, FreeBlocks DEF Touches
<1>. QED BY <1>3, <1>5, <1>17, <1>18 DEF list, p

-----------------------------------------------------------------------------
(* The invariant of every application                                       *)

\* Where a walk stands when it is at a block: at k, with the block noted as the
\* one before at j, or none noted.
LEMMA PlaceOnList ==
    ASSUME NEW list \in Seq(Pcb), NEW cur \in Pcb, NEW prev, Place(list, cur, prev)
    PROVE  \E k \in 1..Len(list) : \E j \in 0..(k - 1) :
             list[k] = cur /\ prev = IF j = 0 THEN NULL ELSE list[j]
<1>1. PICK k \in 1..Len(list) :
         /\ list[k] = cur
         /\ prev # NULL => \E j \in 1..(k - 1) : list[j] = prev
  BY TcpAssumption DEF Place
<1>2. CASE prev = NULL
  <2>1. 0 \in 0..(k - 1)
    OBVIOUS
  <2>. QED BY <1>1, <1>2, <2>1
<1>3. CASE prev # NULL
  <2>1. PICK j \in 1..(k - 1) : list[j] = prev
    BY <1>1, <1>3
  <2>2. j \in 0..(k - 1) /\ j # 0
    OBVIOUS
  <2>. QED BY <1>1, <2>1, <2>2
<1>. QED BY <1>2, <1>3

\* A walk goes on to the next block, past one that stays on the list.
LEMMA PlaceMovesOn ==
    ASSUME NEW list \in Seq(Pcb), IsInjective(list), NEW cur \in Pcb, NEW prev,
           Place(list, cur, prev)
    PROVE  Place(list, Succ(list, cur), prev) /\ Place(list, Succ(list, cur), cur)
<1>1. PICK k \in 1..Len(list) :
         /\ list[k] = cur
         /\ prev # NULL => \E j \in 1..(k - 1) : list[j] = prev
  BY TcpAssumption DEF Place
<1>2. Succ(list, cur) = IF k < Len(list) THEN list[k + 1] ELSE NULL
  BY <1>1, NextOnList
<1>3. CASE k < Len(list)
  <2>1. k + 1 \in 1..Len(list) /\ k \in 1..((k + 1) - 1)
        /\ \A j \in 1..(k - 1) : j \in 1..((k + 1) - 1)
    BY <1>3
  <2>. QED BY <1>1, <1>2, <1>3, <2>1 DEF Place
<1>4. CASE ~(k < Len(list))
  BY <1>2, <1>4 DEF Place
<1>. QED BY <1>3, <1>4

\* After an unlinking the walk is where the block was.
LEMMA PlaceAfterUnlink ==
    ASSUME NEW list \in Seq(Pcb), IsInjective(list), NEW k \in 1..Len(list),
           NEW j \in 0..(k - 1), NEW prev, prev = IF j = 0 THEN NULL ELSE list[j],
           NEW rest, Len(rest) = Len(list) - (k - j),
           \A i \in 1..Len(rest) : rest[i] = IF i <= j THEN list[i] ELSE list[i + (k - j)]
    PROVE  Place(rest, Succ(list, list[k]), prev)
<1>1. Succ(list, list[k]) = IF k < Len(list) THEN list[k + 1] ELSE NULL
  BY NextOnList
<1>2. CASE k < Len(list)
  <2>1. /\ j + 1 \in 1..Len(rest) /\ ~(j + 1 <= j) /\ (j + 1) + (k - j) = k + 1
        /\ j # 0 => j \in 1..Len(rest) /\ j \in 1..((j + 1) - 1)
    BY <1>2
  <2>2. rest[j + 1] = list[k + 1] /\ (j # 0 => rest[j] = list[j])
    BY <2>1
  <2>. QED BY <1>1, <1>2, <2>1, <2>2 DEF Place
<1>3. CASE ~(k < Len(list))
  BY <1>1, <1>3 DEF Place
<1>. QED BY <1>2, <1>3

LEMMA TcpInitInv == TcpInit => TcpInv
<1> SUFFICES ASSUME TcpInit PROVE TcpInv
  OBVIOUS
<1>1. /\ FreeBlock \in Block /\ FreeBlock.state = "FREE" /\ TCP_PRIO_NORMAL \in Prios
      /\ 0 \in Ports
  BY FreeBlocks, TcpAssumption DEF Ports
<1>2. /\ tcp.pcb = [p \in Pcb |-> FreeBlock] /\ tcp.listen = {} /\ tcp.bound = {}
      /\ tcp.active = <<>> /\ tcp.tw = <<>> /\ tcp.changed = FALSE /\ tcp.held = {}
      /\ tcp.lpcb = [l \in ListenPcb |-> FreeListener]
      /\ timer = NoTimer /\ silent = FALSE
  BY DEF TcpInit
<1>3. tcp \in Stack
  <2>1. /\ [p \in Pcb |-> FreeBlock] \in [Pcb -> Block]
        /\ [l \in ListenPcb |-> FreeListener] \in [ListenPcb -> Listener]
    BY <1>1, TcpAssumption DEF FreeListener, Listener
  <2>2. <<>> \in Seq(Pcb)
    OBVIOUS
  <2> HIDE DEF Stack
  <2>3. tcp = [pcb |-> [p \in Pcb |-> FreeBlock],
               lpcb |-> [l \in ListenPcb |-> FreeListener],
               listen |-> {}, bound |-> {}, active |-> <<>>, tw |-> <<>>,
               changed |-> FALSE, held |-> {}, lost |-> {}]
    BY DEF TcpInit
  <2>. QED BY <2>1, <2>2, <2>3 DEF Stack
<1>4. IsInjective(tcp.active) /\ IsInjective(tcp.tw)
  BY <1>2 DEF IsInjective
<1>5. ASSUME NEW p \in Pcb PROVE BlockOK(tcp, p)
  BY <1>1, <1>2 DEF BlockOK, ToSet
<1>6. Reserved(tcp)
  BY <1>2 DEF Reserved, Reserving
<1>7. TimerOK
  BY <1>2 DEF TimerOK, NoTimer, TimerType, InCallback, Place
<1>. QED BY <1>2, <1>3, <1>4, <1>5, <1>6, <1>7 DEF TcpInv, StackOK

\* A step that leaves the active list and the walk alone.
LEMMA SameWalk ==
    ASSUME TcpInv, StackOK(tcp'), TimerKept,
           InCallback /\ tcp'.changed = FALSE => /\ tcp'.active = tcp.active
                                                 /\ tcp.changed = FALSE,
           Idle \/ InCallback \/ UNCHANGED tcp
    PROVE  TcpInv'
<1>1. InCallback' <=> InCallback
  BY DEF InCallback, TimerKept
<1>2. tcp'.changed \in BOOLEAN
  BY StackFields DEF StackOK
<1>3. timer'.which = "none" => timer'.cur = NULL /\ timer'.callback = "none"
  BY DEF TcpInv, TimerOK, TimerKept
<1>4. ASSUME ~(InCallback' /\ tcp'.changed)
      PROVE  Place(tcp'.active, timer'.cur, timer'.prev)
  <2>1. CASE Idle
    BY <1>3, <2>1 DEF Idle, TimerKept, Place
  <2>2. CASE InCallback
    BY <1>1, <1>2, <1>4, <2>2 DEF TcpInv, TimerOK, TimerKept
  <2>3. CASE UNCHANGED tcp
    BY <1>1, <1>4, <2>3 DEF TcpInv, TimerOK, TimerKept
  <2>. QED BY <2>1, <2>2, <2>3
<1>5. TimerOK'
  BY <1>1, <1>3, <1>4 DEF TimerOK, TimerKept
<1>. QED BY <1>5 DEF TcpInv, TimerKept

\* A timer that is not in a callback, and is at no block or at one of the list.
LEMMA NewWalk ==
    ASSUME StackOK(tcp'), silent' \in BOOLEAN, timer' \in TimerType,
           timer'.which = "none" => timer'.cur = NULL /\ timer'.callback = "none",
           Place(tcp'.active, timer'.cur, timer'.prev)
    PROVE  TcpInv'
BY DEF TcpInv, TimerOK

LEMMA TimerFields ==
    ASSUME timer \in TimerType
    PROVE  /\ timer.which \in {"none", "slow", "fast", "input"}
           /\ timer.cur \in Pcb \cup {NULL} /\ timer.prev \in Pcb \cup {NULL}
           /\ timer.callback \in {"none", "err", "poll", "recv", "closed"}
           /\ timer.who \in Pcb \cup {NULL}
           /\ timer.fin \in BOOLEAN /\ timer.aborted \in BOOLEAN
BY DEF TimerType

LEMMA AtABlock ==
    ASSUME TcpInv, timer.callback = "none"
    PROVE  /\ StackOK(tcp) /\ timer \in TimerType /\ silent \in BOOLEAN
           /\ tcp.active \in Seq(Pcb) /\ IsInjective(tcp.active)
           /\ Place(tcp.active, timer.cur, timer.prev)
           /\ timer.cur # NULL => timer.cur \in Pcb
<1>1. StackOK(tcp) /\ timer \in TimerType /\ silent \in BOOLEAN
  BY DEF TcpInv, TimerOK
<1>2. tcp.active \in Seq(Pcb) /\ IsInjective(tcp.active)
  BY <1>1, StackFields DEF StackOK
<1>3. timer.cur # NULL => timer.cur \in Pcb
  BY <1>1, TimerFields
<1>. QED BY <1>1, <1>2, <1>3 DEF TcpInv, TimerOK, InCallback

LEMMA StartTimerKeeps ==
    ASSUME TcpInv, NEW which \in {"slow", "fast"}, StartTimer(which)
    PROVE  TcpInv'
<1>1. StackOK(tcp) /\ silent \in BOOLEAN /\ Idle
  BY DEF TcpInv, StartTimer
<1>2. tcp' = Tick(tcp, which = "slow") /\ (which = "slow") \in BOOLEAN
  BY DEF StartTimer
<1>3. StackOK(tcp') /\ tcp'.active = tcp.active
  BY <1>1, <1>2, TickKeeps
<1>4. tcp.active \in Seq(Pcb)
  BY <1>1, StackFields DEF StackOK
<1>5. /\ timer'.which = which /\ timer'.callback = "none" /\ timer'.prev = NULL
      /\ timer'.cur = First(tcp.active) /\ timer' = [NoTimer EXCEPT !.which = which,
                                                       !.cur = First(tcp.active)]
  BY DEF StartTimer, NoTimer
<1>6. First(tcp.active) = IF Len(tcp.active) = 0 THEN NULL ELSE tcp.active[1]
  BY <1>4, FirstOnList
<1>7. Place(tcp'.active, timer'.cur, timer'.prev)
  <2>1. CASE Len(tcp.active) = 0
    BY <1>5, <1>6, <2>1 DEF Place
  <2>2. CASE Len(tcp.active) # 0
    <3>1. 1 \in 1..Len(tcp.active)
      BY <1>4, <2>2
    <3>. QED BY <1>3, <1>5, <1>6, <2>2, <3>1 DEF Place
  <2>. QED BY <2>1, <2>2
<1>8. timer' \in TimerType
  <2>1. First(tcp.active) \in Pcb \cup {NULL}
    <3>1. Len(tcp.active) # 0 => 1 \in 1..Len(tcp.active)
      BY <1>4
    <3>. QED BY <1>4, <1>6, <3>1
  <2>. QED BY <1>5, <2>1 DEF NoTimer, TimerType
<1>9. silent' \in BOOLEAN
  BY <1>1 DEF StartTimer
<1>. QED BY <1>3, <1>5, <1>7, <1>8, <1>9, NewWalk

LEMMA SuccType ==
    ASSUME NEW list \in Seq(Pcb), NEW p
    PROVE  Succ(list, p) \in Pcb \cup {NULL}
<1> DEFINE later == {i \in 2..Len(list) : list[i - 1] = p}
<1>1. later # {} => (CHOOSE i \in later : TRUE) \in later
  OBVIOUS
<1>2. \A i \in later : list[i] \in Pcb
  OBVIOUS
<1>. QED BY <1>1, <1>2 DEF Succ

LEMMA SlowSkipKeeps ==
    ASSUME TcpInv, SlowSkip
    PROVE  TcpInv'
<1>1. timer.callback = "none" /\ timer.cur # NULL /\ timer.which = "slow"
  BY DEF SlowSkip, Walking
<1>2. /\ StackOK(tcp) /\ timer \in TimerType /\ silent \in BOOLEAN
      /\ tcp.active \in Seq(Pcb) /\ IsInjective(tcp.active)
      /\ Place(tcp.active, timer.cur, timer.prev) /\ timer.cur \in Pcb
  BY <1>1, AtABlock
<1>3. tcp' = tcp /\ silent' = silent /\ timer' = [timer EXCEPT !.cur = Succ(tcp.active, @)]
  BY DEF SlowSkip
<1>4. Place(tcp.active, Succ(tcp.active, timer.cur), timer.prev)
  BY <1>2, PlaceMovesOn
<1>5. Succ(tcp.active, timer.cur) \in Pcb \cup {NULL}
  BY <1>2, SuccType
<1>6. /\ timer' \in TimerType /\ timer'.which = "slow" /\ timer'.prev = timer.prev
      /\ timer'.cur = Succ(tcp.active, timer.cur)
  BY <1>1, <1>2, <1>3, <1>5 DEF TimerType
<1>. QED BY <1>2, <1>3, <1>4, <1>6, NewWalk

LEMMA SlowRemoveKeeps ==
    ASSUME TcpInv, SlowRemove
    PROVE  TcpInv'
<1>1. timer.callback = "none" /\ timer.cur # NULL /\ timer.which = "slow"
  BY DEF SlowRemove, Walking
<1>2. /\ StackOK(tcp) /\ timer \in TimerType /\ silent \in BOOLEAN
      /\ tcp.active \in Seq(Pcb) /\ IsInjective(tcp.active)
      /\ Place(tcp.active, timer.cur, timer.prev) /\ timer.cur \in Pcb
  BY <1>1, AtABlock
<1> DEFINE list == tcp.active
<1>3. PICK k \in 1..Len(list) : \E j \in 0..(k - 1) :
        list[k] = timer.cur /\ timer.prev = IF j = 0 THEN NULL ELSE list[j]
  BY <1>2, PlaceOnList
<1>4. PICK j \in 0..(k - 1) :
        list[k] = timer.cur /\ timer.prev = IF j = 0 THEN NULL ELSE list[j]
  BY <1>3
<1>5. /\ StackOK(tcp') /\ Len(tcp'.active) = Len(list) - (k - j)
      /\ \A i \in 1..Len(tcp'.active) :
           tcp'.active[i] = IF i <= j THEN list[i] ELSE list[i + (k - j)]
  BY <1>2, <1>4, SlowRemoveEffect
<1>6. Succ(list, timer.cur) \in Pcb \cup {NULL}
  BY <1>2, SuccType
<1>7. /\ timer' \in TimerType /\ timer'.which = "slow" /\ timer'.prev = timer.prev
      /\ timer'.cur = Succ(list, timer.cur) /\ silent' = silent
  <2> DEFINE next == Succ(list, timer.cur)
  <2>1. \/ timer' = [timer EXCEPT !.callback = "err", !.who = timer.cur,
                       !.aborted = FALSE, !.cur = next]
        \/ timer' = [timer EXCEPT !.cur = next]
    BY <1>2 DEF SlowRemove, Calls, TimerType
  <2> HIDE DEF next
  <2>2. timer' \in TimerType /\ timer'.which = timer.which /\ timer'.prev = timer.prev
          /\ timer'.cur = next
    BY <1>2, <1>6, <2>1 DEF TimerType, next
  <2>. QED BY <1>1, <2>2 DEF SlowRemove, next
<1> DEFINE rest == tcp'.active
           prev == timer.prev
<1>8. Place(rest, Succ(list, list[k]), prev)
  <2>1. prev = IF j = 0 THEN NULL ELSE list[j]
    BY <1>4
  <2>2. Len(rest) = Len(list) - (k - j)
        /\ \A i \in 1..Len(rest) : rest[i] = IF i <= j THEN list[i] ELSE list[i + (k - j)]
    BY <1>5
  <2>3. list \in Seq(Pcb) /\ IsInjective(list)
    BY <1>2
  <2> HIDE DEF list, rest, prev
  <2>. QED BY ONLY <2>1, <2>2, <2>3, PlaceAfterUnlink, k \in 1..Len(list), j \in 0..(k - 1)
<1>. QED BY <1>2, <1>4, <1>5, <1>7, <1>8, NewWalk

LEMMA SlowPollKeeps ==
    ASSUME TcpInv, SlowPoll
    PROVE  TcpInv'
<1>1. timer.callback = "none" /\ timer.cur # NULL /\ timer.which = "slow"
  BY DEF SlowPoll, Walking
<1>2. /\ StackOK(tcp) /\ timer \in TimerType /\ silent \in BOOLEAN
      /\ tcp.active \in Seq(Pcb) /\ IsInjective(tcp.active)
      /\ Place(tcp.active, timer.cur, timer.prev) /\ timer.cur \in Pcb
  BY <1>1, AtABlock
<1>3. StackOK(tcp') /\ tcp'.active = tcp.active
  BY <1>2, SlowPollEffect DEF DealtWith
<1>4. Place(tcp.active, Succ(tcp.active, timer.cur), timer.cur)
  BY <1>2, PlaceMovesOn
<1>5. Succ(tcp.active, timer.cur) \in Pcb \cup {NULL}
  BY <1>2, SuccType
<1>6. /\ timer' \in TimerType /\ timer'.which = "slow" /\ timer'.prev = timer.cur
      /\ timer'.cur = Succ(tcp.active, timer.cur) /\ silent' = silent
  <2> DEFINE next == Succ(tcp.active, timer.cur)
  <2>1. \/ timer' = [timer EXCEPT !.callback = "poll", !.who = timer.cur,
                       !.aborted = FALSE, !.prev = timer.cur, !.cur = next]
        \/ timer' = [timer EXCEPT !.prev = timer.cur, !.cur = next]
    BY DEF SlowPoll, Calls
  <2> HIDE DEF next
  <2>2. timer' \in TimerType /\ timer'.which = timer.which /\ timer'.prev = timer.cur
          /\ timer'.cur = next
    BY <1>2, <1>5, <2>1 DEF TimerType, next
  <2>. QED BY <1>1, <2>2 DEF SlowPoll, next
<1>. QED BY <1>2, <1>3, <1>4, <1>6, NewWalk

LEMMA SlowTimeWaitKeeps ==
    ASSUME TcpInv, SlowTimeWait
    PROVE  TcpInv'
<1>1. /\ timer.callback = "none" /\ timer.cur = NULL /\ timer.which = "slow"
      /\ timer' = timer /\ silent' = silent
  BY DEF SlowTimeWait, WalkedActive
<1>2. StackOK(tcp) /\ timer \in TimerType /\ silent \in BOOLEAN
  BY <1>1, AtABlock
<1>3. StackOK(tcp')
  BY <1>2, SlowTimeWaitEffect DEF Carries
<1>. QED BY <1>1, <1>2, <1>3, NewWalk DEF Place

LEMMA WalkEndKeeps ==
    ASSUME TcpInv, SlowEnd \/ FastEnd
    PROVE  TcpInv'
<1>1. timer' = NoTimer /\ tcp' = tcp /\ silent' = silent
  BY DEF SlowEnd, FastEnd
<1>2. StackOK(tcp) /\ silent \in BOOLEAN
  BY DEF TcpInv
<1>. QED BY <1>1, <1>2, NewWalk DEF NoTimer, TimerType, Place

LEMMA FastVisitKeeps ==
    ASSUME TcpInv, FastVisit
    PROVE  TcpInv'
<1>1. timer.callback = "none" /\ timer.cur # NULL /\ timer.which = "fast"
  BY DEF FastVisit, Walking
<1>2. /\ StackOK(tcp) /\ timer \in TimerType /\ silent \in BOOLEAN
      /\ tcp.active \in Seq(Pcb) /\ IsInjective(tcp.active)
      /\ Place(tcp.active, timer.cur, timer.prev) /\ timer.cur \in Pcb
  BY <1>1, AtABlock
<1>3. StackOK(tcp') /\ tcp'.active = tcp.active
  BY <1>2, FastVisitEffect DEF DealtWith
<1>4. Place(tcp.active, Succ(tcp.active, timer.cur), timer.prev)
  BY <1>2, PlaceMovesOn
<1>5. Place(tcp.active, Succ(tcp.active, timer.cur), NULL)
  BY <1>4 DEF Place
<1>6. Succ(tcp.active, timer.cur) \in Pcb \cup {NULL}
  BY <1>2, SuccType
<1>7. /\ timer' \in TimerType /\ timer'.which = "fast"
      /\ timer'.prev \in {timer.prev, NULL}
      /\ timer'.cur = Succ(tcp.active, timer.cur) /\ silent' = silent
  <2> DEFINE fin == tcp.pcb[timer.cur].refused = "fin"
             next == Succ(tcp.active, timer.cur)
  <2>1. \/ timer' = [NoTimer EXCEPT !.which = "fast", !.callback = "recv",
                       !.who = timer.cur, !.cur = next, !.fin = fin]
        \/ timer' = [timer EXCEPT !.cur = next]
    BY DEF FastVisit, OffersRefused
  <2>2. silent' = silent
    BY DEF FastVisit, OffersRefused
  <2>3. fin \in BOOLEAN /\ next \in Pcb \cup {NULL}
    BY <1>6
  <2> HIDE DEF fin, next
  <2>4. /\ timer' \in TimerType /\ timer'.which = "fast"
        /\ timer'.prev \in {timer.prev, NULL} /\ timer'.cur = next
    BY <1>1, <1>2, <2>1, <2>3 DEF NoTimer, TimerType
  <2>. QED BY <2>2, <2>4 DEF next
<1>. QED BY <1>2, <1>3, <1>4, <1>5, <1>7, NewWalk

LEMMA SegmentMeetsRefusedKeeps ==
    ASSUME TcpInv, NEW p \in Pcb, SegmentMeetsRefused(p)
    PROVE  TcpInv' /\ Reoffered
<1>1. StackOK(tcp) /\ silent \in BOOLEAN
  BY DEF TcpInv
<1> DEFINE fin == tcp.pcb[p].refused = "fin"
<1>2. /\ tcp' = [tcp EXCEPT !.pcb[p].refused = "none", !.changed = FALSE]
      /\ timer' = [NoTimer EXCEPT !.which = "input", !.callback = "recv", !.who = p,
                                  !.cur = NULL, !.fin = fin]
      /\ silent' = silent
  BY DEF SegmentMeetsRefused, OffersRefused
<1>3. Reoffered
  BY <1>1, <1>2, ReofferEffect
<1>4. fin \in BOOLEAN
  OBVIOUS
<1> HIDE DEF fin
<1>5. timer' \in TimerType /\ timer'.which = "input" /\ timer'.cur = NULL
  BY <1>2, <1>4 DEF NoTimer, TimerType
<1>. QED BY <1>1, <1>2, <1>3, <1>5, NewWalk DEF Reoffered, Place

\* The timer takes up the walk again: at the head when a callback changed the
\* list, at the block it noted otherwise.
LEMMA ResumeKeeps ==
    ASSUME TcpInv, InCallback, Resume, silent' = silent,
           StackOK(tcp'), tcp'.active = tcp.active
    PROVE  TcpInv'
<1>1. /\ StackOK(tcp) /\ timer \in TimerType /\ silent \in BOOLEAN
      /\ tcp.active \in Seq(Pcb) /\ tcp.changed \in BOOLEAN
  <2>1. StackOK(tcp) /\ timer \in TimerType /\ silent \in BOOLEAN
    BY DEF TcpInv, TimerOK
  <2>. QED BY <2>1, StackFields DEF StackOK
<1>2. CASE timer.which = "input"
  <2>1. timer' = NoTimer
    BY <1>2 DEF Resume
  <2>. QED BY <1>1, <2>1, NewWalk DEF NoTimer, TimerType, Place
<1>3. CASE timer.which # "input"
  <2>1. timer' = [timer EXCEPT !.callback = "none", !.who = NULL, !.aborted = FALSE,
                     !.cur = IF tcp.changed THEN First(tcp.active) ELSE timer.cur,
                     !.prev = IF tcp.changed THEN NULL ELSE timer.prev,
                     !.fin = FALSE]
    BY <1>3 DEF Resume
  <2>2. First(tcp.active) = IF Len(tcp.active) = 0 THEN NULL ELSE tcp.active[1]
    BY <1>1, FirstOnList
  <2>3. Len(tcp.active) # 0 => 1 \in 1..Len(tcp.active)
    BY <1>1
  <2>4. First(tcp.active) \in Pcb \cup {NULL}
    BY <1>1, <2>2, <2>3
  <2>5. timer' \in TimerType
    BY <1>1, <2>1, <2>4 DEF TimerType
  <2>6. /\ timer'.which # "none" /\ timer'.callback = "none"
        /\ timer'.cur = IF tcp.changed THEN First(tcp.active) ELSE timer.cur
        /\ timer'.prev = IF tcp.changed THEN NULL ELSE timer.prev
    BY <1>1, <2>1 DEF TimerType, TcpInv, TimerOK, InCallback
  <2>7. Place(tcp.active, timer'.cur, timer'.prev)
    <3>1. CASE tcp.changed = TRUE
      BY <2>2, <2>3, <2>6, <3>1 DEF Place
    <3>2. CASE tcp.changed = FALSE
      BY <2>6, <3>2 DEF TcpInv, TimerOK
    <3>. QED BY <1>1, <3>1, <3>2
  <2>. QED BY <1>1, <2>5, <2>6, <2>7, NewWalk
<1>. QED BY <1>2, <1>3

LEMMA CallbackReturnsKeeps ==
    ASSUME TcpInv, CallbackReturns
    PROVE  TcpInv'
<1>1. StackOK(tcp) /\ timer \in TimerType /\ silent \in BOOLEAN
  BY DEF TcpInv, TimerOK
<1>2. InCallback /\ silent' = silent
  BY DEF CallbackReturns
<1>3. CASE timer' = [timer EXCEPT !.callback = "closed", !.fin = FALSE] /\ tcp' = tcp
  <2>1. /\ timer' \in TimerType /\ timer'.which = timer.which /\ timer'.callback = "closed"
        /\ timer'.cur = timer.cur /\ timer'.prev = timer.prev
    BY <1>1, <1>3 DEF TimerType
  <2>2. TimerOK'
    BY <1>2, <1>3, <2>1 DEF TcpInv, TimerOK, InCallback
  <2>. QED BY <1>1, <1>2, <1>3, <2>2 DEF TcpInv
<1>4. CASE Resume /\ tcp' = [tcp EXCEPT !.changed = FALSE]
  <2>1. tcp' = Flag(tcp, FALSE) /\ FALSE \in BOOLEAN
    BY <1>4 DEF Flag
  <2>2. StackOK(tcp') /\ tcp'.active = tcp.active
    BY <1>1, <2>1, Flagged
  <2>. QED BY <1>2, <1>4, <2>2, ResumeKeeps
<1>. QED BY <1>3, <1>4 DEF CallbackReturns

LEMMA RecvRefusesKeeps ==
    ASSUME TcpInv, RecvRefuses
    PROVE  TcpInv' /\ Reoffered
<1>1. StackOK(tcp) /\ timer \in TimerType
  BY DEF TcpInv, TimerOK
<1> DEFINE r == IF timer.fin THEN "fin" ELSE "data"
<1>2. /\ InCallback /\ Resume /\ silent' = silent /\ timer.who \in tcp.held
      /\ tcp' = [tcp EXCEPT !.pcb[timer.who].refused = r, !.changed = FALSE]
  BY DEF RecvRefuses, InCallback
<1>3. timer.who \in Pcb /\ r \in {"none", "data", "fin"}
  BY <1>1, <1>2, StackFields DEF StackOK
<1> HIDE DEF r
<1>4. Reoffered
  BY <1>1, <1>2, <1>3, ReofferEffect
<1>. QED BY <1>2, <1>4, ResumeKeeps DEF Reoffered

\* No step of any application, peer or timer breaks the invariant.
LEMMA TcpInvIsKept == TcpInv /\ [TcpNext]_tcpVars => TcpInv'
<1> SUFFICES ASSUME TcpInv, [TcpNext]_tcpVars PROVE TcpInv'
  OBVIOUS
<1>1. StackOK(tcp) /\ timer \in TimerType /\ silent \in BOOLEAN
  BY DEF TcpInv, TimerOK
<1>2. CASE Application
  <2>1. Handled /\ AppRuns /\ TimerKept
    BY <1>1, <1>2, ApplicationHandled
  <2>2. /\ StackOK(tcp')
        /\ InCallback /\ tcp'.changed = FALSE => tcp'.active = tcp.active /\ tcp.changed = FALSE
    BY <1>1, <2>1, HandledKeeps
  <2>. QED BY <2>1, <2>2, SameWalk DEF AppRuns
<1>3. CASE Segments
  <2>1. ((Handled /\ Idle) \/ tcp' = tcp) /\ TimerKept
    BY <1>1, <1>3, SegmentsHandled
  <2>2. CASE Handled /\ Idle
    <3>1. /\ StackOK(tcp')
          /\ InCallback /\ tcp'.changed = FALSE =>
               tcp'.active = tcp.active /\ tcp.changed = FALSE
      BY <1>1, <2>2, HandledKeeps
    <3>. QED BY <2>1, <2>2, <3>1, SameWalk
  <2>3. CASE tcp' = tcp
    BY <1>1, <2>1, <2>3, SameWalk
  <2>. QED BY <2>1, <2>2, <2>3
<1>4. CASE \E which \in {"slow", "fast"} : StartTimer(which)
  BY <1>4, StartTimerKeeps
<1>5. CASE Timers
  <2>1. CASE FastSpin
    BY <2>1 DEF FastSpin, tcpVars, TcpInv, StackOK, TimerOK, InCallback
  <2>. QED BY <1>5, <2>1, SlowSkipKeeps, SlowRemoveKeeps, SlowPollKeeps, SlowTimeWaitKeeps,
              WalkEndKeeps, FastVisitKeeps, CallbackReturnsKeeps DEF Timers
<1>6. CASE \E p \in Pcb : SegmentMeetsRefused(p)
  BY <1>6, SegmentMeetsRefusedKeeps
<1>7. CASE RecvRefuses
  BY <1>7, RecvRefusesKeeps
<1>8. CASE UNCHANGED tcpVars
  BY <1>8 DEF tcpVars, TcpInv, StackOK, TimerOK, InCallback
<1>. QED BY <1>2, <1>3, <1>4, <1>5, <1>6, <1>7, <1>8 DEF TcpNext

THEOREM TcpInvHolds == TcpSpec => []TcpInv
<1>. QED BY TcpInitInv, TcpInvIsKept, PTL DEF TcpSpec

\* The fields of the stack and of the timer keep to their types: ages, retries
\* and the counter of 8 bits among them, whose increments no test bounds.
THEOREM TcpTypesCorrect == TcpSpec => []TcpTypeOK
<1>1. TcpInv => TcpTypeOK
  <2> SUFFICES ASSUME TcpInv PROVE TcpTypeOK
    OBVIOUS
  <2>1. tcp \in Stack /\ timer \in TimerType /\ silent \in BOOLEAN
    BY DEF TcpInv, StackOK, TimerOK
  <2>. QED BY <2>1, StackFields DEF TcpTypeOK, TimerType
<1>. QED BY <1>1, TcpInvHolds, PTL

\* Whatever the application calls, from callbacks too, and whatever the peers
\* send, no block it refers to is freed before it has been told (tcp_abandon,
\* tcp_slowtmr and tcp_close against the pointers of the caller).
THEOREM HandlesStayLive == TcpSpec => []HandlesAreLive
<1>1. TcpInv => HandlesAreLive
  <2> SUFFICES ASSUME TcpInv, NEW p \in tcp.held PROVE tcp.pcb[p].state # "FREE"
    BY DEF HandlesAreLive
  <2>1. StackOK(tcp) /\ p \in Pcb
    BY StackFields DEF TcpInv, StackOK
  <2>. QED BY <2>1, BlockFacts
<1>. QED BY <1>1, TcpInvHolds, PTL

\* For pools of any size a block that is allocated and not connected is referred
\* to by the application, unless tcp_listen found no listening block for it: no
\* other call, in the main loop or in a callback, no segment and no timer leaves
\* a block CLOSED that nobody can free (tcp.c:545-548 against 512-515).
THEOREM BlocksAreLostByListenOnly == TcpSpec => []LostOnlyByListen
<1>1. TcpInv => LostOnlyByListen
  BY BlockFacts DEF TcpInv, LostOnlyByListen
<1>. QED BY <1>1, TcpInvHolds, PTL

\* What tcp_bind and tcp_new_port look for, they keep: of the blocks that are
\* bound, and those that listen in the place of a bound one, no two have a port
\* in common, through tcp_listen, which moves a port from one pool to the other
\* and does not ask whether it was reserved, and tcp_connect, which, if it fails,
\* leaves a block a port that is not.
THEOREM PortsStayReserved == TcpSpec => []PortsReserved
<1>1. TcpInv => PortsReserved
  <2> SUFFICES ASSUME TcpInv PROVE PortsReserved
    OBVIOUS
  <2> DEFINE bound == {[b |-> p, port |-> tcp.pcb[p].port] : p \in tcp.bound}
             listening == {[b |-> l, port |-> tcp.lpcb[l].port] : l \in Reserving(tcp)}
  <2>1. Reserved(tcp)
    BY DEF TcpInv, StackOK
  <2>2. ASSUME NEW r \in bound \cup listening, NEW s \in bound \cup listening,
               r.port = s.port
        PROVE  r = s
    <3>1. CASE r \in bound /\ s \in bound
      BY <2>1, <2>2, <3>1 DEF Reserved
    <3>2. CASE r \in listening /\ s \in listening
      BY <2>1, <2>2, <3>2 DEF Reserved
    <3>3. CASE r \in bound /\ s \in listening
      BY <2>1, <2>2, <3>3 DEF Reserved
    <3>4. CASE r \in listening /\ s \in bound
      BY <2>1, <2>2, <3>4 DEF Reserved
    <3>. QED BY <3>1, <3>2, <3>3, <3>4
  <2>. QED BY <2>2 DEF PortsReserved, Reserving
<1>. QED BY <1>1, TcpInvHolds, PTL

\* In whatever order the active list has them, the victim of an allocation
\* without room is a candidate no other is both less important and older than.
THEOREM VictimNeverBeaten == TcpSpec => []VictimIsUnbeaten
<1>1. TcpInv => VictimIsUnbeaten
  <2>1. TcpInv => tcp \in Stack
    BY DEF TcpInv, StackOK
  <2>. QED BY <2>1, KillPrioPass DEF VictimIsUnbeaten
<1>. QED BY <1>1, TcpInvHolds, PTL

-----------------------------------------------------------------------------
(* The applications of the repository                                       *)

Connected(t) == \A p \in Pcb : t.pcb[p].state = "CLOSED" => t.pcb[p].lag = 0

\* What has to be shown of a step that ends with no walk in progress, and of one
\* that ends with one.
LEMMA NoWalk ==
    ASSUME Listed(tcp'), Rested(tcp'), tcp'.changed = FALSE,
           timer'.which \in {"none", "input"}, timer'.callback \notin {"err", "poll"}
    PROVE  WalkInv'
BY DEF WalkInv, InCallback, Listed, Rested

LEMMA AWalk ==
    ASSUME Listed(tcp'), Connected(tcp'), tcp'.changed = FALSE,
           timer'.which \in {"slow", "fast"}, timer'.callback \notin {"err", "poll"},
           timer'.callback # "none" => timer'.which = "fast",
           NEW k \in 1..(Len(tcp'.active) + 1),
           timer'.cur = IF k <= Len(tcp'.active) THEN tcp'.active[k] ELSE NULL,
           timer'.which = "slow" =>
             timer'.prev = IF k = 1 THEN NULL ELSE tcp'.active[k - 1],
           \A i \in 1..Len(tcp'.active) :
             tcp'.pcb[tcp'.active[i]].lag = IF i < k THEN 0 ELSE 1
    PROVE  WalkInv'
<1>1. Halfway(tcp.active, tcp.pcb, k)'
  BY DEF Halfway
<1>. QED BY <1>1 DEF WalkInv, InCallback, Listed, Connected

\* Where the walk is.
LEMMA AtAPosition ==
    ASSUME TcpInv, WalkInv, timer.which \in {"slow", "fast"}
    PROVE  /\ Connected(tcp) /\ Listed(tcp) /\ tcp.changed = FALSE
           /\ \E k \in 1..(Len(tcp.active) + 1) :
                /\ timer.cur = IF k <= Len(tcp.active) THEN tcp.active[k] ELSE NULL
                /\ timer.cur # NULL => k \in 1..Len(tcp.active) /\ tcp.active[k] = timer.cur
                /\ timer.cur = NULL => k = Len(tcp.active) + 1
                /\ timer.which = "slow" =>
                     timer.prev = IF k = 1 THEN NULL ELSE tcp.active[k - 1]
                /\ \A i \in 1..Len(tcp.active) :
                     tcp.pcb[tcp.active[i]].lag = IF i < k THEN 0 ELSE 1
<1>1. tcp.active \in Seq(Pcb) /\ tcp.changed \in BOOLEAN
  BY StackFields DEF TcpInv, StackOK
<1>2. PICK k \in 1..(Len(tcp.active) + 1) : Halfway(tcp.active, tcp.pcb, k)
  BY DEF WalkInv
<1>3. timer.cur = IF k <= Len(tcp.active) THEN tcp.active[k] ELSE NULL
  BY <1>2 DEF Halfway
<1>4. k <= Len(tcp.active) => k \in 1..Len(tcp.active) /\ tcp.active[k] # NULL
  BY <1>1, TcpAssumption
<1>5. ~(k <= Len(tcp.active)) => k = Len(tcp.active) + 1
  BY <1>1
<1>6. /\ timer.which = "slow" => timer.prev = IF k = 1 THEN NULL ELSE tcp.active[k - 1]
      /\ \A i \in 1..Len(tcp.active) : tcp.pcb[tcp.active[i]].lag = IF i < k THEN 0 ELSE 1
  BY <1>2 DEF Halfway
<1>7. Connected(tcp) /\ Listed(tcp) /\ tcp.changed = FALSE
  BY <1>1 DEF WalkInv, Connected
<1>. QED BY <1>3, <1>4, <1>5, <1>6, <1>7

\* A timer starts: all of the list is before it.
LEMMA StartTimerWalks ==
    ASSUME AsInRepository, TcpInv, WalkInv, NEW which \in {"slow", "fast"},
           StartTimer(which)
    PROVE  WalkInv'
<1>1. /\ StackOK(tcp) /\ timer.which = "none" /\ tcp.active \in Seq(Pcb)
      /\ Listed(tcp) /\ Rested(tcp) /\ tcp.changed = FALSE
  <2>1. StackOK(tcp) /\ timer.which = "none"
    BY DEF TcpInv, StartTimer, Idle
  <2>2. tcp.active \in Seq(Pcb) /\ tcp.changed \in BOOLEAN
    BY <2>1, StackFields DEF StackOK
  <2>. QED BY <2>1, <2>2 DEF WalkInv
<1>2. tcp' = Tick(tcp, which = "slow") /\ (which = "slow") \in BOOLEAN
  BY DEF StartTimer
<1>3. /\ tcp'.active = tcp.active /\ tcp'.changed = FALSE
      /\ \A p \in Pcb : /\ tcp'.pcb[p].state = tcp.pcb[p].state
                        /\ tcp.pcb[p].state # "FREE" => tcp'.pcb[p].lag = Lag(tcp.pcb[p])
  BY <1>1, <1>2, TickKeeps
<1>4. /\ timer'.which = which /\ timer'.callback = "none" /\ timer'.prev = NULL
      /\ timer'.cur = First(tcp.active)
  BY DEF StartTimer, NoTimer
<1>5. First(tcp.active) = IF Len(tcp.active) = 0 THEN NULL ELSE tcp.active[1]
  BY <1>1, FirstOnList
<1>6. ASSUME NEW p \in Pcb
      PROVE  /\ tcp.pcb[p].state = "CLOSED" => tcp'.pcb[p].lag = 0
             /\ tcp.pcb[p].state \in Active => tcp'.pcb[p].lag = 1
  <2>1. tcp.pcb[p].state \in Active \cup {"CLOSED"} =>
          tcp.pcb[p].lag = 0 /\ tcp'.pcb[p].lag = Lag(tcp.pcb[p])
    BY <1>1, <1>3 DEF Rested, Active
  <2>2. (0 + 1) % TIMER_CTR = 1
    <3>1. TIMER_CTR \in Nat /\ TIMER_CTR >= 2
      BY ConstantTypes
    <3>2. 1 % TIMER_CTR = 1
      BY <3>1
    <3>. QED BY <3>2
  <2>3. tcp.pcb[p].state \in Active => Lag(tcp.pcb[p]) = 1
    BY <2>1, <2>2 DEF Lag
  <2>4. tcp.pcb[p].state = "CLOSED" => Lag(tcp.pcb[p]) = 0
    BY <2>1 DEF Lag, AsInRepository, Active
  <2>. QED BY <2>1, <2>3, <2>4
<1>7. \A i \in 1..Len(tcp.active) : tcp'.pcb[tcp.active[i]].lag = 1
  <2> SUFFICES ASSUME NEW i \in 1..Len(tcp.active) PROVE tcp'.pcb[tcp.active[i]].lag = 1
    OBVIOUS
  <2>1. tcp.active[i] \in Pcb /\ tcp.active[i] \in ToSet(tcp.active)
    BY <1>1, ListMembers
  <2>2. tcp.pcb[tcp.active[i]].state \in Active
    BY <1>1, <2>1, BlockFacts
  <2>. QED BY <1>6, <2>1, <2>2
<1>8. Listed(tcp') /\ Connected(tcp')
  BY <1>1, <1>3, <1>6 DEF Listed, Connected
<1>9. 1 \in 1..(Len(tcp.active) + 1) /\ (1 <= Len(tcp.active) <=> Len(tcp.active) # 0)
      /\ \A i \in 1..Len(tcp.active) : ~(i < 1)
  BY <1>1
<1> DEFINE k == 1
<1>10. /\ k \in 1..(Len(tcp'.active) + 1)
       /\ timer'.cur = IF k <= Len(tcp'.active) THEN tcp'.active[k] ELSE NULL
       /\ timer'.which = "slow" => timer'.prev = IF k = 1 THEN NULL ELSE tcp'.active[k - 1]
       /\ \A i \in 1..Len(tcp'.active) :
            tcp'.pcb[tcp'.active[i]].lag = IF i < k THEN 0 ELSE 1
  BY <1>3, <1>4, <1>5, <1>7, <1>9
<1> HIDE DEF k
<1>. QED BY <1>3, <1>4, <1>8, <1>10, AWalk

\* A block is dealt with and the walk goes on to the next.
LEMMA DealtMovesOn ==
    ASSUME StackOK(tcp), Listed(tcp), Connected(tcp), NEW k \in 1..Len(tcp.active),
           \A i \in 1..Len(tcp.active) :
             tcp.pcb[tcp.active[i]].lag = IF i < k THEN 0 ELSE 1,
           NEW p, p = tcp.active[k], DealtWith(p, tcp.pcb[p])
    PROVE  /\ Listed(tcp') /\ Connected(tcp') /\ tcp'.active = tcp.active
           /\ k + 1 \in 1..(Len(tcp.active) + 1)
           /\ Succ(tcp.active, p) =
                IF k + 1 <= Len(tcp.active) THEN tcp.active[k + 1] ELSE NULL
           /\ k + 1 # 1 /\ tcp.active[(k + 1) - 1] = p
           /\ \A i \in 1..Len(tcp.active) :
                tcp'.pcb[tcp.active[i]].lag = IF i < k + 1 THEN 0 ELSE 1
<1> DEFINE list == tcp.active
<1>1. list \in Seq(Pcb) /\ IsInjective(list)
  BY StackFields DEF StackOK
<1>2. /\ tcp'.active = list /\ tcp'.pcb[p].state = tcp.pcb[p].state /\ tcp'.pcb[p].lag = 0
      /\ \A q \in Pcb \ {p} : tcp'.pcb[q] = tcp.pcb[q]
  BY DEF DealtWith
<1>3. Listed(tcp') /\ Connected(tcp')
  BY <1>2 DEF Listed, Connected
<1>4. k \in 1..Len(list) /\ p = list[k]
  OBVIOUS
<1>5. \A i \in 1..Len(list) : tcp.pcb[list[i]].lag = IF i < k THEN 0 ELSE 1
  OBVIOUS
<1> HIDE DEF list
<1>6. Succ(list, list[k]) = IF k < Len(list) THEN list[k + 1] ELSE NULL
  BY <1>1, <1>4, NextOnList
<1>7. /\ k + 1 \in 1..(Len(list) + 1) /\ (k + 1 <= Len(list) <=> k < Len(list))
      /\ k + 1 # 1 /\ (k + 1) - 1 = k
  BY <1>1, <1>4
<1>8. ASSUME NEW i \in 1..Len(list)
      PROVE  tcp'.pcb[list[i]].lag = IF i < k + 1 THEN 0 ELSE 1
  <2>1. CASE i = k
    BY <1>2, <1>4, <2>1
  <2>2. CASE i # k
    <3>1. list[i] \in Pcb /\ list[i] # p
      BY <1>1, <1>4, <2>2, InjectiveList
    <3>2. i < k + 1 <=> i < k
      BY <1>4, <2>2
    <3>. QED BY <1>2, <1>5, <3>1, <3>2
  <2>. QED BY <2>1, <2>2
<1>. QED BY <1>2, <1>3, <1>4, <1>6, <1>7, <1>8 DEF list

\* A call or a segment comes between walks, or leaves the stack alone.
LEMMA CallWalks ==
    ASSUME AsInRepository, TcpInv, WalkInv, Application \/ Segments
    PROVE  WalkInv'
<1>1. StackOK(tcp) /\ timer \in TimerType /\ silent \in BOOLEAN
  BY DEF TcpInv, TimerOK
<1>2. ((Handled /\ Idle) \/ tcp' = tcp) /\ TimerKept
  <2>1. CASE Application
    BY <1>1, <2>1, ApplicationHandled DEF AppRuns, AsInRepository
  <2>2. CASE Segments
    BY <1>1, <2>2, SegmentsHandled
  <2>. QED BY <2>1, <2>2
<1>3. CASE Handled /\ Idle
  <2>1. timer.which = "none" /\ timer.callback = "none" /\ ~InCallback
    BY <1>3 DEF Idle, TcpInv, TimerOK, InCallback
  <2>2. Listed(tcp) /\ Rested(tcp)
    BY <2>1 DEF WalkInv
  <2>3. Listed(tcp') /\ Rested(tcp') /\ tcp'.changed = FALSE
    BY <1>1, <1>3, <2>1, <2>2, HandledKeeps
  <2>. QED BY <1>2, <2>1, <2>3, NoWalk DEF TimerKept
<1>4. CASE tcp' = tcp
  BY <1>2, <1>4 DEF WalkInv, Halfway, InCallback, TimerKept
<1>. QED BY <1>2, <1>3, <1>4

\* The block the slow timer is at has not been dealt with: it passes none over.
LEMMA NothingToSkip ==
    ASSUME TcpInv, WalkInv, SlowSkip
    PROVE  FALSE
<1>1. timer.which = "slow" /\ timer.cur # NULL /\ tcp.pcb[timer.cur].lag = 0
  BY DEF SlowSkip, Walking, Visited
<1>2. PICK k \in 1..(Len(tcp.active) + 1) :
        /\ timer.cur # NULL => k \in 1..Len(tcp.active) /\ tcp.active[k] = timer.cur
        /\ \A i \in 1..Len(tcp.active) :
             tcp.pcb[tcp.active[i]].lag = IF i < k THEN 0 ELSE 1
  BY <1>1, AtAPosition
<1>3. k \in 1..Len(tcp.active) /\ tcp.active[k] = timer.cur /\ ~(k < k)
  BY <1>1, <1>2
<1>. QED BY <1>1, <1>2, <1>3

\* The slow timer polls a block, the fast timer looks at one: both go on.
LEMMA VisitWalks ==
    ASSUME AsInRepository, TcpInv, WalkInv, SlowPoll \/ FastVisit
    PROVE  WalkInv'
<1>1. /\ StackOK(tcp) /\ timer \in TimerType /\ timer.which \in {"slow", "fast"}
      /\ timer.cur # NULL /\ timer.callback = "none"
  BY DEF SlowPoll, FastVisit, Walking, TcpInv, TimerOK
<1> DEFINE p == timer.cur
           list == tcp.active
<1>2. /\ Connected(tcp) /\ Listed(tcp) /\ tcp.changed = FALSE
      /\ \E k \in 1..(Len(list) + 1) :
           /\ p # NULL => k \in 1..Len(list) /\ list[k] = p
           /\ \A i \in 1..Len(list) : tcp.pcb[list[i]].lag = IF i < k THEN 0 ELSE 1
  BY <1>1, AtAPosition
<1>3. PICK k \in 1..Len(list) :
        /\ list[k] = p
        /\ \A i \in 1..Len(list) : tcp.pcb[list[i]].lag = IF i < k THEN 0 ELSE 1
  BY <1>1, <1>2
<1>4. DealtWith(p, tcp.pcb[p])
  BY <1>1, SlowPollEffect, FastVisitEffect
<1>5. /\ Listed(tcp') /\ Connected(tcp') /\ tcp'.active = list
      /\ k + 1 \in 1..(Len(list) + 1)
      /\ Succ(list, p) = IF k + 1 <= Len(list) THEN list[k + 1] ELSE NULL
      /\ k + 1 # 1 /\ list[(k + 1) - 1] = p
      /\ \A i \in 1..Len(list) : tcp'.pcb[list[i]].lag = IF i < k + 1 THEN 0 ELSE 1
  BY <1>1, <1>2, <1>3, <1>4, DealtMovesOn
<1>6. tcp'.changed = FALSE
  BY <1>2, <1>4 DEF DealtWith
<1>7. /\ timer'.which = timer.which /\ timer'.cur = Succ(list, p)
      /\ timer'.callback \in {"none", "recv"}
      /\ timer'.callback # "none" => timer'.which = "fast"
      /\ timer'.which = "slow" => timer'.prev = p
  <2>1. CASE SlowPoll
    BY <1>1, <2>1 DEF SlowPoll, Walking, Calls, AsInRepository, TimerType
  <2>2. CASE FastVisit
    <3> DEFINE fin == tcp.pcb[timer.cur].refused = "fin"
               next == Succ(tcp.active, timer.cur)
    <3>1. \/ timer' = [NoTimer EXCEPT !.which = "fast", !.callback = "recv",
                         !.who = timer.cur, !.cur = next, !.fin = fin]
          \/ timer' = [timer EXCEPT !.cur = next]
      BY <2>2 DEF FastVisit, OffersRefused
    <3>2. timer.which = "fast"
      BY <2>2 DEF FastVisit, Walking
    <3> HIDE DEF fin, next
    <3>3. /\ timer'.which = "fast" /\ timer'.callback \in {"none", "recv"}
          /\ timer'.cur = next
      BY <1>1, <3>1, <3>2 DEF NoTimer, TimerType
    <3>. QED BY <3>2, <3>3 DEF next
  <2>. QED BY <2>1, <2>2
<1> DEFINE h == k + 1
<1>8. /\ h \in 1..(Len(tcp'.active) + 1)
      /\ timer'.cur = IF h <= Len(tcp'.active) THEN tcp'.active[h] ELSE NULL
      /\ timer'.which = "slow" => timer'.prev = IF h = 1 THEN NULL ELSE tcp'.active[h - 1]
      /\ \A i \in 1..Len(tcp'.active) :
           tcp'.pcb[tcp'.active[i]].lag = IF i < h THEN 0 ELSE 1
  BY <1>5, <1>7
<1>9. /\ Listed(tcp') /\ Connected(tcp') /\ tcp'.changed = FALSE
      /\ timer'.which \in {"slow", "fast"} /\ timer'.callback \notin {"err", "poll"}
      /\ timer'.callback # "none" => timer'.which = "fast"
  BY <1>1, <1>5, <1>6, <1>7
<1> HIDE DEF h, p, list
<1>. QED BY <1>8, <1>9, AWalk

\* The slow timer takes a block out: those behind it move up, and the walk is
\* where it was.
LEMMA RemoveWalks ==
    ASSUME AsInRepository, TcpInv, WalkInv, SlowRemove
    PROVE  WalkInv'
<1>1. /\ StackOK(tcp) /\ timer \in TimerType /\ timer.which = "slow"
      /\ timer.cur # NULL /\ timer.callback = "none"
  BY DEF SlowRemove, Walking, TcpInv, TimerOK
<1> DEFINE p == timer.cur
           list == tcp.active
           rest == tcp'.active
           prev == timer.prev
<1>2. /\ Connected(tcp) /\ Listed(tcp) /\ tcp.changed = FALSE
      /\ \E k \in 1..(Len(list) + 1) :
           /\ p # NULL => k \in 1..Len(list) /\ list[k] = p
           /\ timer.which = "slow" => prev = IF k = 1 THEN NULL ELSE list[k - 1]
           /\ \A i \in 1..Len(list) : tcp.pcb[list[i]].lag = IF i < k THEN 0 ELSE 1
  BY <1>1, AtAPosition
<1>3. PICK k \in 1..Len(list) :
        /\ list[k] = p /\ prev = IF k = 1 THEN NULL ELSE list[k - 1]
        /\ \A i \in 1..Len(list) : tcp.pcb[list[i]].lag = IF i < k THEN 0 ELSE 1
  BY <1>1, <1>2
<1>4. list \in Seq(Pcb) /\ IsInjective(list) /\ p \in Pcb
  <2>1. list \in Seq(Pcb) /\ IsInjective(list)
    BY <1>1, StackFields DEF StackOK
  <2>. QED BY <1>1, <2>1, TimerFields
<1> DEFINE j == k - 1
<1>5. j \in 0..(k - 1) /\ prev = (IF j = 0 THEN NULL ELSE list[j]) /\ k - j = 1
        /\ j = k - 1
  BY <1>3
<1> HIDE DEF j
<1>6. /\ StackOK(tcp') /\ tcp'.changed \in {tcp.changed, FALSE}
      /\ Len(rest) = Len(list) - (k - j)
      /\ \A i \in 1..Len(rest) : rest[i] = IF i <= j THEN list[i] ELSE list[i + (k - j)]
      /\ j = k - 1 => \A q \in ToSet(list) : q # p => q \in ToSet(rest)
      /\ tcp'.pcb[p].state = "FREE"
      /\ \A q \in Pcb : q # p => tcp'.pcb[q] = tcp.pcb[q]
  BY <1>1, <1>3, <1>5, SlowRemoveEffect
<1>7. Listed(tcp') /\ Connected(tcp') /\ tcp'.changed = FALSE
  <2>1. \A q \in Pcb : tcp'.pcb[q].state \in Active => q # p /\ tcp.pcb[q].state \in Active
    BY <1>6 DEF Active
  <2>2. \A q \in Pcb : tcp'.pcb[q].state = "CLOSED" => tcp'.pcb[q] = tcp.pcb[q]
    BY <1>6
  <2>. QED BY <1>2, <1>5, <1>6, <2>1, <2>2 DEF Listed, Connected
<1>8. /\ timer'.which = "slow" /\ timer'.prev = prev /\ timer'.callback = "none"
      /\ timer'.cur = Succ(list, p)
  BY <1>1 DEF SlowRemove, Calls, AsInRepository, TimerType
<1> HIDE DEF list, p, prev, rest
<1>9. Succ(list, list[k]) = IF k < Len(list) THEN list[k + 1] ELSE NULL
  BY <1>4, NextOnList
<1>10. /\ Len(rest) = Len(list) - 1 /\ k \in 1..(Len(rest) + 1)
       /\ (k <= Len(rest) <=> k < Len(list)) /\ (k # 1 => k - 1 \in 1..Len(rest))
       /\ \A i \in 1..Len(rest) : rest[i] = IF i < k THEN list[i] ELSE list[i + 1]
  <2>1. Len(list) \in Nat /\ Len(rest) = Len(list) - 1
    BY <1>4, <1>5, <1>6
  <2>2. \A i \in 1..Len(rest) : (i <= j <=> i < k) /\ i + (k - j) = i + 1
    BY <1>5, <2>1
  <2>3. k \in 1..(Len(rest) + 1) /\ (k <= Len(rest) <=> k < Len(list))
          /\ (k # 1 => k - 1 \in 1..Len(rest))
    BY <2>1
  <2>. QED BY <1>6, <2>1, <2>2, <2>3
<1>11. timer'.cur = IF k <= Len(rest) THEN rest[k] ELSE NULL
  <2>1. CASE k <= Len(rest)
    <3>1. k \in 1..Len(rest) /\ ~(k < k)
      BY <1>10, <2>1
    <3>2. rest[k] = list[k + 1]
      BY <1>10, <3>1
    <3>. QED BY <1>3, <1>8, <1>9, <1>10, <2>1, <3>2
  <2>2. CASE ~(k <= Len(rest))
    BY <1>3, <1>8, <1>9, <1>10, <2>2
  <2>. QED BY <2>1, <2>2
<1>12. prev = IF k = 1 THEN NULL ELSE rest[k - 1]
  <2>1. CASE k # 1
    <3>1. k - 1 \in 1..Len(rest) /\ k - 1 < k
      BY <1>10, <2>1
    <3>2. rest[k - 1] = list[k - 1]
      BY <1>10, <3>1
    <3>. QED BY <1>3, <2>1, <3>2
  <2>. QED BY <1>3, <2>1
<1>13. ASSUME NEW i \in 1..Len(rest)
       PROVE  tcp'.pcb[rest[i]].lag = IF i < k THEN 0 ELSE 1
  <2>1. CASE i < k
    <3>1. i \in 1..Len(list) /\ i # k /\ rest[i] = list[i]
      BY <1>4, <1>10, <2>1
    <3>2. list[i] # p /\ list[i] \in Pcb
      BY <1>3, <1>4, <3>1, InjectiveList
    <3>. QED BY <1>3, <1>6, <2>1, <3>1, <3>2
  <2>2. CASE ~(i < k)
    <3>1. i + 1 \in 1..Len(list) /\ i + 1 # k /\ rest[i] = list[i + 1] /\ ~(i + 1 < k)
      BY <1>4, <1>10, <2>2
    <3>2. list[i + 1] # p /\ list[i + 1] \in Pcb
      BY <1>3, <1>4, <3>1, InjectiveList
    <3>. QED BY <1>3, <1>6, <2>2, <3>1, <3>2
  <2>. QED BY <2>1, <2>2
<1>. QED BY <1>7, <1>8, <1>10, <1>11, <1>12, <1>13, AWalk DEF rest

\* The slow timer is past the active list, and frees a block that is old.
LEMMA TimeWaitWalks ==
    ASSUME TcpInv, WalkInv, SlowTimeWait
    PROVE  WalkInv'
<1>1. /\ StackOK(tcp) /\ timer.which = "slow" /\ timer.callback = "none"
      /\ timer' = timer
  BY DEF SlowTimeWait, WalkedActive, TcpInv
<1>2. /\ tcp'.active = tcp.active /\ tcp'.changed = tcp.changed
      /\ \A q \in Pcb : \/ tcp'.pcb[q] = tcp.pcb[q]
                        \/ tcp'.pcb[q].state = "FREE" /\ tcp.pcb[q].state = "TIME_WAIT"
  BY <1>1, SlowTimeWaitEffect
<1>3. /\ Connected(tcp) /\ Listed(tcp) /\ tcp.changed = FALSE
      /\ \E k \in 1..(Len(tcp.active) + 1) :
           /\ timer.cur = IF k <= Len(tcp.active) THEN tcp.active[k] ELSE NULL
           /\ timer.which = "slow" =>
                timer.prev = IF k = 1 THEN NULL ELSE tcp.active[k - 1]
           /\ \A i \in 1..Len(tcp.active) :
                tcp.pcb[tcp.active[i]].lag = IF i < k THEN 0 ELSE 1
  BY <1>1, AtAPosition
<1>4. Listed(tcp') /\ Connected(tcp') /\ tcp'.changed = FALSE
  BY <1>2, <1>3 DEF Listed, Connected, Active
<1>5. \A i \in 1..Len(tcp.active) : tcp'.pcb[tcp.active[i]] = tcp.pcb[tcp.active[i]]
  <2> SUFFICES ASSUME NEW i \in 1..Len(tcp.active)
               PROVE  tcp'.pcb[tcp.active[i]] = tcp.pcb[tcp.active[i]]
    OBVIOUS
  <2>1. tcp.active \in Seq(Pcb)
    BY <1>1, StackFields DEF StackOK
  <2>2. tcp.active[i] \in Pcb /\ tcp.active[i] \in ToSet(tcp.active)
    BY <2>1, ListMembers
  <2>3. tcp.pcb[tcp.active[i]].state # "TIME_WAIT"
    BY <1>1, <2>2, BlockFacts DEF Active
  <2>. QED BY <1>2, <2>2, <2>3
<1>6. PICK k \in 1..(Len(tcp.active) + 1) :
        /\ timer.cur = IF k <= Len(tcp.active) THEN tcp.active[k] ELSE NULL
        /\ timer.which = "slow" =>
             timer.prev = IF k = 1 THEN NULL ELSE tcp.active[k - 1]
        /\ \A i \in 1..Len(tcp.active) :
             tcp.pcb[tcp.active[i]].lag = IF i < k THEN 0 ELSE 1
  BY <1>3
<1>7. /\ k \in 1..(Len(tcp'.active) + 1)
      /\ timer'.cur = IF k <= Len(tcp'.active) THEN tcp'.active[k] ELSE NULL
      /\ timer'.which = "slow" =>
           timer'.prev = IF k = 1 THEN NULL ELSE tcp'.active[k - 1]
      /\ \A i \in 1..Len(tcp'.active) :
           tcp'.pcb[tcp'.active[i]].lag = IF i < k THEN 0 ELSE 1
  BY <1>1, <1>2, <1>5, <1>6
<1>8. /\ timer'.which \in {"slow", "fast"} /\ timer'.callback \notin {"err", "poll"}
      /\ timer'.callback # "none" => timer'.which = "fast"
  BY <1>1
<1>. QED BY <1>4, <1>7, <1>8, AWalk

\* A walk is over: the timer has dealt with every block.
LEMMA EndRests ==
    ASSUME TcpInv, WalkInv, SlowEnd \/ FastEnd
    PROVE  WalkInv'
<1>1. /\ StackOK(tcp) /\ timer.which \in {"slow", "fast"} /\ timer.cur = NULL
      /\ tcp' = tcp /\ timer'.which = "none" /\ timer'.callback = "none"
  BY DEF SlowEnd, FastEnd, WalkedActive, TcpInv, NoTimer
<1>2. /\ Connected(tcp) /\ Listed(tcp) /\ tcp.changed = FALSE
      /\ \E k \in 1..(Len(tcp.active) + 1) :
           /\ timer.cur = NULL => k = Len(tcp.active) + 1
           /\ \A i \in 1..Len(tcp.active) :
                tcp.pcb[tcp.active[i]].lag = IF i < k THEN 0 ELSE 1
  BY <1>1, AtAPosition
<1>3. tcp.active \in Seq(Pcb)
  BY <1>1, StackFields DEF StackOK
<1>4. \A i \in 1..Len(tcp.active) : tcp.pcb[tcp.active[i]].lag = 0
  <2>1. \A i \in 1..Len(tcp.active) : i < Len(tcp.active) + 1
    BY <1>3
  <2>. QED BY <1>1, <1>2, <2>1
<1>5. Rested(tcp)
  <2> SUFFICES ASSUME NEW p \in Pcb, tcp.pcb[p].state \in Active \cup {"CLOSED"}
               PROVE  tcp.pcb[p].lag = 0
    BY DEF Rested
  <2>1. CASE tcp.pcb[p].state \in Active
    <3>1. PICK i \in 1..Len(tcp.active) : tcp.active[i] = p
      BY <1>2, <1>3, <2>1, ListMembers DEF Listed
    <3>. QED BY <1>4, <3>1
  <2>2. CASE tcp.pcb[p].state = "CLOSED"
    BY <1>2, <2>2 DEF Connected
  <2>. QED BY <2>1, <2>2
<1>. QED BY <1>1, <1>2, <1>5, NoWalk

\* Refused data are offered, or refused again: between walks, and from a walk.
LEMMA ReofferWalks ==
    ASSUME AsInRepository, TcpInv, WalkInv, Reoffered,
           \/ \E p \in Pcb : SegmentMeetsRefused(p)
           \/ InCallback /\ Resume
    PROVE  WalkInv'
<1>1. StackOK(tcp) /\ timer \in TimerType /\ tcp.active \in Seq(Pcb)
  <2>1. StackOK(tcp) /\ timer \in TimerType
    BY DEF TcpInv, TimerOK
  <2>. QED BY <2>1, StackFields DEF StackOK
<1>2. /\ tcp'.active = tcp.active /\ tcp'.changed = FALSE
      /\ \A q \in Pcb : /\ tcp'.pcb[q].state = tcp.pcb[q].state
                        /\ tcp'.pcb[q].lag = tcp.pcb[q].lag
  BY DEF Reoffered
<1>3. Listed(tcp')
  BY <1>2 DEF WalkInv, Listed
<1>4. CASE \E p \in Pcb : SegmentMeetsRefused(p)
  <2>1. timer'.which = "input" /\ timer'.callback = "recv"
    BY <1>4 DEF SegmentMeetsRefused, OffersRefused, NoTimer
  <2>2. timer.which = "none"
    BY <1>4 DEF SegmentMeetsRefused, Segment, Idle
  <2>3. Rested(tcp')
    BY <1>2, <2>2 DEF WalkInv, Rested
  <2>. QED BY <1>2, <1>3, <2>1, <2>3, NoWalk
<1>5. CASE InCallback /\ Resume
  <2>1. timer.which \in {"input", "fast"}
    BY <1>1, <1>5, TimerFields DEF InCallback, TcpInv, TimerOK, WalkInv
  <2>2. CASE timer.which = "input"
    <3>1. timer'.which = "none" /\ timer'.callback = "none"
      BY <1>5, <2>2 DEF Resume, NoTimer
    <3>2. Rested(tcp')
      BY <1>2, <2>2 DEF WalkInv, Rested
    <3>. QED BY <1>2, <1>3, <3>1, <3>2, NoWalk
  <2>3. CASE timer.which = "fast"
    <3>1. /\ Connected(tcp) /\ tcp.changed = FALSE
          /\ \E k \in 1..(Len(tcp.active) + 1) :
               /\ timer.cur = IF k <= Len(tcp.active) THEN tcp.active[k] ELSE NULL
               /\ \A i \in 1..Len(tcp.active) :
                    tcp.pcb[tcp.active[i]].lag = IF i < k THEN 0 ELSE 1
      BY <2>3, AtAPosition
    <3>2. PICK k \in 1..(Len(tcp.active) + 1) :
            /\ timer.cur = IF k <= Len(tcp.active) THEN tcp.active[k] ELSE NULL
            /\ \A i \in 1..Len(tcp.active) :
                 tcp.pcb[tcp.active[i]].lag = IF i < k THEN 0 ELSE 1
      BY <3>1
    <3>3. timer'.which = "fast" /\ timer'.callback = "none" /\ timer'.cur = timer.cur
      BY <1>1, <1>5, <2>3, <3>1 DEF Resume, TimerType
    <3>4. Connected(tcp')
      BY <1>2, <3>1 DEF Connected
    <3>5. \A i \in 1..Len(tcp.active) :
            tcp'.pcb[tcp.active[i]].lag = tcp.pcb[tcp.active[i]].lag
      BY <1>1, <1>2
    <3>6. /\ k \in 1..(Len(tcp'.active) + 1)
          /\ timer'.cur = IF k <= Len(tcp'.active) THEN tcp'.active[k] ELSE NULL
          /\ timer'.which = "slow" =>
               timer'.prev = IF k = 1 THEN NULL ELSE tcp'.active[k - 1]
          /\ \A i \in 1..Len(tcp'.active) :
               tcp'.pcb[tcp'.active[i]].lag = IF i < k THEN 0 ELSE 1
      BY <1>2, <3>2, <3>3, <3>5
    <3>7. /\ timer'.which \in {"slow", "fast"} /\ timer'.callback \notin {"err", "poll"}
          /\ timer'.callback # "none" => timer'.which = "fast"
      BY <3>3
    <3>. QED BY <1>2, <1>3, <3>4, <3>6, <3>7, AWalk
  <2>. QED BY <2>1, <2>2, <2>3
<1>. QED BY <1>4, <1>5

\* A receive callback returns, or is told of the FIN behind the data it took.
LEMMA CallbackReturnWalks ==
    ASSUME AsInRepository, TcpInv, WalkInv, CallbackReturns
    PROVE  WalkInv'
<1>1. StackOK(tcp) /\ timer \in TimerType
  BY DEF TcpInv, TimerOK
<1>2. CASE timer' = [timer EXCEPT !.callback = "closed", !.fin = FALSE] /\ tcp' = tcp
  <2>1. /\ timer'.which = timer.which /\ timer'.callback = "closed"
        /\ timer'.cur = timer.cur /\ timer'.prev = timer.prev
    BY <1>1, <1>2 DEF TimerType
  <2>2. timer.which # "slow"
    BY DEF CallbackReturns, WalkInv
  <2>. QED BY <1>2, <2>1, <2>2 DEF WalkInv, Halfway, InCallback
<1>3. CASE Resume /\ tcp' = [tcp EXCEPT !.changed = FALSE]
  <2>1. tcp' = Flag(tcp, FALSE) /\ FALSE \in BOOLEAN
    BY <1>3 DEF Flag
  <2>2. /\ StackOK(tcp') /\ tcp'.active = tcp.active /\ tcp'.pcb = tcp.pcb
        /\ tcp'.changed = FALSE
    BY <1>1, <2>1, Flagged
  <2>3. Reoffered /\ InCallback
    BY <2>2 DEF Reoffered, CallbackReturns
  <2>. QED BY <1>3, <2>3, ReofferWalks
<1>. QED BY <1>2, <1>3 DEF CallbackReturns

\* With the applications of the repository no step breaks the invariant of the
\* walks either.
LEMMA WalkInvIsKept == AsInRepository => (TcpInv /\ WalkInv /\ [TcpNext]_tcpVars => WalkInv')
<1> SUFFICES ASSUME AsInRepository, TcpInv, WalkInv, [TcpNext]_tcpVars PROVE WalkInv'
  OBVIOUS
<1>1. CASE Application \/ Segments
  BY <1>1, CallWalks
<1>2. CASE \E which \in {"slow", "fast"} : StartTimer(which)
  BY <1>2, StartTimerWalks
<1>3. CASE UNCHANGED tcpVars
  BY <1>3 DEF tcpVars, WalkInv, Halfway, InCallback
<1>4. CASE Timers
  <2>1. CASE FastSpin
    BY <1>3, <2>1 DEF FastSpin
  <2>. QED BY <1>4, <2>1, NothingToSkip, RemoveWalks, VisitWalks, TimeWaitWalks, EndRests,
              CallbackReturnWalks DEF Timers
<1>5. CASE \E p \in Pcb : SegmentMeetsRefused(p)
  BY <1>5, SegmentMeetsRefusedKeeps, ReofferWalks
<1>6. CASE RecvRefuses
  <2>1. Reoffered /\ InCallback /\ Resume
    BY <1>6, RecvRefusesKeeps DEF RecvRefuses, InCallback
  <2>. QED BY <2>1, ReofferWalks
<1>. QED BY <1>1, <1>2, <1>3, <1>4, <1>5, <1>6 DEF TcpNext

LEMMA StrictInvInit == TcpInit => StrictInv
<1> SUFFICES ASSUME TcpInit PROVE StrictInv
  OBVIOUS
<1>1. tcp.changed = FALSE /\ timer.which = "none" /\ timer.callback = "none"
  BY DEF TcpInit, NoTimer
<1>2. \A p \in Pcb : tcp.pcb[p].state = "FREE"
  BY DEF TcpInit, FreeBlock, NewBlock
<1>3. WalkInv
  BY <1>1, <1>2 DEF WalkInv, Listed, Rested, InCallback, Active
<1>. QED BY <1>3, TcpInitInv DEF StrictInv

THEOREM StrictInvHolds == AsInRepository => (TcpSpec => []StrictInv)
<1> SUFFICES ASSUME AsInRepository PROVE TcpSpec => []StrictInv
  OBVIOUS
<1>1. StrictInv /\ [TcpNext]_tcpVars => StrictInv'
  BY TcpInvIsKept, WalkInvIsKept DEF StrictInv
<1>. QED BY <1>1, StrictInvInit, PTL DEF TcpSpec

\* What tcp_pcbs_sane asserts, and the converse, hold in every state of a stack
\* whose application calls nothing from callbacks: no call, segment, time-out or
\* unlinking in a walk leaves a block on a list its state does not call for, on
\* one twice, or on none.
THEOREM ListsAlwaysAgree == AsInRepository => (TcpSpec => []ListsAgree)
<1> SUFFICES ASSUME AsInRepository PROVE TcpSpec => []ListsAgree
  OBVIOUS
<1>1. StrictInv => ListsAgree
  <2> SUFFICES ASSUME StrictInv PROVE ListsAgree
    OBVIOUS
  <2>1. StackOK(tcp) /\ Listed(tcp)
    BY DEF StrictInv, TcpInv, WalkInv
  <2>2. IsInjective(tcp.active) /\ IsInjective(tcp.tw)
    BY <2>1 DEF StackOK
  <2>3. ASSUME NEW p \in Pcb
        PROVE  /\ p \in ToSet(tcp.active) <=> tcp.pcb[p].state \in Active
               /\ p \in ToSet(tcp.tw) <=> tcp.pcb[p].state = "TIME_WAIT"
               /\ p \in tcp.bound => tcp.pcb[p].state = "CLOSED" /\ tcp.pcb[p].port # 0
    BY <2>1, BlockFacts DEF Listed
  <2>. QED BY <2>2, <2>3 DEF ListsAgree
<1>. QED BY <1>1, StrictInvHolds, PTL

\* In a walk of the slow timer the block noted as the one before is the one
\* before: what it unlinks is the one block it means to (lines 954 and 958).
THEOREM SlowTimerKeepsPlace == AsInRepository => (TcpSpec => []SlowTimerKnowsPlace)
<1> SUFFICES ASSUME AsInRepository PROVE TcpSpec => []SlowTimerKnowsPlace
  OBVIOUS
<1>1. StrictInv => SlowTimerKnowsPlace
  <2> SUFFICES ASSUME StrictInv, Walking("slow")
               PROVE  IF timer.prev = NULL THEN timer.cur = First(tcp.active)
                                           ELSE timer.cur = Succ(tcp.active, timer.prev)
    BY DEF SlowTimerKnowsPlace
  <2> DEFINE list == tcp.active
  <2>1. /\ TcpInv /\ WalkInv /\ StackOK(tcp)
        /\ timer.which = "slow" /\ timer.cur # NULL
    BY DEF StrictInv, TcpInv, Walking
  <2>2. list \in Seq(Pcb) /\ IsInjective(list)
    BY <2>1, StackFields DEF StackOK
  <2>3. \E k \in 1..(Len(list) + 1) :
          /\ timer.cur # NULL => k \in 1..Len(list) /\ list[k] = timer.cur
          /\ timer.which = "slow" => timer.prev = IF k = 1 THEN NULL ELSE list[k - 1]
    BY <2>1, AtAPosition
  <2>4. PICK k \in 1..Len(list) :
          list[k] = timer.cur /\ timer.prev = IF k = 1 THEN NULL ELSE list[k - 1]
    BY <2>1, <2>3
  <2> HIDE DEF list
  <2>5. CASE k = 1
    <3>1. First(list) = IF Len(list) = 0 THEN NULL ELSE list[1]
      BY <2>2, FirstOnList
    <3>2. Len(list) # 0
      BY <2>2, <2>5
    <3>. QED BY <2>4, <2>5, <3>1, <3>2 DEF list
  <2>6. CASE k # 1
    <3> DEFINE h == k - 1
    <3>1. h \in 1..Len(list) /\ h < Len(list) /\ h + 1 = k
      BY <2>2, <2>6
    <3>2. timer.prev = list[h] /\ list[h] # NULL
      BY <2>2, <2>4, <2>6, <3>1, TcpAssumption
    <3> HIDE DEF h
    <3>3. Succ(list, list[h]) = IF h < Len(list) THEN list[h + 1] ELSE NULL
      BY <2>2, <3>1, NextOnList
    <3>. QED BY <2>4, <3>1, <3>2, <3>3 DEF list
  <2>. QED BY <2>5, <2>6
<1>. QED BY <1>1, StrictInvHolds, PTL

=============================================================================
