------------------------- MODULE AugInsService_proofs -------------------------
(* Machine-checked proofs about AugInsService, for any number of modules,     *)
(* whatever their priorities, any number of client threads and of starts.     *)
EXTENDS AugInsService, FiniteSetTheorems, SequenceTheorems, TLAPS

USE ModulesAssumption, BoundsAssumption

(***************************************************************************)
(* The sort of the dispatch registry.                                      *)
(***************************************************************************)

\* Precedes is a strict total order on the positions of a chain.
LEMMA PrecedesOrder ==
  ASSUME NEW s \in Seq(Modules)
  PROVE  /\ \A i \in DOMAIN s : ~Precedes(s, i, i)
         /\ \A i, j \in DOMAIN s : i # j => Precedes(s, i, j) \/ Precedes(s, j, i)
         /\ \A i, j, k \in DOMAIN s :
              Precedes(s, i, j) /\ Precedes(s, j, k) => Precedes(s, i, k)
<1>1. /\ DOMAIN s \subseteq Int
      /\ \A i \in DOMAIN s : Priority[s[i]] \in Int
  BY LenProperties
<1> QED
  BY <1>1 DEF Precedes

\* The ranks of a chain's entries are its positions, in the order of Precedes
\* and each of them once.  (An injection of a finite set into itself is onto.)
LEMMA RankPermutes ==
  ASSUME NEW s \in Seq(Modules)
  PROVE  /\ \A i \in DOMAIN s : Rank(s, i) \in DOMAIN s
         /\ \A i, j \in DOMAIN s : Precedes(s, i, j) => Rank(s, i) < Rank(s, j)
         /\ \A i, j \in DOMAIN s : Rank(s, i) = Rank(s, j) => i = j
         /\ \A p \in DOMAIN s : \E i \in DOMAIN s : Rank(s, i) = p
<1> DEFINE D == DOMAIN s
           P(i) == {j \in D : Precedes(s, j, i)}
<1>1. /\ Len(s) \in Nat
      /\ D = 1 .. Len(s)
  BY LenProperties
<1>2. IsFiniteSet(D) /\ Cardinality(D) = Len(s)
  <2>1. 1 \in Int /\ Len(s) \in Int
    BY <1>1
  <2>2. /\ IsFiniteSet(1 .. Len(s))
        /\ Cardinality(1 .. Len(s)) = IF 1 > Len(s) THEN 0 ELSE Len(s) - 1 + 1
    BY <2>1, FS_Interval
  <2> QED
    BY <1>1, <2>2
<1>3. ASSUME NEW i \in D
      PROVE  /\ IsFiniteSet(P(i))
             /\ Cardinality(P(i)) \in Nat
             /\ Cardinality(P(i)) < Len(s)
  <2>1. IsFiniteSet(D \ {i}) /\ Cardinality(D \ {i}) = Len(s) - 1
    BY <1>2, FS_RemoveElement
  <2>2. P(i) \in SUBSET (D \ {i})
    BY PrecedesOrder
  <2> HIDE DEF P
  <2>3. IsFiniteSet(P(i)) /\ Cardinality(P(i)) <= Len(s) - 1
    BY <2>1, <2>2, FS_Subset
  <2>4. Cardinality(P(i)) \in Nat
    BY <2>3, FS_CardinalityType
  <2> QED
    BY <1>1, <2>3, <2>4
<1>4. \A i \in D : Rank(s, i) = Cardinality(P(i)) + 1
  BY DEF Rank
<1>5. ASSUME NEW i \in D, NEW j \in D, Precedes(s, i, j)
      PROVE  Rank(s, i) < Rank(s, j)
  <2>1. P(i) \cup {i} \in SUBSET P(j) /\ i \notin P(i)
    BY <1>5, PrecedesOrder
  <2>2. IsFiniteSet(P(i)) /\ IsFiniteSet(P(j))
    BY <1>3
  <2> HIDE DEF P
  <2>3. Cardinality(P(i) \cup {i}) = Cardinality(P(i)) + 1
    BY <2>1, <2>2, FS_AddElement
  <2>4. Cardinality(P(i) \cup {i}) <= Cardinality(P(j))
    BY <2>1, <2>2, FS_Subset
  <2> QED
    BY <1>3, <1>4, <2>3, <2>4
<1> DEFINE f == [i \in D |-> Rank(s, i)]
<1> HIDE DEF P
<1>6. \A i \in D : Rank(s, i) \in D
  BY <1>1, <1>3, <1>4
<1>7. ASSUME NEW i \in D, NEW j \in D, Rank(s, i) = Rank(s, j)
      PROVE  i = j
  <2>1. Rank(s, i) \in Nat /\ Rank(s, j) \in Nat
    BY <1>1, <1>6
  <2>2. ~Precedes(s, i, j) /\ ~Precedes(s, j, i)
    BY <1>5, <1>7, <2>1
  <2> QED
    BY <2>2, PrecedesOrder
<1>8. f \in Injection(D, D)
  <2>1. f \in [D -> D]
    BY <1>6
  <2>2. \A i, j \in D : f[i] = f[j] => i = j
    BY <1>7
  <2> HIDE DEF f, D
  <2> QED
    BY <2>1, <2>2 DEF Injection, IsInjective
<1>9. \A p \in D : \E i \in D : f[i] = p
  <2> HIDE DEF f, D
  <2>1. f \in Surjection(D, D)
    BY <1>2, <1>8, FS_Injection
  <2> QED
    BY <2>1 DEF Surjection
<1> QED
  BY <1>5, <1>6, <1>7, <1>9

\* A chain in load order comes out of the sort in the order in which it is to be
\* called, with the same entries.
LEMMA SortResult ==
  ASSUME NEW S \in SUBSET Modules, NEW s \in Seq(S),
         \A i, j \in DOMAIN s : i < j => s[i] <= s[j]
  PROVE  /\ SortByPriority(s) \in Seq(S)
         /\ Range(SortByPriority(s)) = Range(s)
         /\ InOrder(SortByPriority(s))
<1> DEFINE t == SortByPriority(s)
           At(p) == CHOOSE i \in DOMAIN s : Rank(s, i) = p
<1>1. s \in Seq(Modules)
  BY SeqMonotonic
<1>2. /\ Len(s) \in Nat
      /\ DOMAIN s = 1 .. Len(s)
      /\ \A i \in DOMAIN s : s[i] \in S
  BY LenProperties
<1>3. \A p \in DOMAIN s : At(p) \in DOMAIN s /\ Rank(s, At(p)) = p
  BY <1>1, RankPermutes
<1>4. DOMAIN t = DOMAIN s /\ \A p \in DOMAIN s : t[p] = s[At(p)]
  BY DEF SortByPriority
<1> HIDE DEF At
<1>5. t \in Seq(S)
  <2>1. t = [p \in DOMAIN s |-> s[At(p)]]
    BY DEF SortByPriority, At
  <2>2. t \in [1 .. Len(s) -> S]
    BY <1>2, <1>3, <2>1
  <2> HIDE DEF t
  <2>3. [1 .. Len(s) -> S] \in {[1 .. n -> S] : n \in Nat}
    BY <1>2
  <2>4. t \in UNION {[1 .. n -> S] : n \in Nat}
    BY <2>2, <2>3
  <2> QED
    BY <2>4, SeqDef
<1> HIDE DEF t
<1>6. \A i, j \in DOMAIN s : Rank(s, i) = Rank(s, j) => i = j
  BY <1>1, RankPermutes
<1>7. Range(t) = Range(s)
  <2>1. \A p \in DOMAIN t : t[p] \in Range(s)
    BY <1>3, <1>4 DEF Range
  <2>2. ASSUME NEW i \in DOMAIN s PROVE s[i] \in Range(t)
    <3>1. Rank(s, i) \in DOMAIN s
      BY <1>1, RankPermutes
    <3>2. At(Rank(s, i)) = i
      BY <1>3, <1>6, <3>1
    <3>3. t[Rank(s, i)] = s[i] /\ Rank(s, i) \in DOMAIN t
      BY <1>4, <3>1, <3>2
    <3> QED
      BY <3>3 DEF Range
  <2> QED
    BY <2>1, <2>2 DEF Range
<1>8. InOrder(t)
  <2> SUFFICES ASSUME NEW p \in DOMAIN s, NEW q \in DOMAIN s, p < q
               PROVE  \/ Priority[t[p]] < Priority[t[q]]
                      \/ Priority[t[p]] = Priority[t[q]] /\ t[p] <= t[q]
    BY <1>4 DEF InOrder
  <2>1. /\ At(p) \in DOMAIN s /\ Rank(s, At(p)) = p
        /\ At(q) \in DOMAIN s /\ Rank(s, At(q)) = q
    BY <1>3
  <2>2. ~Precedes(s, At(q), At(p))
    <3>1. Precedes(s, At(q), At(p)) => q < p
      BY <1>1, <2>1, RankPermutes
    <3> QED
      BY <1>2, <3>1
  <2>3. At(p) # At(q)
    BY <1>2, <2>1
  <2>4. Precedes(s, At(p), At(q))
    BY <1>1, <2>1, <2>2, <2>3, PrecedesOrder
  <2> QED
    BY <1>4, <2>1, <2>4 DEF Precedes
<1> QED
  BY <1>5, <1>7, <1>8 DEF t

-----------------------------------------------------------------------------
(***************************************************************************)
(* Parts of a chain.                                                       *)
(***************************************************************************)

\* What a client copies out of a chain, and what is left of its copy, is in the
\* order of the chain and holds nothing else.
LEMMA PrefixInOrder ==
  ASSUME NEW s \in Seq(Implements), InOrder(s), NEW n \in 0 .. Len(s)
  PROVE  /\ SubSeq(s, 1, n) \in Seq(Implements)
         /\ Len(SubSeq(s, 1, n)) = n
         /\ InOrder(SubSeq(s, 1, n))
         /\ Range(SubSeq(s, 1, n)) \subseteq Range(s)
<1> DEFINE t == SubSeq(s, 1, n)
<1>1. Len(s) \in Nat /\ DOMAIN s = 1 .. Len(s) /\ \A i \in DOMAIN s : s[i] \in Implements
  BY LenProperties
<1>2. n \in Int /\ 1 \in Int /\ \A i \in 1 .. n : s[i] \in Implements
  BY <1>1
<1>3. /\ t \in Seq(Implements)
      /\ Len(t) = IF 1 <= n THEN n - 1 + 1 ELSE 0
      /\ \A i \in 1 .. n - 1 + 1 : t[i] = s[1 + i - 1]
  BY <1>2, SubSeqProperties
<1> HIDE DEF t
<1>4. Len(t) = n /\ DOMAIN t = 1 .. n
  BY <1>1, <1>3, LenProperties
<1>5. \A i \in DOMAIN t : i \in DOMAIN s /\ t[i] = s[i]
  BY <1>1, <1>3, <1>4
<1>6. InOrder(t) /\ Range(t) \subseteq Range(s)
  BY <1>5 DEF InOrder, Range
<1> QED
  BY <1>3, <1>4, <1>6 DEF t

LEMMA TailInOrder ==
  ASSUME NEW s \in Seq(Implements), InOrder(s), s # <<>>
  PROVE  /\ Tail(s) \in Seq(Implements)
         /\ InOrder(Tail(s))
         /\ Range(Tail(s)) \subseteq Range(s)
         /\ Len(s) # 1 => Tail(s) # <<>>
<1>1. Len(s) \in Nat /\ DOMAIN s = 1 .. Len(s)
  BY LenProperties
<1>2. /\ Tail(s) \in Seq(Implements)
      /\ Len(Tail(s)) = Len(s) - 1
      /\ \A i \in 1 .. Len(Tail(s)) : Tail(s)[i] = s[i + 1]
  BY HeadTailProperties
<1>3. DOMAIN Tail(s) = 1 .. Len(s) - 1
  BY <1>2, LenProperties
<1>4. \A i \in DOMAIN Tail(s) : i \in Int /\ i + 1 \in DOMAIN s /\ Tail(s)[i] = s[i + 1]
  BY <1>1, <1>2, <1>3
<1>5. Range(Tail(s)) \subseteq Range(s)
  BY <1>4 DEF Range
<1>6. InOrder(Tail(s))
  BY <1>4 DEF InOrder
<1>7. Len(s) # 1 => Tail(s) # <<>>
  <2> DEFINE t == Tail(s)
  <2>1. Len(s) \in Int /\ Len(t) = Len(s) - 1
    BY <1>1, <1>2
  <2> HIDE DEF t
  <2>2. t = <<>> => Len(t) = 0
    BY EmptySeq
  <2>3. t = <<>> => Len(s) = 1
    BY <2>1, <2>2
  <2> QED
    BY <2>3 DEF t
<1> QED
  BY <1>2, <1>5, <1>6, <1>7

\* One more module at the end of a sequence.
LEMMA AppendRange ==
  ASSUME NEW S, NEW s \in Seq(S), NEW m \in S
  PROVE  Range(Append(s, m)) = Range(s) \cup {m}
<1>1. /\ Append(s, m) \in Seq(S)
      /\ Len(Append(s, m)) = Len(s) + 1
      /\ \A i \in 1 .. Len(s) : Append(s, m)[i] = s[i]
      /\ Append(s, m)[Len(s) + 1] = m
  BY AppendProperties
<1>2. Len(s) \in Nat /\ DOMAIN s = 1 .. Len(s) /\ DOMAIN Append(s, m) = 1 .. Len(s) + 1
  BY <1>1, LenProperties
<1> QED
  BY <1>1, <1>2 DEF Range

\* Registering the next file, however often it lists the function, keeps a chain in
\* load order.
LEMMA RegisterInLoadOrder ==
  ASSUME NEW s \in Seq(Implements), NEW m \in Modules,
         \A i \in DOMAIN s : s[i] < m,
         \A i, j \in DOMAIN s : i < j => s[i] <= s[j]
  PROVE  /\ Register(s, m) \in Seq(Implements)
         /\ Range(Register(s, m)) \subseteq Range(s) \cup {m}
         /\ \A i \in DOMAIN Register(s, m) : Register(s, m)[i] < m + 1
         /\ \A i, j \in DOMAIN Register(s, m) :
              i < j => Register(s, m)[i] <= Register(s, m)[j]
<1> DEFINE n == Listed[m]
           u == [i \in 1 .. n |-> m]
           t == s \o u
<1>1. Len(s) \in Nat /\ DOMAIN s = 1 .. Len(s) /\ \A i \in DOMAIN s : s[i] \in Implements
  BY LenProperties
<1>2. m \in Int /\ n \in Nat /\ \A i \in DOMAIN s : s[i] \in Int
  <2>1. Modules \subseteq Int /\ Implements \subseteq Modules
    BY DEF Modules, Implements
  <2> QED
    BY <1>1, <2>1, ModulesAssumption
<1>3. u \in Seq(Implements) /\ Len(u) = n /\ \A i \in 1 .. n : u[i] = m
  <2>1. n > 0 => m \in Implements
    BY DEF Implements
  <2>2. \A i \in 1 .. n : m \in Implements
    BY <1>2, <2>1
  <2> HIDE DEF n
  <2>3. u \in [1 .. n -> Implements]
    BY <2>2
  <2>4. u \in Seq(Implements)
    <3>1. u \in UNION {[1 .. k -> Implements] : k \in Nat}
      BY <1>2, <2>3
    <3> QED
      BY <3>1, SeqDef
  <2>5. DOMAIN u = 1 .. n /\ \A i \in 1 .. n : u[i] = m
    OBVIOUS
  <2> HIDE DEF u
  <2>6. Len(u) = n
    BY <1>2, <2>4, <2>5, LenProperties
  <2> QED
    BY <2>4, <2>5, <2>6
<1>4. Register(s, m) = t
  BY DEF Register
<1> HIDE DEF n, u
<1>5. /\ t \in Seq(Implements)
      /\ Len(t) = Len(s) + n
      /\ \A i \in 1 .. Len(s) + n : t[i] = IF i <= Len(s) THEN s[i] ELSE u[i - Len(s)]
  BY <1>3, ConcatProperties
<1> HIDE DEF t
<1>6. DOMAIN t = 1 .. Len(s) + n
  BY <1>5, LenProperties
<1>7. \A i \in DOMAIN t : \/ i \in DOMAIN s /\ t[i] = s[i]
                          \/ i \in Int /\ Len(s) < i /\ t[i] = m
  <2> SUFFICES ASSUME NEW i \in 1 .. Len(s) + n
               PROVE  \/ i \in DOMAIN s /\ t[i] = s[i]
                      \/ i \in Int /\ Len(s) < i /\ t[i] = m
    BY <1>6
  <2>1. i \in Int /\ t[i] = IF i <= Len(s) THEN s[i] ELSE u[i - Len(s)]
    BY <1>5
  <2>2. CASE i <= Len(s)
    BY <1>1, <2>1, <2>2
  <2>3. CASE Len(s) < i
    <3>1. i - Len(s) \in 1 .. n
      BY <1>1, <1>2, <2>1, <2>3
    <3>2. u[i - Len(s)] = m
      BY <1>3, <3>1
    <3> QED
      BY <1>1, <2>1, <2>3, <3>2
  <2> QED
    BY <1>1, <2>1, <2>2, <2>3
<1>8. \A i \in DOMAIN t : t[i] < m + 1
  BY <1>2, <1>7
<1>9. \A i, j \in DOMAIN t : i < j => t[i] <= t[j]
  BY <1>1, <1>2, <1>7
<1>10. Range(t) \subseteq Range(s) \cup {m}
  BY <1>7 DEF Range
<1> QED
  BY <1>4, <1>5, <1>8, <1>9, <1>10

-----------------------------------------------------------------------------
(***************************************************************************)
(* The invariant.                                                          *)
(***************************************************************************)

USE DEF Up

\* Nothing is loaded and no thread runs before the service is created.
LEMMA ServiceInvInit == Init => ServiceInv
<1> SUFFICES ASSUME Init PROVE ServiceInv
  OBVIOUS
<1>1. /\ <<>> \in Seq(Modules) /\ <<>> \in Seq(Implements)
      /\ DOMAIN <<>> = {} /\ Range(<<>>) = {}
  <2>1. /\ <<>> \in Seq(Modules) /\ <<>> \in Seq(Implements)
        /\ Len(<<>>) = 0
    BY EmptySeq
  <2>2. DOMAIN <<>> = {}
    OBVIOUS
  <2> QED
    BY <2>1, <2>2 DEF Range
<1>2. TypeOK
  <2>1. starts \in 0 .. MaxStarts /\ file \in 1 .. NumModules + 1
    BY ModulesAssumption, BoundsAssumption DEF Init
  <2>2. snap \in [Clients -> Seq(Implements)]
    BY <1>1 DEF Init
  <2> QED
    BY <1>1, <2>1, <2>2 DEF Init, TypeOK, UiPCs
<1>3. ThreadInv
  BY DEF Init, ThreadInv
<1>4. InOrder(<<>>)
  BY <1>1 DEF InOrder
<1>5. LoaderInv
  BY <1>1, <1>4 DEF Init, LoaderInv
<1>6. CallInv /\ ChainInOrder
  BY <1>4 DEF Init, CallInv, ChainInOrder
<1> QED
  BY <1>2, <1>3, <1>5, <1>6 DEF ServiceInv

\* A step of the ui or the server thread leaves the clients' copies alone.  It
\* must not end the main loop without making orphans of the clients, nor touch
\* the chain under a served client unless the shutdown has given up.
LEMMA CallsKept ==
  ASSUME CallInv, ChainInOrder,
         UNCHANGED <<cpc, snap>>,
         orphans \subseteq orphans',
         \A c \in Clients \ orphans' :
           cpc[c] \in {"serve", "locate", "call"} /\ Up => Up',
         Up /\ result' = 0 => result = 0 /\ chain' = chain
  PROVE  CallInv' /\ ChainInOrder'
<1>1. ChainInOrder'
  BY DEF ChainInOrder, InOrder
<1>2. ASSUME NEW c \in Clients
      PROVE  /\ cpc'[c] = "call" => snap'[c] # <<>>
             /\ c \notin orphans' /\ cpc'[c] \in {"serve", "locate", "call"}
                  => Up'
             /\ c \notin orphans' /\ cpc'[c] = "call" /\ result' = 0
                  => Range(snap'[c]) \subseteq Range(chain')
  <2>1. /\ cpc[c] = "call" => snap[c] # <<>>
        /\ c \notin orphans /\ cpc[c] \in {"serve", "locate", "call"} => Up
        /\ c \notin orphans /\ cpc[c] = "call" /\ result = 0
             => Range(snap[c]) \subseteq Range(chain)
    BY DEF CallInv
  <2> QED
    BY <2>1
<1> QED
  BY <1>1, <1>2 DEF CallInv

\* A step of a client thread changes where it is and its copy of the chain.
LEMMA ClientMoves ==
  ASSUME ServiceInv, NEW c \in Clients, Client(c)
  PROVE  /\ UNCHANGED <<upc, starts, result, server, thread, startup, spc, running>>
         /\ UNCHANGED <<initialised, file, loaded, chain, mapped, hooked, orphans, hung>>
         /\ \E v \in {"none", "serve", "locate", "call", "undefined", "done"},
               w \in Seq(Implements) :
              /\ cpc' = [cpc EXCEPT ![c] = v]
              /\ snap' = [snap EXCEPT ![c] = w]
              /\ InOrder(w)
              /\ v = "call" => w # <<>>
              /\ c \notin orphans /\ v \in {"serve", "locate", "call"} => Up
              /\ c \notin orphans /\ v = "call" /\ result = 0
                   => Range(w) \subseteq Range(chain)
<1> DEFINE Kept == /\ UNCHANGED <<upc, starts, result, server, thread, startup, spc, running>>
                   /\ UNCHANGED <<initialised, file, loaded, chain, mapped, hooked, orphans,
                                 hung>>
           Move(v, w) == /\ cpc' = [cpc EXCEPT ![c] = v]
                         /\ snap' = [snap EXCEPT ![c] = w]
                         /\ InOrder(w)
                         /\ v = "call" => w # <<>>
                         /\ c \notin orphans /\ v \in {"serve", "locate", "call"}
                              => Up
                         /\ c \notin orphans /\ v = "call" /\ result = 0
                              => Range(w) \subseteq Range(chain)
           PCs == {"none", "serve", "locate", "call", "undefined", "done"}
<1>1. /\ snap \in [Clients -> Seq(Implements)] /\ cpc \in [Clients -> PCs]
      /\ chain \in Seq(Implements)
      /\ snap[c] \in Seq(Implements)
      /\ InOrder(snap[c])
      /\ cpc[c] = "call" => snap[c] # <<>>
      /\ c \notin orphans /\ cpc[c] \in {"serve", "locate", "call"} => Up
      /\ c \notin orphans /\ cpc[c] = "call" /\ result = 0
           => Range(snap[c]) \subseteq Range(chain)
  BY DEF ServiceInv, TypeOK, ChainInOrder, CallInv
<1> USE DEF helper, loader, clients
<1>2. ASSUME NEW v \in PCs, UNCHANGED snap, v # "call", cpc' = [cpc EXCEPT ![c] = v],
             v \in {"serve", "locate"} => c \in orphans \/ Up
      PROVE  Move(v, snap[c])
  BY <1>1, <1>2
<1>3. ASSUME Connect(c) PROVE Kept /\ Move("serve", snap[c])
  BY <1>2, <1>3 DEF Connect
<1>4. ASSUME Dispatch(c) PROVE Kept /\ Move("locate", snap[c])
  BY <1>2, <1>4 DEF Dispatch, Serving
<1>5. ASSUME DefaultFails(c) PROVE Kept /\ Move("serve", snap[c])
  BY <1>2, <1>5 DEF DefaultFails, Serving
<1>6. ASSUME NotHead(c) PROVE Kept /\ Move("serve", snap[c])
  BY <1>2, <1>6 DEF NotHead, Serving
<1>7. ASSUME ClientEnds(c) PROVE Kept /\ Move("done", snap[c])
  BY <1>2, <1>7 DEF ClientEnds
<1>8. ASSUME UseFreed(c) PROVE Kept /\ Move("undefined", snap[c])
  BY <1>2, <1>8 DEF UseFreed
<1>9. ASSUME GetModules(c)
      PROVE  Kept /\ \E v \in PCs, w \in Seq(Implements) : Move(v, w)
  <2> DEFINE n == IF Len(chain) < MaxChain THEN Len(chain) ELSE MaxChain
             w == SubSeq(chain, 1, n)
             v == IF n = 0 THEN "serve" ELSE "call"
  <2>1. /\ Kept /\ Up
        /\ snap' = [snap EXCEPT ![c] = w]
        /\ cpc' = [cpc EXCEPT ![c] = v]
    BY <1>9 DEF GetModules, Serving
  <2>2. n \in 0 .. Len(chain)
    <3>1. Len(chain) \in Nat /\ MaxChain \in Nat
      BY <1>1, LenProperties, BoundsAssumption
    <3> QED
      BY <3>1
  <2>3. InOrder(chain)
    BY <2>1 DEF ServiceInv, LoaderInv, ThreadInv
  <2> HIDE DEF n
  <2>4. /\ w \in Seq(Implements) /\ Len(w) = n /\ InOrder(w)
        /\ Range(w) \subseteq Range(chain)
    BY <1>1, <2>2, <2>3, PrefixInOrder
  <2> HIDE DEF w
  <2>5. v = "call" => w # <<>>
    <3>1. w = <<>> => Len(w) = 0
      BY EmptySeq
    <3> QED
      BY <2>4, <3>1
  <2>6. v \in PCs
    OBVIOUS
  <2> HIDE DEF v, Kept
  <2>7. Move(v, w)
    BY <2>1, <2>4, <2>5
  <2> HIDE DEF Move
  <2> QED
    BY <2>1, <2>4, <2>6, <2>7
<1>10. ASSUME ModuleReturns(c)
       PROVE  Kept /\ \E v \in PCs, w \in Seq(Implements) : Move(v, w)
  <2> DEFINE w == Tail(snap[c])
             v == IF Len(snap[c]) = 1 THEN "serve" ELSE "call"
  <2>1. /\ Kept /\ cpc[c] = "call"
        /\ snap' = [snap EXCEPT ![c] = w]
        /\ cpc' = [cpc EXCEPT ![c] = v]
    BY <1>10 DEF ModuleReturns
  <2>2. /\ w \in Seq(Implements) /\ InOrder(w)
        /\ Range(w) \subseteq Range(snap[c])
        /\ Len(snap[c]) # 1 => w # <<>>
    BY <1>1, <2>1, TailInOrder
  <2>3. v \in PCs /\ (v = "call" => w # <<>>)
    BY <2>2
  <2> HIDE DEF v, w, Kept
  <2>4. Move(v, w)
    BY <1>1, <2>1, <2>2, <2>3
  <2> HIDE DEF Move
  <2> QED
    BY <2>1, <2>2, <2>3, <2>4
<1>11. ASSUME ModuleFails(c) PROVE Kept /\ Move("serve", <<>>) /\ <<>> \in Seq(Implements)
  <2>1. InOrder(<<>>) /\ <<>> \in Seq(Implements)
    BY EmptySeq DEF InOrder
  <2> QED
    BY <1>1, <1>11, <2>1 DEF ModuleFails
<1> HIDE DEF Kept, Move
<1>12. Kept /\ \E v \in PCs, w \in Seq(Implements) : Move(v, w)
  BY <1>1, <1>3, <1>4, <1>5, <1>6, <1>7, <1>8, <1>9, <1>10, <1>11 DEF Client
<1> QED
  BY <1>12 DEF Kept, Move

LEMMA ClientStep ==
  ASSUME ServiceInv, NEW c \in Clients, Client(c)
  PROVE  ServiceInv'
<1>1. /\ UNCHANGED <<upc, starts, result, server, thread, startup, spc, running>>
      /\ UNCHANGED <<initialised, file, loaded, chain, mapped, hooked, orphans, hung>>
  BY ClientMoves
<1>2. PICK v \in {"none", "serve", "locate", "call", "undefined", "done"},
           w \in Seq(Implements) :
        /\ cpc' = [cpc EXCEPT ![c] = v]
        /\ snap' = [snap EXCEPT ![c] = w]
        /\ InOrder(w)
        /\ v = "call" => w # <<>>
        /\ c \notin orphans /\ v \in {"serve", "locate", "call"} => Up
        /\ c \notin orphans /\ v = "call" /\ result = 0
             => Range(w) \subseteq Range(chain)
  BY ClientMoves
<1>3. TypeOK'
  BY <1>1, <1>2 DEF ServiceInv, TypeOK
<1>4. ThreadInv' /\ LoaderInv'
  BY <1>1 DEF ServiceInv, ThreadInv, LoaderInv, InOrder
<1>5. \A d \in Clients : /\ cpc'[d] = IF d = c THEN v ELSE cpc[d]
                         /\ snap'[d] = IF d = c THEN w ELSE snap[d]
  BY <1>2 DEF ServiceInv, TypeOK
<1>6. ChainInOrder'
  <2>1. \A d \in Clients : InOrder(snap'[d])
    BY <1>2, <1>5 DEF ServiceInv, ChainInOrder
  <2> QED
    BY <2>1 DEF ChainInOrder, InOrder
<1>7. ASSUME NEW d \in Clients
      PROVE  /\ cpc'[d] = "call" => snap'[d] # <<>>
             /\ d \notin orphans' /\ cpc'[d] \in {"serve", "locate", "call"}
                  => Up'
             /\ d \notin orphans' /\ cpc'[d] = "call" /\ result' = 0
                  => Range(snap'[d]) \subseteq Range(chain')
  <2>1. /\ cpc[d] = "call" => snap[d] # <<>>
        /\ d \notin orphans /\ cpc[d] \in {"serve", "locate", "call"} => Up
        /\ d \notin orphans /\ cpc[d] = "call" /\ result = 0
             => Range(snap[d]) \subseteq Range(chain)
    BY DEF ServiceInv, CallInv
  <2> QED
    BY <1>1, <1>2, <1>5, <2>1
<1>8. CallInv'
  BY <1>7 DEF CallInv
<1> QED
  BY <1>3, <1>4, <1>6, <1>8 DEF ServiceInv

\* Creating the service.
LEMMA StartStep ==
  ASSUME ServiceInv, NativeStartServer
  PROVE  ServiceInv'
<1> USE DEF helper, loader, clients
<1>t. /\ TypeOK /\ ThreadInv /\ LoaderInv /\ CallInv /\ ChainInOrder
      /\ NumModules \in Nat /\ MaxStarts \in Nat
  BY ModulesAssumption, BoundsAssumption DEF ServiceInv
<1>1. CASE StartServer
  <2>1. /\ upc = "destroyed" /\ starts < MaxStarts /\ starts' = starts + 1
        /\ UNCHANGED <<result, server, thread, startup, spc, running>>
        /\ UNCHANGED <<loaded, chain, mapped, hooked, cpc, snap, orphans,
                       hung>>
    BY <1>1 DEF StartServer
  <2>2. \/ /\ server # "null" \/ thread
           /\ upc' = "created"
           /\ UNCHANGED <<initialised, file>>
        \/ /\ server = "null" /\ ~thread
           /\ upc' = "loading" /\ initialised' = TRUE /\ file' = 1
    BY <1>1, <1>t DEF StartServer, LoaderInit, LoaderInv
  <2>3. starts' \in 0 .. MaxStarts /\ file' \in 1 .. NumModules + 1
    BY <1>t, <2>1, <2>2 DEF TypeOK
  <2>4. TypeOK'
    <3>1. upc' \in UiPCs /\ initialised' \in BOOLEAN
      BY <1>t, <2>2 DEF TypeOK, UiPCs
    <3> QED
      BY <1>t, <2>1, <2>3, <3>1 DEF TypeOK
  <2>5. ThreadInv'
    BY <1>t, <2>1, <2>2 DEF ThreadInv
  <2>6. chain = <<>> /\ loaded = <<>> /\ DOMAIN chain = {}
    BY <1>t, <2>1 DEF LoaderInv
  <2>7. LoaderInv'
    BY <1>t, <2>1, <2>2, <2>6 DEF LoaderInv, InOrder
  <2>8. CallInv' /\ ChainInOrder'
    BY <1>t, <2>1, CallsKept
  <2> QED
    BY <2>4, <2>5, <2>7, <2>8 DEF ServiceInv
<1>2. CASE LoadOne
  <2>1. /\ upc = "loading" /\ file <= NumModules /\ file' = file + 1
        /\ mapped' = mapped \cup {file}
        /\ loaded' = Append(loaded, file)
        /\ chain' = Register(chain, file)
        /\ UNCHANGED <<upc, starts, result, server, thread, startup, spc, running>>
        /\ UNCHANGED <<initialised, hooked, cpc, snap, orphans, hung>>
    BY <1>2 DEF LoadOne, RegisterModule
  <2>2. /\ file \in Modules /\ file' \in 1 .. NumModules + 1
        /\ loaded \in Seq(Modules) /\ chain \in Seq(Implements)
    BY <1>t, <2>1 DEF TypeOK, Modules
  <2>3. /\ chain' \in Seq(Implements)
        /\ Range(chain') \subseteq Range(chain) \cup {file}
        /\ \A i \in DOMAIN chain' : chain'[i] < file + 1
        /\ \A i, j \in DOMAIN chain' : i < j => chain'[i] <= chain'[j]
    BY <1>t, <2>1, <2>2, RegisterInLoadOrder DEF LoaderInv
  <2>4. Range(loaded') = Range(loaded) \cup {file} /\ loaded' \in Seq(Modules)
    BY <2>1, <2>2, AppendRange, AppendProperties
  <2>5. TypeOK'
    BY <1>t, <2>1, <2>2, <2>3, <2>4 DEF TypeOK
  <2>6. ThreadInv'
    BY <1>t, <2>1 DEF ThreadInv
  <2>7. LoaderInv'
    BY <1>t, <2>1, <2>3, <2>4 DEF LoaderInv
  <2>8. ~Up
    BY <1>t, <2>1 DEF ThreadInv
  <2>9. CallInv' /\ ChainInOrder'
    BY <1>t, <2>1, <2>8, CallsKept
  <2> QED
    BY <2>5, <2>6, <2>7, <2>9 DEF ServiceInv
<1>3. CASE SkipFile
  <2>1. /\ upc = "loading" /\ file <= NumModules /\ file' = file + 1
        /\ UNCHANGED <<upc, starts, result, server, thread, startup, spc, running>>
        /\ UNCHANGED <<initialised, loaded, chain, mapped, hooked, cpc, snap, orphans,
                       hung>>
    BY <1>3 DEF SkipFile
  <2>2. file \in Int /\ file' \in 1 .. NumModules + 1
    BY <1>t, <2>1 DEF TypeOK
  <2>3. TypeOK'
    BY <1>t, <2>1, <2>2 DEF TypeOK
  <2>4. ThreadInv'
    BY <1>t, <2>1 DEF ThreadInv
  <2>5. \A i \in DOMAIN chain : chain[i] < file + 1
    <3>1. \A i \in DOMAIN chain : chain[i] < file /\ chain[i] \in Int
      <4>1. \A i \in DOMAIN chain : chain[i] \in Implements
        BY <1>t, LenProperties DEF TypeOK
      <4>2. Modules \subseteq Int
        BY DEF Modules
      <4> QED
        BY <1>t, <2>1, <4>1, <4>2 DEF LoaderInv, Implements
    <3> QED
      BY <2>2, <3>1
  <2>6. LoaderInv'
    BY <1>t, <2>1, <2>5 DEF LoaderInv
  <2>7. CallInv' /\ ChainInOrder'
    BY <1>t, <2>1, CallsKept
  <2> QED
    BY <2>3, <2>4, <2>6, <2>7 DEF ServiceInv
<1>4. CASE FinishLoad
  <2>1. /\ upc = "loading"
        /\ chain' = SortByPriority(chain)
        /\ hooked' = Range(loaded)
        /\ upc' = "spawn"
        /\ UNCHANGED <<starts, result, server, thread, startup, spc, running>>
        /\ UNCHANGED <<initialised, file, loaded, mapped, cpc, snap, orphans, hung>>
    BY <1>4 DEF FinishLoad, FireLoad
  <2>2. /\ chain' \in Seq(Implements)
        /\ Range(chain') = Range(chain)
        /\ InOrder(chain')
    <3>1. Implements \in SUBSET Modules /\ chain \in Seq(Implements)
      BY <1>t DEF TypeOK, Implements
    <3>2. \A i, j \in DOMAIN chain : i < j => chain[i] <= chain[j]
      BY <1>t, <2>1 DEF LoaderInv
    <3> QED
      BY <2>1, <3>1, <3>2, SortResult
  <2>3. hooked' \subseteq Modules
    BY <1>t, <2>1, RangeOfSeq DEF TypeOK
  <2>4. TypeOK'
    BY <1>t, <2>1, <2>2, <2>3 DEF TypeOK, UiPCs
  <2>5. ThreadInv'
    BY <1>t, <2>1 DEF ThreadInv
  <2>6. LoaderInv'
    BY <1>t, <2>1, <2>2 DEF LoaderInv, InOrder
  <2>7. ~Up
    BY <1>t, <2>1 DEF ThreadInv
  <2>8. CallInv' /\ ChainInOrder'
    BY <1>t, <2>1, <2>7, CallsKept
  <2> QED
    BY <2>4, <2>5, <2>6, <2>8 DEF ServiceInv
<1>5. CASE SpawnServer
  <2>1. /\ upc = "spawn" /\ upc' = "created"
        /\ thread' = TRUE /\ spc' = "init" /\ running' = TRUE
        /\ UNCHANGED <<starts, result, server, startup>>
        /\ UNCHANGED <<initialised, file, loaded, chain, mapped, hooked, cpc, snap, orphans,
                       hung>>
    BY <1>5 DEF SpawnServer
  <2>2. TypeOK'
    BY <1>t, <2>1 DEF TypeOK, UiPCs
  <2>3. ThreadInv'
    BY <1>t, <2>1 DEF ThreadInv, LoaderInv
  <2>4. LoaderInv'
    BY <1>t, <2>1 DEF LoaderInv, InOrder
  <2>5. ~Up
    BY <1>t, <2>1 DEF ThreadInv
  <2>6. CallInv' /\ ChainInOrder'
    BY <1>t, <2>1, <2>5, CallsKept
  <2> QED
    BY <2>2, <2>3, <2>4, <2>6 DEF ServiceInv
<1> QED
  BY <1>1, <1>2, <1>3, <1>4, <1>5 DEF NativeStartServer

\* The server thread.
LEMMA ServerStep ==
  ASSUME ServiceInv, Server \/ ServerStopsItself \/ ServerHangs
  PROVE  ServiceInv'
<1> USE DEF helper, loader, clients
<1>t. TypeOK /\ ThreadInv /\ LoaderInv /\ CallInv /\ ChainInOrder
  BY DEF ServiceInv
<1>1. /\ UNCHANGED <<upc, starts, result, thread, cpc, snap>>
      /\ UNCHANGED <<initialised, file, loaded, chain, mapped, hooked>>
  BY DEF Server, EnterMainloop, InitFails, LeaveMainloop, TeardownAll, ServerStopsItself,
      ServerHangs
<1>2. LoaderInv'
  BY <1>t, <1>1 DEF LoaderInv, InOrder
<1>3. TypeOK'
  BY <1>t
  DEF Server, EnterMainloop, InitFails, LeaveMainloop, TeardownAll, ServerStopsItself,
      ServerHangs, TypeOK
<1>4. ThreadInv'
  BY <1>t
  DEF Server, EnterMainloop, InitFails, LeaveMainloop, TeardownAll, ServerStopsItself,
      ServerHangs, ThreadInv
<1>5. /\ orphans \subseteq orphans'
      /\ \A c \in Clients \ orphans' :
           cpc[c] \in {"serve", "locate", "call"} /\ Up => Up'
  BY <1>t
  DEF Server, EnterMainloop, InitFails, LeaveMainloop, TeardownAll, ServerStopsItself,
      ServerHangs, TypeOK
<1>6. CallInv' /\ ChainInOrder'
  BY <1>t, <1>1, <1>5, CallsKept
<1> QED
  BY <1>2, <1>3, <1>4, <1>6 DEF ServiceInv

\* Destroying the service.
LEMMA ShutdownStep ==
  ASSUME ServiceInv, NativeShutdownServer
  PROVE  ServiceInv'
<1> USE DEF helper, loader, clients
<1>t. TypeOK /\ ThreadInv /\ LoaderInv /\ CallInv /\ ChainInOrder
  BY DEF ServiceInv
<1>e. /\ <<>> \in Seq(Modules) /\ <<>> \in Seq(Implements)
      /\ Range(<<>>) = {} /\ InOrder(<<>>)
  BY EmptySeq DEF Range, InOrder
<1>1. CASE ShutdownServer
  <2>1. /\ upc = "created"
        /\ UNCHANGED <<starts, server, thread, startup, spc, cpc, snap, orphans, hung>>
        /\ UNCHANGED <<initialised, file, loaded, chain, mapped, hooked>>
        /\ \/ result' = -1 /\ upc' = "unload" /\ UNCHANGED running
           \/ thread /\ running' = FALSE /\ upc' = "joining" /\ UNCHANGED result
    BY <1>1 DEF ShutdownServer
  <2>2. TypeOK'
    BY <1>t, <2>1 DEF TypeOK, UiPCs
  <2>3. ThreadInv'
    BY <1>t, <2>1 DEF ThreadInv
  <2>4. LoaderInv'
    BY <1>t, <2>1 DEF LoaderInv, InOrder
  <2>5. CallInv' /\ ChainInOrder'
    BY <1>t, <2>1, CallsKept
  <2> QED
    BY <2>2, <2>3, <2>4, <2>5 DEF ServiceInv
<1>2. CASE JoinServer
  <2>1. /\ upc = "joining" /\ upc' = "unload"
        /\ spc = "ended" /\ spc' = "none"
        /\ thread' = FALSE /\ server' = "null" /\ startup' = FALSE /\ result' = 0
        /\ UNCHANGED <<starts, running, cpc, snap, orphans, hung>>
        /\ UNCHANGED <<initialised, file, loaded, chain, mapped, hooked>>
    BY <1>2 DEF JoinServer
  <2>2. TypeOK'
    BY <1>t, <2>1 DEF TypeOK, UiPCs
  <2>3. ThreadInv'
    BY <1>t, <2>1 DEF ThreadInv
  <2>4. LoaderInv'
    BY <1>t, <2>1 DEF LoaderInv, InOrder
  <2>5. CallInv' /\ ChainInOrder'
    BY <1>t, <2>1, CallsKept
  <2> QED
    BY <2>2, <2>3, <2>4, <2>5 DEF ServiceInv
<1>3. CASE LoaderShutdown
  <2>1. /\ upc = "unload" /\ initialised' = FALSE
        /\ \/ ~initialised /\ upc' = "destroyed" /\ UNCHANGED hooked
           \/ initialised /\ upc' = "clear" /\ hooked' = {}
        /\ UNCHANGED <<starts, result, server, thread, startup, spc, running>>
        /\ UNCHANGED <<file, loaded, chain, mapped, cpc, snap, orphans, hung>>
    BY <1>3 DEF LoaderShutdown, FireUnload
  <2>2. TypeOK'
    BY <1>t, <2>1 DEF TypeOK, UiPCs
  <2>3. ThreadInv'
    BY <1>t, <2>1 DEF ThreadInv
  <2>4. LoaderInv'
    BY <1>t, <2>1 DEF LoaderInv, InOrder
  <2>5. CallInv' /\ ChainInOrder'
    BY <1>t, <2>1, CallsKept
  <2> QED
    BY <2>2, <2>3, <2>4, <2>5 DEF ServiceInv
<1>4. CASE ClearDispatch
  <2>1. /\ upc = "clear" /\ upc' = "dlclose" /\ chain' = <<>>
        /\ UNCHANGED <<starts, result, server, thread, startup, spc, running>>
        /\ UNCHANGED <<initialised, file, loaded, mapped, hooked, cpc, snap, orphans,
                       hung>>
    BY <1>4 DEF ClearDispatch
  <2>2. TypeOK'
    BY <1>t, <1>e, <2>1 DEF TypeOK, UiPCs
  <2>3. ThreadInv'
    BY <1>t, <2>1 DEF ThreadInv
  <2>4. InOrder(chain') /\ Range(chain') = {}
    BY <1>e, <2>1
  <2>5. LoaderInv'
    BY <1>t, <2>1, <2>4 DEF LoaderInv, InOrder
  <2>6. result = 0 => ~Up
    BY <1>t, <2>1 DEF ThreadInv
  <2>7. CallInv' /\ ChainInOrder'
    BY <1>t, <2>1, <2>6, CallsKept
  <2> QED
    BY <2>2, <2>3, <2>5, <2>7 DEF ServiceInv
<1>5. CASE DlcloseAll
  <2>1. /\ upc = "dlclose" /\ upc' = "destroyed"
        /\ mapped' = mapped \ Range(loaded) /\ loaded' = <<>>
        /\ UNCHANGED <<starts, result, server, thread, startup, spc, running>>
        /\ UNCHANGED <<initialised, file, chain, hooked, cpc, snap, orphans, hung>>
    BY <1>5 DEF DlcloseAll
  <2>2. TypeOK'
    BY <1>t, <1>e, <2>1 DEF TypeOK, UiPCs
  <2>3. ThreadInv'
    BY <1>t, <2>1 DEF ThreadInv
  <2>4. Range(loaded') = {} /\ mapped' = {} /\ Range(chain) = {} /\ chain = <<>>
    BY <1>t, <1>e, <2>1 DEF LoaderInv
  <2>5. LoaderInv'
    BY <1>t, <2>1, <2>4 DEF LoaderInv, InOrder
  <2>6. CallInv' /\ ChainInOrder'
    BY <1>t, <2>1, CallsKept
  <2> QED
    BY <2>2, <2>3, <2>5, <2>6 DEF ServiceInv
<1> QED
  BY <1>1, <1>2, <1>3, <1>4, <1>5 DEF NativeShutdownServer

LEMMA ModuleHangsStep ==
  ASSUME ServiceInv, ModuleHangs
  PROVE  ServiceInv'
<1>1. /\ UNCHANGED <<upc, starts, result, server, thread, startup, spc, running>>
      /\ UNCHANGED <<initialised, file, loaded, chain, mapped, hooked, cpc, snap, orphans>>
      /\ hung' = hung \cup {"ui"}
  BY DEF ModuleHangs, helper, loader, clients
<1>2. TypeOK' /\ ThreadInv'
  BY <1>1 DEF ServiceInv, TypeOK, ThreadInv
<1>3. LoaderInv'
  BY <1>1 DEF ServiceInv, LoaderInv, InOrder
<1>4. CallInv' /\ ChainInOrder'
  BY <1>1, CallsKept DEF ServiceInv
<1> QED
  BY <1>2, <1>3, <1>4 DEF ServiceInv

-----------------------------------------------------------------------------

\* The service's invariant holds through every life of the service, with any
\* number of modules and client threads.
THEOREM ServiceInvariant == Spec => []ServiceInv
<1>1. ServiceInv /\ [Next]_vars => ServiceInv'
  <2> SUFFICES ASSUME ServiceInv, [Next]_vars PROVE ServiceInv'
    OBVIOUS
  <2>1. CASE UNCHANGED vars
    <3>1. /\ TypeOK' /\ ThreadInv'
      BY <2>1 DEF vars, ServiceInv, TypeOK, ThreadInv
    <3>2. LoaderInv'
      BY <2>1 DEF vars, ServiceInv, LoaderInv, InOrder
    <3>3. CallInv' /\ ChainInOrder'
      BY <2>1, CallsKept DEF vars, ServiceInv
    <3> QED
      BY <3>1, <3>2, <3>3 DEF ServiceInv
  <2>2. CASE NativeStartServer
    BY <2>2, StartStep
  <2>3. CASE NativeShutdownServer
    BY <2>3, ShutdownStep
  <2>6. CASE ModuleHangs
    BY <2>6, ModuleHangsStep
  <2>4. CASE Server \/ ServerStopsItself \/ ServerHangs
    BY <2>4, ServerStep
  <2>5. CASE \E c \in Clients : Client(c)
    BY <2>5, ClientStep
  <2> QED
    BY <2>1, <2>2, <2>3, <2>4, <2>5, <2>6 DEF Next
<1> QED
  BY <1>1, ServiceInvInit, PTL DEF Spec

\* Every variable keeps its type: the file iteration stays within the directory
\* and the registry holds only modules that have the function.
THEOREM ServiceTypes == Spec => []TypeOK
<1>1. ServiceInv => TypeOK
  BY DEF ServiceInv
<1> QED
  BY <1>1, ServiceInvariant, PTL

\* Every client calls the modules in order of priority, ties in load order,
\* however often the service is destroyed and created.
THEOREM ModulesCalledInOrder == Spec => []ChainInOrder
<1>1. ServiceInv => ChainInOrder
  BY DEF ServiceInv
<1> QED
  BY <1>1, ServiceInvariant, PTL

\* Outside the loader's own functions the registry holds no function of a module
\* that is not mapped or not hooked.
THEOREM RegistryIsConsistent == Spec => []RegistryConsistent
<1>1. ServiceInv => RegistryConsistent
  <2> SUFFICES ASSUME LoaderInv, upc \in {"created", "joining", "destroyed"}
               PROVE  Range(chain) \subseteq mapped \cap hooked
    BY DEF ServiceInv, RegistryConsistent
  <2>1. CASE initialised
    BY <2>1 DEF LoaderInv
  <2>2. CASE ~initialised
    <3>1. chain = <<>>
      BY <2>2 DEF LoaderInv
    <3> QED
      BY <3>1 DEF Range
  <2> QED
    BY <2>1, <2>2
<1> QED
  BY <1>1, ServiceInvariant, PTL

\* A service created after a shutdown that returned 0 has its thread and its
\* modules.
THEOREM ServiceStartsAgain == Spec => []StartsAgain
<1>1. ServiceInv => StartsAgain
  BY DEF ServiceInv, ThreadInv, StartsAgain
<1> QED
  BY <1>1, ServiceInvariant, PTL

\* As long as the server has not been freed under a client thread, a shutdown
\* that returned 0 has unmapped no module that the thread is in or is going to
\* call: only the orphans of the main loop can be in unmapped code.
THEOREM ServedCallsStayMapped == Spec => []ServedCallsMapped
<1>1. ServiceInv => ServedCallsMapped
  BY DEF ServiceInv, CallInv, LoaderInv, ServedCallsMapped
<1> QED
  BY <1>1, ServiceInvariant, PTL

\* The helper has a server only once the server thread has reported that it is up.
ReportedInv == server # "null" => spc \in {"loop", "teardown", "ended"}

\* A join begins only with a server that is past its start, and the server thread
\* does not go back.
LEMMA JoinStep ==
  ServiceInv /\ ReportedInv /\ JoinMeetsNoMutex /\ [Next]_vars
    => ReportedInv' /\ JoinMeetsNoMutex'
<1> SUFFICES ASSUME ThreadInv, ReportedInv, JoinMeetsNoMutex, [Next]_vars
             PROVE  ReportedInv' /\ JoinMeetsNoMutex'
  BY DEF ServiceInv
<1> USE DEF ReportedInv, JoinMeetsNoMutex
<1>1. CASE StartServer
  BY <1>1 DEF StartServer, LoaderInit, helper
<1>2. CASE LoadOne \/ SkipFile \/ FinishLoad
  BY <1>2 DEF LoadOne, SkipFile, FinishLoad, helper
<1>3. CASE SpawnServer
  BY <1>3 DEF SpawnServer, ThreadInv
<1>4. CASE ShutdownServer
  BY <1>4 DEF ShutdownServer
<1>5. CASE JoinServer
  BY <1>5 DEF JoinServer
<1>6. CASE LoaderShutdown \/ ClearDispatch \/ DlcloseAll
  BY <1>6 DEF LoaderShutdown, ClearDispatch, DlcloseAll, helper
<1>7. CASE EnterMainloop \/ InitFails
  BY <1>7 DEF EnterMainloop, InitFails, MutexFree
<1>8. CASE LeaveMainloop \/ TeardownAll \/ ServerStopsItself
  BY <1>8 DEF LeaveMainloop, TeardownAll, ServerStopsItself, helper
<1>12. CASE ServerHangs \/ ModuleHangs
  BY <1>12 DEF ServerHangs, ModuleHangs, helper
<1>9. ASSUME NEW c \in Clients, Client(c) PROVE UNCHANGED <<upc, server, spc, running>>
  BY <1>9 DEF Client, Connect, Dispatch, DefaultFails, NotHead, GetModules, ModuleReturns,
              ModuleFails, ClientEnds, UseFreed, helper
<1>10. CASE UNCHANGED <<upc, server, spc, running>>
  BY <1>10
<1>11. CASE UNCHANGED vars
  BY <1>10, <1>11 DEF vars, helper
<1> QED
  BY <1>1, <1>2, <1>3, <1>4, <1>5, <1>6, <1>7, <1>8, <1>9, <1>10, <1>11, <1>12
  DEF Next, NativeStartServer, NativeShutdownServer, Server

\* nativeShutdownServer never joins, with server_mutex held, a server thread that
\* still wants the mutex or has not been told to stop: the part of ShutdownReturns
\* that is not fairness.
THEOREM JoinIsNotStuck == Spec => []JoinMeetsNoMutex
<1>1. Init => ReportedInv /\ JoinMeetsNoMutex
  BY DEF Init, ReportedInv, JoinMeetsNoMutex
<1> QED
  BY <1>1, JoinStep, ServiceInvariant, PTL DEF Spec
==============================================================================
