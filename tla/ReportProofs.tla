---------------------------- MODULE ReportProofs ----------------------------
(***************************************************************************)
(* Proofs about Report and its Catalog for every value of the constants.   *)
(***************************************************************************)
EXTENDS Report, Sums

-----------------------------------------------------------------------------
(* Numbers and sequences.                                                  *)

\* A finite set of numbers has a largest and a smallest member.
LEMMA MaxIn ==
  ASSUME NEW S, \A x \in S : x \in Nat, IsFiniteSet(S), S # {}
  PROVE  Max(S) \in S /\ \A y \in S : Max(S) >= y
  <1> DEFINE Above(x) == {y \in S : y >= x}
             B == {Above(x) : x \in S}
  <1>0. B \in SUBSET (SUBSET S)
    OBVIOUS
  <1>1. B # {}
    OBVIOUS
  <1>2. PICK U \in B : \A V \in B : ~(V \subseteq U /\ V # U)
    <2> HIDE DEF B
    <2>1. QED
      BY <1>0, <1>1, SmallestSet, SMTT(30)
  <1>3. PICK x \in S : U = Above(x)
    OBVIOUS
  <1>4. ASSUME NEW y \in S PROVE x >= y
    <2> SUFFICES ASSUME y > x PROVE FALSE
      OBVIOUS
    <2>1. Above(y) \in B
      OBVIOUS
    <2>2. \A z \in S : z >= y => z >= x
      OBVIOUS
    <2>3. Above(y) \subseteq U
      BY <1>3, <2>2
    <2>4. x \in U /\ x \notin Above(y)
      BY <1>3
    <2> HIDE DEF B, Above
    <2>5. QED
      BY <1>2, <2>1, <2>3, <2>4
  <1> HIDE DEF B, Above
  <1>5. QED
    BY <1>4 DEF Max

LEMMA MinIn ==
  ASSUME NEW S, \A x \in S : x \in Nat, IsFiniteSet(S), S # {}
  PROVE  Min(S) \in S /\ \A y \in S : Min(S) <= y
  <1> DEFINE Below(x) == {y \in S : y <= x}
             B == {Below(x) : x \in S}
  <1>0. B \in SUBSET (SUBSET S)
    OBVIOUS
  <1>1. B # {}
    OBVIOUS
  <1>2. PICK U \in B : \A V \in B : ~(V \subseteq U /\ V # U)
    <2> HIDE DEF B
    <2>1. QED
      BY <1>0, <1>1, SmallestSet, SMTT(30)
  <1>3. PICK x \in S : U = Below(x)
    OBVIOUS
  <1>4. ASSUME NEW y \in S PROVE x <= y
    <2> SUFFICES ASSUME y < x PROVE FALSE
      OBVIOUS
    <2>1. Below(y) \in B
      OBVIOUS
    <2>2. \A z \in S : z <= y => z <= x
      OBVIOUS
    <2>3. Below(y) \subseteq U
      BY <1>3, <2>2
    <2>4. x \in U /\ x \notin Below(y)
      BY <1>3
    <2> HIDE DEF B, Below
    <2>5. QED
      BY <1>2, <2>1, <2>3, <2>4
  <1> HIDE DEF B, Below
  <1>5. QED
    BY <1>4 DEF Min

-----------------------------------------------------------------------------
(* load_from_optionchain: the fold over the rows of a file.                *)

\* g holds what the rows of every subset S of the file load to, in order.
Loads(g, file, S) ==
    g = [s \in SUBSET S |->
            IF s = {} THEN <<>> ELSE AddRow(g[s \ {Max(s)}], file[Max(s)])]

LEMMA LoadsAt ==
  ASSUME NEW g, NEW file, NEW S, Loads(g, file, S), NEW U \in SUBSET S
  PROVE  g[U] = IF U = {} THEN <<>> ELSE AddRow(g[U \ {Max(U)}], file[Max(U)])
  BY Zenon DEF Loads

\* The last row of U is loaded after the others.
LastLoaded(g, file, U) == g[U] = AddRow(g[U \ {Max(U)}], file[Max(U)])

LEMMA LoadsNext ==
  ASSUME NEW g, NEW file, NEW S, Loads(g, file, S), NEW U \in SUBSET S, U # {}
  PROVE  LastLoaded(g, file, U)
  <1>1. g[U] = IF U = {} THEN <<>> ELSE AddRow(g[U \ {Max(U)}], file[Max(U)])
    BY Zenon DEF Loads
  <1>2. QED
    BY <1>1, Zenon DEF LastLoaded

LEMMA LoadsAgree ==
  ASSUME NEW file, NEW S, NEW T, NEW g, NEW h, Loads(g, file, S), Loads(h, file, T),
         NEW U \in SUBSET S, U \in SUBSET T, U # {},
         g[U \ {Max(U)}] = h[U \ {Max(U)}]
  PROVE  g[U] = h[U]
  <1>1. LastLoaded(g, file, U) /\ LastLoaded(h, file, U)
    BY LoadsNext
  <1>2. QED
    BY <1>1 DEF LastLoaded

LEMMA LoadsUnique ==
  ASSUME NEW file, NEW S, NEW T, IsFiniteSet(S), \A x \in S : x \in Nat, NEW g, NEW h,
         Loads(g, file, S), Loads(h, file, T), S \subseteq T
  PROVE  \A U \in SUBSET S : g[U] = h[U]
  <1> DEFINE Bad == {U \in SUBSET S : g[U] # h[U]}
  <1> SUFFICES ASSUME Bad # {} PROVE FALSE
    OBVIOUS
  <1>0. Bad \in SUBSET (SUBSET S)
    OBVIOUS
  <1>1. PICK U \in Bad : \A V \in Bad : ~(V \subseteq U /\ V # U)
    <2> HIDE DEF Bad
    <2>1. QED
      BY <1>0, SmallestSet, SMTT(30)
  <1>2. U \in SUBSET S /\ U \in SUBSET T
    OBVIOUS
  <1>3. CASE U = {}
    BY <1>2, <1>3, LoadsAt
  <1>4. CASE U # {}
    <2> DEFINE x == Max(U)
    <2>0. IsFiniteSet(U) /\ \A y \in U : y \in Nat
      BY <1>2, FS_Subset
    <2>1. x \in U
      BY <1>4, <2>0, MaxIn
    <2>2. g[U \ {x}] = h[U \ {x}]
      BY <1>1, <1>2, <2>1
    <2>3. QED
      BY <1>2, <1>4, <2>2, LoadsAgree
  <1>5. QED
    BY <1>3, <1>4

LEMMA LoadsExists ==
  ASSUME NEW file, NEW S, IsFiniteSet(S), \A x \in S : x \in Nat
  PROVE  \E g : Loads(g, file, S)
  <1> DEFINE Bad == {U \in SUBSET S : ~\E g : Loads(g, file, U)}
  <1> SUFFICES ASSUME Bad # {} PROVE FALSE
    OBVIOUS
  <1>0. Bad \in SUBSET (SUBSET S)
    OBVIOUS
  <1>1. PICK U \in Bad : \A V \in Bad : ~(V \subseteq U /\ V # U)
    <2> HIDE DEF Bad
    <2>1. QED
      BY <1>0, SmallestSet, SMTT(30)
  <1>2. \A V \in SUBSET U : V # U => \E g : Loads(g, file, V)
    BY <1>1
  <1> DEFINE G(V) == CHOOSE g : Loads(g, file, V)
             k == [s \in SUBSET U |->
                      IF s = U /\ U # {}
                      THEN AddRow(G(U \ {Max(U)})[U \ {Max(U)}], file[Max(U)])
                      ELSE IF s = {} THEN <<>> ELSE G(s)[s]]
  <1>3. \A V \in SUBSET U : V # U => Loads(G(V), file, V)
    BY <1>2, Zenon
  <1>4. \A V \in SUBSET U : IsFiniteSet(V) /\ \A y \in V : y \in Nat
    BY FS_Subset
  <1> HIDE DEF G
  <1>5. ASSUME NEW s \in SUBSET U
        PROVE  k[s] = IF s = {} THEN <<>> ELSE AddRow(k[s \ {Max(s)}], file[Max(s)])
    <2>1. CASE s = {}
      BY <2>1
    <2>2. CASE s # {}
      <3> DEFINE y == Max(s)
                 r == s \ {y}
      <3>1. y \in s
        BY <2>2, <1>4, MaxIn
      <3> HIDE DEF y
      <3>2. r \in SUBSET U /\ r # U /\ r # s
        BY <3>1
      <3>3. k[r] = G(r)[r]
        <4>1. CASE r = {}
          <5>1. Loads(G(r), file, r)
            BY <1>3, <3>2
          <5>2. G(r)[r] = <<>>
            BY <4>1, <5>1, LoadsAt
          <5>3. k[r] = <<>>
            BY <3>2, <4>1
          <5>4. QED
            BY <5>2, <5>3
        <4>2. CASE r # {}
          BY <3>2, <4>2
        <4>3. QED
          BY <4>1, <4>2
      <3>4. k[s] = AddRow(G(r)[r], file[y])
        <4>1. CASE s = U
          BY <2>2, <4>1 DEF y
        <4>2. CASE s # U
          <5>1. Loads(G(s), file, s) /\ Loads(G(r), file, r)
            BY <1>3, <3>2, <4>2
          <5>2. G(s)[s] = AddRow(G(s)[r], file[y])
            <6>1. LastLoaded(G(s), file, s)
              BY <2>2, <5>1, LoadsNext
            <6>2. QED
              BY <6>1, Zenon DEF y, LastLoaded
          <5>3. G(r)[r] = G(s)[r]
            BY <1>4, <3>2, <5>1, LoadsUnique
          <5>4. k[s] = G(s)[s]
            BY <2>2, <4>2
          <5>5. QED
            BY <5>2, <5>3, <5>4
        <4>3. QED
          BY <4>1, <4>2
      <3>5. k[s] = AddRow(k[r], file[y])
        BY <3>3, <3>4
      <3>6. QED
        BY <2>2, <3>5 DEF y
    <2>3. QED
      BY <2>1, <2>2
  <1>6. k = [s \in SUBSET U |-> k[s]]
    OBVIOUS
  <1>7. Loads(k, file, U)
    <2> HIDE DEF k
    <2>1. QED
      BY <1>5, <1>6 DEF Loads
  <1>8. QED
    BY <1>1, <1>7

\* What a load leaves: no code twice, no refused row.
Listed(infos) ==
    /\ infos \in Seq(Row)
    /\ \A i, j \in DOMAIN infos : infos[i].code = infos[j].code => i = j
    /\ \A i \in DOMAIN infos : infos[i].kind # "other"

LEMMA NoneListed == Listed(<<>>)
  BY DEF Listed

LEMMA AddRowLists ==
  ASSUME NEW infos, Listed(infos), NEW r \in Row
  PROVE  Listed(AddRow(infos, r))
  <1>1. Parsed(r) \in Row /\ Parsed(r).code = r.code /\ Parsed(r).kind = r.kind
    BY CatalogConstantsOK DEF Parsed, Row
  <1>2. CASE r.kind = "other"
    BY <1>2 DEF AddRow
  <1>3. CASE r.kind # "other" /\ \E i \in DOMAIN infos : infos[i].code = r.code
    <2> DEFINE new == [i \in DOMAIN infos |->
                          IF infos[i].code = r.code THEN Parsed(r) ELSE infos[i]]
    <2>1. AddRow(infos, r) = new
      BY <1>3, Zenon DEF AddRow
    <2>2. new \in Seq(Row) /\ DOMAIN new = DOMAIN infos
      BY <1>1 DEF Listed
    <2>3. \A i \in DOMAIN infos : new[i].code = infos[i].code /\ new[i].kind # "other"
      BY <1>1, <1>3 DEF Listed
    <2> HIDE DEF new
    <2>4. QED
      BY <2>1, <2>2, <2>3 DEF Listed
  <1>4. CASE r.kind # "other" /\ ~\E i \in DOMAIN infos : infos[i].code = r.code
    <2> DEFINE new == Append(infos, Parsed(r))
    <2>1. AddRow(infos, r) = new
      BY <1>4, Zenon DEF AddRow
    <2>2. new \in Seq(Row) /\ DOMAIN new = DOMAIN infos \cup {Len(infos) + 1}
      BY <1>1 DEF Listed
    <2>3. /\ \A i \in DOMAIN infos : new[i] = infos[i]
          /\ new[Len(infos) + 1] = Parsed(r)
      BY <1>1 DEF Listed
    <2> HIDE DEF new
    <2>4. QED
      BY <1>1, <1>4, <2>1, <2>2, <2>3 DEF Listed
  <1>5. QED
    BY <1>2, <1>3, <1>4

LEMMA ChainListed ==
  ASSUME NEW file \in Seq(Row)
  PROVE  Listed(LoadChain(file))
  <1> DEFINE S == DOMAIN file
  <1>1. S = 1 .. Len(file) /\ IsFiniteSet(S) /\ \A x \in S : x \in Nat
    BY FS_Interval
  <1>2. \E g : Loads(g, file, S)
    BY <1>1, LoadsExists
  <1> DEFINE g == CHOOSE h : Loads(h, file, S)
  <1>3. Loads(g, file, S)
    BY <1>2, Zenon
  <1>4. LoadChain(file) = g[S]
    BY Zenon DEF LoadChain, FoldLeft, MapThenFoldSet, Loads
  <1> HIDE DEF g
  <1> DEFINE Bad == {U \in SUBSET S : ~Listed(g[U])}
  <1>5. ASSUME Bad # {} PROVE FALSE
    <2>0. Bad \in SUBSET (SUBSET S)
      OBVIOUS
    <2>1. PICK U \in Bad : \A V \in Bad : ~(V \subseteq U /\ V # U)
      <3> HIDE DEF Bad
      <3>1. QED
        BY <1>1, <1>5, <2>0, SmallestSet, SMTT(30)
    <2>2. U \in SUBSET S /\ ~Listed(g[U])
      OBVIOUS
    <2>3. \A y \in U : U \ {y} \in SUBSET S /\ Listed(g[U \ {y}])
      BY <2>1
    <2> HIDE DEF Bad
    <2>4. CASE U = {}
      <3>1. g[U] = <<>>
        BY <1>3, <2>4, LoadsAt
      <3>2. QED
        BY <2>2, <3>1, NoneListed
    <2>5. CASE U # {}
      <3> DEFINE x == Max(U)
      <3>1. IsFiniteSet(U) /\ \A y \in U : y \in Nat
        BY <1>1, <2>2, FS_Subset
      <3>2. x \in U
        BY <2>5, <3>1, MaxIn
      <3>3. g[U] = AddRow(g[U \ {x}], file[x])
        <4>1. LastLoaded(g, file, U)
          BY <1>3, <2>2, <2>5, LoadsNext
        <4>2. QED
          BY <4>1, Zenon DEF LastLoaded
      <3> HIDE DEF x
      <3>4. Listed(g[U \ {x}])
        BY <2>3, <3>2
      <3>5. file[x] \in Row
        BY <2>2, <3>2
      <3>6. Listed(AddRow(g[U \ {x}], file[x]))
        BY <3>4, <3>5, AddRowLists
      <3>7. QED
        BY <2>2, <3>3, <3>6
    <2>6. QED
      BY <2>4, <2>5
  <1>6. QED
    BY <1>4, <1>5

-----------------------------------------------------------------------------
(* The pairs a run trades.                                                 *)

\* The pairs the engine opens: both contracts were loaded.
Tradable == {p \in pairs : Traded(p[1]) /\ Traded(p[2])}

\* The call and the put of a pair have one expiry and one strike.
Matched(p) ==
    /\ Contract(p[1]).kind = "call" /\ Contract(p[2]).kind = "put"
    /\ Contract(p[1]).expiry = Contract(p[2]).expiry
    /\ Contract(p[1]).strike = Contract(p[2]).strike

\* No code has two contracts, and no expiry and strike have two pairs.
Paired ==
    /\ contracts \subseteq Row
    /\ \A x, y \in contracts : x.code = y.code => x = y
    /\ \A p \in Tradable : p = <<p[1], p[2]>> /\ p[1] \in Codes /\ p[2] \in Codes
    /\ \A p \in Tradable : Matched(p)
    /\ \A p, r \in Tradable :
          /\ Contract(p[1]).expiry = Contract(r[1]).expiry
          /\ Contract(p[1]).strike = Contract(r[1]).strike
          => p = r

LEMMA KeptIs ==
  ASSUME NEW infos, Listed(infos), NEW kind, NEW e, NEW k, Places(infos, kind, e, k) # {}
  PROVE  \E i \in DOMAIN infos :
            /\ infos[i].code = Kept(infos, kind, e, k)
            /\ infos[i].kind = kind /\ infos[i].expiry = e /\ infos[i].strike = k
  <1> DEFINE P == Places(infos, kind, e, k)
  <1>1. DOMAIN infos = 1 .. Len(infos) /\ Len(infos) \in Nat
    BY DEF Listed
  <1>2. P \subseteq DOMAIN infos
    BY DEF Places
  <1> HIDE DEF P
  <1>3. IsFiniteSet(P) /\ \A x \in P : x \in Nat
    <2>1. IsFiniteSet(1 .. Len(infos))
      BY <1>1, FS_Interval
    <2>2. IsFiniteSet(P)
      BY <1>1, <1>2, <2>1, FS_Subset
    <2>3. QED
      BY <1>1, <1>2, <2>2
  <1>4. P # {}
    BY DEF P
  <1>5. Max(P) \in P
    BY <1>3, <1>4, MaxIn
  <1>6. QED
    BY <1>5 DEF P, Places, Kept

LEMMA ContractIs ==
  ASSUME NEW x \in contracts, \A y, z \in contracts : y.code = z.code => y = z
  PROVE  Contract(x.code) = x
  BY DEF Contract

LEMMA PairsOfFile ==
  ASSUME NEW infos, Listed(infos), NEW e,
         NEW p \in FindPairs(infos, e)
  PROVE  /\ p = <<p[1], p[2]>>
         /\ \E k : \E i, j \in DOMAIN infos :
              /\ p[1] = infos[i].code /\ p[2] = infos[j].code
              /\ infos[i].kind = "call" /\ infos[j].kind = "put"
              /\ infos[i].expiry = e /\ infos[j].expiry = e
              /\ infos[i].strike = k /\ infos[j].strike = k
              /\ p = <<Kept(infos, "call", e, k), Kept(infos, "put", e, k)>>
  <1>1. PICK k \in Strikes : /\ Places(infos, "call", e, k) # {}
                             /\ Places(infos, "put", e, k) # {}
                             /\ p = <<Kept(infos, "call", e, k), Kept(infos, "put", e, k)>>
    BY DEF FindPairs
  <1>2. PICK i \in DOMAIN infos :
            /\ infos[i].code = Kept(infos, "call", e, k)
            /\ infos[i].kind = "call" /\ infos[i].expiry = e /\ infos[i].strike = k
    BY <1>1, KeptIs
  <1>3. PICK j \in DOMAIN infos :
            /\ infos[j].code = Kept(infos, "put", e, k)
            /\ infos[j].kind = "put" /\ infos[j].expiry = e /\ infos[j].strike = k
    BY <1>1, KeptIs
  <1>4. QED
    BY <1>1, <1>2, <1>3

LEMMA LoadPairs ==
  ASSUME NEW file \in Files, NEW ticked \in TickedSets, Load(file, ticked)
  PROVE  Paired'
  <1> DEFINE infos == LoadChain(file)
             C == {infos[i] : i \in {j \in DOMAIN infos : infos[j].code \in ticked}}
             Q == UNION {FindPairs(infos, e) : e \in AvailableExpiries(infos)}
  <1>1. Listed(infos)
    BY ReportConstantsOK, ChainListed
  <1>2. contracts' = C /\ pairs' \subseteq Q
    BY Zenon DEF Load
  <1> HIDE DEF infos
  <1>3. contracts' \subseteq Row
    BY <1>1, <1>2 DEF Listed
  <1>4. \A x, y \in contracts' : x.code = y.code => x = y
    BY <1>1, <1>2 DEF Listed
  <1>5. ASSUME NEW i \in DOMAIN infos, Traded(infos[i].code)'
        PROVE  infos[i].code \in Codes /\ Contract(infos[i].code)' = infos[i]
    <2>1. PICK x \in contracts' : x.code = infos[i].code
      BY <1>5 DEF Traded
    <2>2. PICK j \in DOMAIN infos : x = infos[j]
      BY <1>2
    <2>3. x = infos[i]
      BY <1>1, <2>1, <2>2 DEF Listed
    <2>4. Contract(x.code)' = x
      BY <1>4 DEF Contract
    <2>5. x \in Row
      BY <1>3
    <2>6. QED
      BY <2>3, <2>4, <2>5 DEF Row
  <1>6. ASSUME NEW p \in Tradable'
        PROVE  /\ p = <<p[1], p[2]>> /\ p[1] \in Codes /\ p[2] \in Codes /\ Matched(p)'
               /\ p = <<Kept(infos, "call", Contract(p[1])'.expiry, Contract(p[1])'.strike),
                        Kept(infos, "put", Contract(p[1])'.expiry, Contract(p[1])'.strike)>>
    <2>1. Traded(p[1])' /\ Traded(p[2])' /\ p \in Q
      BY <1>2 DEF Tradable
    <2>2. PICK e : p \in FindPairs(infos, e)
      BY <2>1
    <2>3. PICK k : \E i, j \in DOMAIN infos :
              /\ p[1] = infos[i].code /\ p[2] = infos[j].code
              /\ infos[i].kind = "call" /\ infos[j].kind = "put"
              /\ infos[i].expiry = e /\ infos[j].expiry = e
              /\ infos[i].strike = k /\ infos[j].strike = k
              /\ p = <<Kept(infos, "call", e, k), Kept(infos, "put", e, k)>>
      BY <1>1, <2>2, PairsOfFile
    <2>4. PICK i, j \in DOMAIN infos :
              /\ p[1] = infos[i].code /\ p[2] = infos[j].code
              /\ infos[i].kind = "call" /\ infos[j].kind = "put"
              /\ infos[i].expiry = e /\ infos[j].expiry = e
              /\ infos[i].strike = k /\ infos[j].strike = k
      BY <2>3
    <2>5. Contract(p[1])' = infos[i] /\ Contract(p[2])' = infos[j]
      BY <1>5, <2>1, <2>4
    <2>6. p = <<p[1], p[2]>>
      BY <1>1, <2>2, PairsOfFile
    <2>7. p[1] \in Codes /\ p[2] \in Codes
      BY <1>5, <2>1, <2>4
    <2>8. Matched(p)'
      BY <2>4, <2>5 DEF Matched
    <2>9. QED
      BY <2>3, <2>4, <2>5, <2>6, <2>7, <2>8
  <1>7. ASSUME NEW p \in Tradable', NEW r \in Tradable',
               Contract(p[1])'.expiry = Contract(r[1])'.expiry,
               Contract(p[1])'.strike = Contract(r[1])'.strike
        PROVE  p = r
    BY <1>6, <1>7
  <1>8. QED
    BY <1>3, <1>4, <1>6, <1>7 DEF Paired

-----------------------------------------------------------------------------
(* Signals and trades.                                                     *)

Prices == Quotes \cup LastQuotes
Trade == [sig : Nat, code : Codes \cup {Etf}, dir : {-1, 1}, price : Nat, qty : Nat,
          mult : Nat, fee : Nat]
Kinds == {"open", "close", "liquidation"}
Signal == [pair : Tradable, kind : Kinds]
DirOf(kind) == IF kind = "open" THEN 1 ELSE -1

UnitIn(C, p) == (CHOOSE x \in C : x.code = p[1]).unit

\* The legs of signal i for pair p, n sets at prices q: ETF, put, call.
EtfLeg(i, dir, u, n, q) ==
    [sig |-> i, code |-> Etf, dir |-> dir, price |-> q.etf, qty |-> n * u, mult |-> 1,
     fee |-> EtfFee]
PutLeg(i, p, dir, u, n, q) ==
    [sig |-> i, code |-> p[2], dir |-> dir, price |-> q.put, qty |-> n, mult |-> u,
     fee |-> OptFee * n]
CallLeg(i, p, dir, u, n, q) ==
    [sig |-> i, code |-> p[1], dir |-> -dir, price |-> q.call, qty |-> n, mult |-> u,
     fee |-> OptFee * n]

LegsIn(T, i) == {t \in DOMAIN T : T[t].sig = i}

\* Signal i of S was filled: its legs are the trades b + 1 to b + 3 of T.
Filled(C, S, T, i, b, n, q) ==
    LET p == S[i].pair  dir == DirOf(S[i].kind)  u == UnitIn(C, p)
    IN  /\ LegsIn(T, i) = {b + 1, b + 2, b + 3}
        /\ T[b + 1] = EtfLeg(i, dir, u, n, q)
        /\ T[b + 2] = PutLeg(i, p, dir, u, n, q)
        /\ T[b + 3] = CallLeg(i, p, dir, u, n, q)

Opening(S, T, p, j) ==
    j \in DOMAIN S /\ LegsIn(T, j) # {} /\ S[j].kind = "open" /\ S[j].pair = p

\* Every trade is a leg of a signal, and every signal has no legs or three.
\* A close that was filled has an opening of its pair before it.
Journal ==
    /\ signals \in Seq(Signal)
    /\ trades \in Seq(Trade)
    /\ \A t \in DOMAIN trades : trades[t].sig \in DOMAIN signals
    /\ \A i \in DOMAIN signals : LegsIn(trades, i) # {} =>
          \E b \in Nat, n \in Nat \ {0}, q \in Prices :
              Filled(contracts, signals, trades, i, b, n, q)
    /\ \A i \in DOMAIN signals : LegsIn(trades, i) # {} /\ signals[i].kind # "open" =>
          \E j : j < i /\ Opening(signals, trades, signals[i].pair, j)

NothingYet == stage = "loading" => signals = <<>> /\ trades = <<>> /\ pairs = {} /\ contracts = {}

\* A quantity held is a sum over the trades.
Moved == [t \in DOMAIN trades |-> trades[t].dir * trades[t].qty]
TradesOf(c) == {t \in DOMAIN trades : trades[t].code = c}

LEMMA TradesFinite ==
  ASSUME trades \in Seq(Trade)
  PROVE  /\ IsFiniteSet(DOMAIN trades) /\ \A t \in DOMAIN trades : t \in Nat \ {0}
         /\ \A T \in SUBSET (DOMAIN trades) : IsFiniteSet(T)
  <1>1. DOMAIN trades = 1 .. Len(trades) /\ Len(trades) \in Nat
    OBVIOUS
  <1>2. IsFiniteSet(1 .. Len(trades))
    BY <1>1, FS_Interval
  <1>3. \A t \in 1 .. Len(trades) : t \in Nat \ {0}
    OBVIOUS
  <1>4. QED
    BY <1>1, <1>2, <1>3, FS_Subset

LEMMA HeldIs ==
  ASSUME NEW c, trades \in Seq(Trade)
  PROVE  Held(c) = SumOf(Moved, TradesOf(c))
  <1> DEFINE S == TradesOf(c)
             Computes(h) ==
               h = [s \in SUBSET S |->
                      IF s = {} THEN 0
                      ELSE trades[NextOf(s)].dir * trades[NextOf(s)].qty + h[s \ {NextOf(s)}]]
  <1>1. \A s \in SUBSET S : s # {} => NextOf(s) \in DOMAIN trades
    BY NextOfIn DEF TradesOf
  <1>2. \A h : Computes(h) <=> Adds(h, Moved, S)
    BY <1>1, Zenon DEF Adds, Moved
  <1>3. Held(c) = (CHOOSE h : Computes(h))[S]
    BY Zenon DEF Held, SumOver, MapThenSumSet, MapThenFoldSet, NextOf, TradesOf
  <1>4. IsFiniteSet(S)
    BY TradesFinite DEF TradesOf
  <1> HIDE DEF Computes, S
  <1>5. \E h : Computes(h)
    BY <1>2, <1>4, AddsExists
  <1>6. Computes(CHOOSE h : Computes(h))
    BY <1>5, Zenon
  <1>7. Held(c) = SumOf(Moved, S)
    BY <1>2, <1>3, <1>4, <1>6, SumIs
  <1>8. QED
    BY <1>7 DEF S

LEMMA MovedValues ==
  ASSUME NEW c, trades \in Seq(Trade)
  PROVE  \A t \in TradesOf(c) : /\ Moved[t] \in Int
                                /\ trades[t].dir = -1 => Moved[t] <= 0
                                /\ trades[t].dir = 1 => Moved[t] >= 0
                                /\ trades[t].dir \in {-1, 1}
  <1> SUFFICES ASSUME NEW t \in DOMAIN trades
               PROVE  /\ Moved[t] \in Int
                      /\ trades[t].dir = -1 => Moved[t] <= 0
                      /\ trades[t].dir = 1 => Moved[t] >= 0
                      /\ trades[t].dir \in {-1, 1}
    BY DEF TradesOf
  <1>1. trades[t] \in Trade
    OBVIOUS
  <1>2. trades[t].dir \in {-1, 1} /\ trades[t].qty \in Nat
    BY <1>1 DEF Trade
  <1>3. Moved[t] = trades[t].dir * trades[t].qty
    BY DEF Moved
  <1>4. CASE trades[t].dir = 1
    BY <1>2, <1>3, <1>4
  <1>5. CASE trades[t].dir = -1
    BY <1>2, <1>3, <1>5
  <1>6. QED
    BY <1>2, <1>4, <1>5

\* What is held long was bought, and what is short was sold.
LEMMA HeldSign ==
  ASSUME NEW c, trades \in Seq(Trade)
  PROVE  /\ Held(c) \in Int
         /\ Held(c) > 0 => \E t \in TradesOf(c) : trades[t].dir = 1
         /\ Held(c) < 0 => \E t \in TradesOf(c) : trades[t].dir = -1
  <1> DEFINE S == TradesOf(c)
             zero == [t \in S |-> 0]
  <1>1. IsFiniteSet(S)
    BY TradesFinite DEF TradesOf
  <1>2. \A t \in S : Moved[t] \in Int
    BY MovedValues
  <1>3. Held(c) = SumOf(Moved, S) /\ Held(c) \in Int
    BY <1>1, <1>2, HeldIs, SumType
  <1>4. \A t \in S : zero[t] = 0
    OBVIOUS
  <1> HIDE DEF zero
  <1>5. SumOf(zero, S) = 0
    BY <1>1, <1>4, SumZero
  <1>6. ASSUME \A t \in S : trades[t].dir # 1 PROVE Held(c) <= 0
    <2>1. \A t \in S : Moved[t] \in Int /\ zero[t] \in Int /\ 1 * Moved[t] <= zero[t]
      BY <1>4, <1>6, MovedValues
    <2>2. 1 * SumOf(Moved, S) <= SumOf(zero, S)
      BY <1>1, <2>1, SumScaled
    <2>3. QED
      BY <1>3, <1>5, <2>2
  <1>7. ASSUME \A t \in S : trades[t].dir # -1 PROVE Held(c) >= 0
    <2>1. \A t \in S : zero[t] \in Int /\ Moved[t] \in Int /\ 1 * zero[t] <= Moved[t]
      BY <1>4, <1>7, MovedValues
    <2>2. 1 * SumOf(zero, S) <= SumOf(Moved, S)
      BY <1>1, <2>1, SumScaled
    <2>3. QED
      BY <1>3, <1>5, <2>2
  <1>8. QED
    BY <1>3, <1>6, <1>7

LEMMA SignalTyped ==
  ASSUME signals \in Seq(Signal), NEW i \in DOMAIN signals
  PROVE  signals[i].pair \in Tradable /\ signals[i].kind \in Kinds
  <1>1. signals[i] \in Signal
    OBVIOUS
  <1>2. QED
    BY <1>1 DEF Signal

\* An option was traded as the put or as the call of its signal's pair.
LEMMA LegOf ==
  ASSUME Journal, NEW t \in DOMAIN trades, trades[t].code \in Codes
  PROVE  \E i \in DOMAIN signals :
            /\ LegsIn(trades, i) # {} /\ signals[i].pair \in Tradable /\ signals[i].kind \in Kinds
            /\ \/ /\ trades[t].code = signals[i].pair[2]
                  /\ trades[t].dir = DirOf(signals[i].kind)
               \/ /\ trades[t].code = signals[i].pair[1]
                  /\ trades[t].dir = -DirOf(signals[i].kind)
  <1> DEFINE i == trades[t].sig
  <1>1. i \in DOMAIN signals /\ t \in LegsIn(trades, i)
    BY DEF Journal, LegsIn
  <1> HIDE DEF i
  <1>2. signals[i].pair \in Tradable /\ signals[i].kind \in Kinds
    BY <1>1, SignalTyped DEF Journal
  <1>3. PICK b \in Nat, n \in Nat \ {0}, q \in Prices :
            Filled(contracts, signals, trades, i, b, n, q)
    <2>1. LegsIn(trades, i) # {}
      BY <1>1
    <2>2. QED
      BY <1>1, <2>1 DEF Journal
  <1>4. t \in {b + 1, b + 2, b + 3}
    BY <1>1, <1>3 DEF Filled
  <1>5. t # b + 1
    BY <1>3, ReportConstantsOK DEF Filled, EtfLeg
  <1>6. CASE t = b + 2
    BY <1>1, <1>2, <1>3, <1>6 DEF Filled, PutLeg
  <1>7. CASE t = b + 3
    BY <1>1, <1>2, <1>3, <1>7 DEF Filled, CallLeg
  <1>8. QED
    BY <1>4, <1>5, <1>6, <1>7

\* A put held was opened with its pair.
LEMMA LongPutOpened ==
  ASSUME Journal, Paired, NEW d \in Codes, Contract(d).kind = "put", Held(d) > 0
  PROVE  \E i \in DOMAIN signals :
            /\ LegsIn(trades, i) # {} /\ signals[i].kind = "open" /\ signals[i].pair \in Tradable
            /\ signals[i].pair[2] = d
  <1>1. PICK t \in TradesOf(d) : trades[t].dir = 1
    BY HeldSign DEF Journal
  <1>2. t \in DOMAIN trades /\ trades[t].code = d
    BY DEF TradesOf
  <1>3. PICK i \in DOMAIN signals :
            /\ LegsIn(trades, i) # {} /\ signals[i].pair \in Tradable /\ signals[i].kind \in Kinds
            /\ \/ d = signals[i].pair[2] /\ 1 = DirOf(signals[i].kind)
               \/ d = signals[i].pair[1] /\ 1 = -DirOf(signals[i].kind)
    BY <1>1, <1>2, LegOf
  <1>4. d # signals[i].pair[1]
    BY <1>3 DEF Paired, Matched
  <1>5. QED
    BY <1>3, <1>4 DEF DirOf

\* The put found for a short call is the one it was opened with.
LEMMA ShortCallOpened ==
  ASSUME Journal, Paired, NEW c \in Codes, Held(c) < 0, PutsFor(c) # {}
  PROVE  /\ PairOf(c) \in Tradable
         /\ \E i \in DOMAIN signals : /\ LegsIn(trades, i) # {} /\ signals[i].kind = "open"
                                      /\ signals[i].pair = PairOf(c)
  <1> DEFINE t == Min(PutsFor(c))
             d == trades[t].code
  <1>1. PutsFor(c) \in SUBSET (DOMAIN trades)
    BY DEF PutsFor
  <1>2. IsFiniteSet(PutsFor(c)) /\ \A x \in PutsFor(c) : x \in Nat
    BY <1>1, TradesFinite DEF Journal
  <1>3. t \in PutsFor(c)
    BY <1>2, MinIn
  <1>4. PairOf(c) = <<c, d>>
    BY DEF PairOf
  <1> HIDE DEF t
  <1>5. /\ Traded(c) /\ Traded(d) /\ Held(d) > 0 /\ Contract(d).kind = "put"
        /\ Contract(d).expiry = Contract(c).expiry /\ Contract(d).strike = Contract(c).strike
    BY <1>3, Zenon DEF PutsFor
  <1> HIDE DEF d
  <1>6. d \in Codes
    BY <1>5 DEF Traded, Paired, Row
  <1>7. PICK i \in DOMAIN signals :
            /\ LegsIn(trades, i) # {} /\ signals[i].kind = "open" /\ signals[i].pair \in Tradable
            /\ signals[i].pair[2] = d
    BY <1>5, <1>6, LongPutOpened
  <1> DEFINE r == signals[i].pair
  <1>8. PICK u \in TradesOf(c) : trades[u].dir = -1
    BY HeldSign DEF Journal
  <1>9. u \in DOMAIN trades /\ trades[u].code = c
    BY DEF TradesOf
  <1>10. PICK j \in DOMAIN signals :
            /\ LegsIn(trades, j) # {} /\ signals[j].pair \in Tradable /\ signals[j].kind \in Kinds
            /\ \/ c = signals[j].pair[2] /\ -1 = DirOf(signals[j].kind)
               \/ c = signals[j].pair[1] /\ -1 = -DirOf(signals[j].kind)
    BY <1>8, <1>9, LegOf
  <1> DEFINE s == signals[j].pair
  <1>11. /\ r \in Tradable /\ s \in Tradable /\ r[2] = d /\ (c = s[2] \/ c = s[1])
    BY <1>7, <1>10
  <1> HIDE DEF r, s
  <1>12. Matched(r) /\ Matched(s) /\ r = <<r[1], r[2]>>
    BY <1>11 DEF Paired
  <1>13. /\ Contract(s[1]).expiry = Contract(c).expiry
         /\ Contract(s[1]).strike = Contract(c).strike
    BY <1>11, <1>12 DEF Matched
  <1>14. /\ Contract(r[1]).expiry = Contract(c).expiry
         /\ Contract(r[1]).strike = Contract(c).strike
    BY <1>5, <1>11, <1>12 DEF Matched
  <1>15. r = s
    BY <1>11, <1>13, <1>14 DEF Paired
  <1>16. c # d
    <2>1. Held(c) \in Int
      BY HeldSign DEF Journal
    <2>2. QED
      BY <1>5, <2>1
  <1>17. c = r[1]
    BY <1>11, <1>15, <1>16
  <1>18. PairOf(c) = r
    BY <1>4, <1>11, <1>12, <1>17
  <1>19. QED
    BY <1>7, <1>11, <1>18 DEF r

-----------------------------------------------------------------------------
(* The journal stays in order.                                             *)

LEMMA LegsAre ==
  ASSUME NEW p, NEW dir, NEW n, NEW q
  PROVE  LET i == Len(signals) + 1  u == UnitIn(contracts, p)
         IN  Legs(p, dir, n, q) = <<EtfLeg(i, dir, u, n, q), PutLeg(i, p, dir, u, n, q),
                                    CallLeg(i, p, dir, u, n, q)>>
  BY Zenon DEF Legs, Contract, UnitIn, EtfLeg, PutLeg, CallLeg

LEMMA UnitTyped ==
  ASSUME Paired, NEW p \in Tradable
  PROVE  UnitIn(contracts, p) \in Nat
  <1>1. PICK x \in contracts : x.code = p[1]
    BY DEF Tradable, Traded
  <1>2. x \in Row /\ (CHOOSE y \in contracts : y.code = p[1]) = x
    BY <1>1 DEF Paired
  <1>3. QED
    BY <1>2 DEF Row, UnitIn

LEMMA LegsTyped ==
  ASSUME Paired, NEW p \in Tradable, NEW dir \in {-1, 1}, NEW n \in Nat, NEW q \in Prices,
         NEW i \in Nat, NEW u \in Nat
  PROVE  /\ EtfLeg(i, dir, u, n, q) \in Trade
         /\ PutLeg(i, p, dir, u, n, q) \in Trade
         /\ CallLeg(i, p, dir, u, n, q) \in Trade
  <1>1. q.etf \in Nat /\ q.put \in Nat /\ q.call \in Nat /\ EtfFee \in Nat /\ OptFee \in Nat
    BY ReportConstantsOK DEF Prices
  <1>2. p[1] \in Codes /\ p[2] \in Codes
    BY DEF Paired
  <1>3. n * u \in Nat /\ OptFee * n \in Nat /\ -dir \in {-1, 1}
    BY <1>1
  <1>4. EtfLeg(i, dir, u, n, q) \in Trade
    BY <1>1, <1>3 DEF EtfLeg, Trade
  <1>5. PutLeg(i, p, dir, u, n, q) \in Trade
    BY <1>1, <1>2, <1>3 DEF PutLeg, Trade
  <1>6. CallLeg(i, p, dir, u, n, q) \in Trade
    BY <1>1, <1>2, <1>3 DEF CallLeg, Trade
  <1>7. QED
    BY <1>4, <1>5, <1>6

LEMMA ThreeMore ==
  ASSUME NEW m \in Nat
  PROVE  1 .. (m + 3) = (1 .. m) \cup {m + 1, m + 2, m + 3}
  <1>1. ASSUME NEW k \in Int
        PROVE  k \in 1 .. (m + 3) <=> k \in 1 .. m \/ k = m + 1 \/ k = m + 2 \/ k = m + 3
    OBVIOUS
  <1>2. 1 .. (m + 3) \subseteq Int /\ (1 .. m) \cup {m + 1, m + 2, m + 3} \subseteq Int
    OBVIOUS
  <1>3. QED
    BY <1>1, <1>2

LEMMA ThreeAppended ==
  ASSUME NEW T, NEW s \in Seq(T), NEW x \in T, NEW y \in T, NEW z \in T,
         NEW r, r = s \o <<x, y, z>>, NEW b, b = Len(s)
  PROVE  /\ r \in Seq(T) /\ b \in Nat
         /\ DOMAIN s = 1 .. b /\ DOMAIN r = (DOMAIN s) \cup {b + 1, b + 2, b + 3}
         /\ \A t \in DOMAIN s : r[t] = s[t]
         /\ r[b + 1] = x /\ r[b + 2] = y /\ r[b + 3] = z
  <1> DEFINE w == <<x, y, z>>
  <1>1. w \in Seq(T) /\ Len(w) = 3 /\ w[1] = x /\ w[2] = y /\ w[3] = z
    OBVIOUS
  <1> HIDE DEF w
  <1>2. r = s \o w
    BY DEF w
  <1>3. b \in Nat /\ DOMAIN s = 1 .. b
    OBVIOUS
  <1>4. r \in Seq(T) /\ Len(r) = b + 3
    BY <1>1, <1>2
  <1>5. DOMAIN r = 1 .. (b + 3)
    BY <1>3, <1>4
  <1>6. DOMAIN r = (DOMAIN s) \cup {b + 1, b + 2, b + 3}
    <2>1. 1 .. (b + 3) = (1 .. b) \cup {b + 1, b + 2, b + 3}
      BY <1>3, ThreeMore
    <2>2. QED
      BY <1>3, <1>5, <2>1
  <1>7. \A t \in DOMAIN s : r[t] = s[t]
    BY <1>1, <1>2
  <1>8. r[b + 1] = w[1] /\ r[b + 2] = w[2] /\ r[b + 3] = w[3]
    BY <1>1, <1>2, <1>3
  <1>9. QED
    BY <1>1, <1>3, <1>4, <1>6, <1>7, <1>8

\* What the engine appends to S and T: a signal, and no trades or three.
Appended(p, kind, n, q, i, b, S, T, newS, newT) ==
    /\ i \in Nat \ {0} /\ b \in Nat
    /\ DOMAIN S = 1 .. (i - 1) /\ DOMAIN newS = 1 .. i
    /\ DOMAIN T = 1 .. b
    /\ \A j \in DOMAIN S : newS[j] = S[j]
    /\ newS[i] = [pair |-> p, kind |-> kind]
    /\ \A t \in DOMAIN T : newT[t] = T[t]
    /\ n = 0 => newT = T
    /\ n > 0 => LET u == UnitIn(contracts, p)  dir == DirOf(kind)
                IN  /\ DOMAIN newT = DOMAIN T \cup {b + 1, b + 2, b + 3}
                    /\ newT[b + 1] = EtfLeg(i, dir, u, n, q)
                    /\ newT[b + 2] = PutLeg(i, p, dir, u, n, q)
                    /\ newT[b + 3] = CallLeg(i, p, dir, u, n, q)

LEMMA HandleShape ==
  ASSUME Journal, Paired, NEW p \in Tradable, NEW kind \in Kinds, NEW n \in Nat,
         NEW q \in Prices, Handle(p, kind, n, q)
  PROVE  /\ signals' \in Seq(Signal) /\ trades' \in Seq(Trade)
         /\ Appended(p, kind, n, q, Len(signals) + 1, Len(trades),
                     signals, trades, signals', trades')
  <1> DEFINE dir == DirOf(kind)
             u == UnitIn(contracts, p)
             i == Len(signals) + 1
             b == Len(trades)
             x == EtfLeg(i, dir, u, n, q)
             y == PutLeg(i, p, dir, u, n, q)
             z == CallLeg(i, p, dir, u, n, q)
             new == [pair |-> p, kind |-> kind]
  <1>1. signals \in Seq(Signal) /\ trades \in Seq(Trade) /\ new \in Signal
    BY DEF Journal, Signal
  <1>2. /\ signals' = Append(signals, new)
        /\ trades' = IF n > 0 THEN trades \o Legs(p, dir, n, q) ELSE trades
    BY Zenon DEF Handle, DirOf
  <1>3. Legs(p, dir, n, q) = <<x, y, z>>
    BY LegsAre
  <1>4. i \in Nat /\ dir \in {-1, 1} /\ u \in Nat
    BY <1>1, UnitTyped DEF DirOf
  <1> HIDE DEF dir, u, i
  <1>5. x \in Trade /\ y \in Trade /\ z \in Trade
    BY <1>4, LegsTyped
  <1> HIDE DEF x, y, z, new, b
  <1>6. /\ signals' \in Seq(Signal) /\ i \in Nat \ {0}
        /\ DOMAIN signals = 1 .. (i - 1) /\ DOMAIN signals' = 1 .. i
        /\ \A j \in DOMAIN signals : signals'[j] = signals[j]
        /\ signals'[i] = new
    BY <1>1, <1>2 DEF i
  <1>7. b \in Nat /\ DOMAIN trades = 1 .. b
    BY <1>1 DEF b
  <1>8. CASE n = 0
    <2>1. trades' = trades
      BY <1>2, <1>8
    <2>2. Appended(p, kind, n, q, i, b, signals, trades, signals', trades')
      BY <1>6, <1>7, <1>8, <2>1 DEF Appended, new
    <2>3. QED
      BY <1>1, <1>6, <2>1, <2>2 DEF i, b
  <1>9. CASE n > 0
    <2>1. trades' = trades \o <<x, y, z>>
      BY <1>2, <1>3, <1>9
    <2>2. /\ trades' \in Seq(Trade)
          /\ DOMAIN trades' = DOMAIN trades \cup {b + 1, b + 2, b + 3}
          /\ \A t \in DOMAIN trades : trades'[t] = trades[t]
          /\ trades'[b + 1] = x /\ trades'[b + 2] = y /\ trades'[b + 3] = z
      BY <1>1, <1>5, <2>1, ThreeAppended DEF b
    <2>3. Appended(p, kind, n, q, i, b, signals, trades, signals', trades')
      BY <1>6, <1>7, <1>9, <2>2 DEF Appended, new, x, y, z, dir, u
    <2>4. QED
      BY <1>6, <2>2, <2>3 DEF i, b
  <1>10. QED
    BY <1>8, <1>9

\* The legs of the signals so far stay, and those of the new one are new.
LEMMA AppendedLegs ==
  ASSUME NEW p, NEW kind, NEW n \in Nat, NEW q, NEW i, NEW b, NEW S, NEW T, NEW newS, NEW newT,
         Appended(p, kind, n, q, i, b, S, T, newS, newT),
         \A t \in DOMAIN T : T[t].sig \in DOMAIN S
  PROVE  /\ \A j \in DOMAIN S : LegsIn(newT, j) = LegsIn(T, j)
         /\ n = 0 => LegsIn(newT, i) = {}
         /\ n > 0 => LegsIn(newT, i) = {b + 1, b + 2, b + 3}
         /\ \A t \in DOMAIN newT : newT[t].sig \in DOMAIN newS
  <1>1. i \in Nat \ {0} /\ i \notin DOMAIN S /\ i \in DOMAIN newS /\ DOMAIN S \subseteq DOMAIN newS
    BY DEF Appended
  <1>2. CASE n = 0
    <2>1. newT = T
      BY <1>2 DEF Appended
    <2>2. QED
      BY <1>1, <1>2, <2>1 DEF LegsIn
  <1>3. CASE n > 0
    <2>1. newT[b + 1].sig = i /\ newT[b + 2].sig = i /\ newT[b + 3].sig = i
      BY <1>3 DEF Appended, EtfLeg, PutLeg, CallLeg
    <2>2. /\ DOMAIN newT = DOMAIN T \cup {b + 1, b + 2, b + 3}
          /\ \A t \in DOMAIN T : newT[t] = T[t]
      BY <1>3 DEF Appended
    <2>3. QED
      BY <1>1, <1>3, <2>1, <2>2 DEF LegsIn
  <1>4. QED
    BY <1>2, <1>3

LEMMA JournalHandle ==
  ASSUME Journal, Paired, NEW p \in Tradable, NEW kind \in Kinds, NEW n \in Nat,
         NEW q \in Prices, Handle(p, kind, n, q), UNCHANGED <<contracts, pairs>>,
         kind # "open" /\ n > 0 => \E j : Opening(signals, trades, p, j)
  PROVE  Journal'
  <1> DEFINE i == Len(signals) + 1
             b == Len(trades)
  <1>1. /\ signals' \in Seq(Signal) /\ trades' \in Seq(Trade)
        /\ Appended(p, kind, n, q, i, b, signals, trades, signals', trades')
    BY HandleShape
  <1> HIDE DEF i, b
  <1>2. Signal' = Signal
    BY DEF Signal, Tradable, Traded
  <1>3. \A t \in DOMAIN trades : trades[t].sig \in DOMAIN signals
    BY DEF Journal
  <1>4. /\ \A j \in DOMAIN signals : LegsIn(trades', j) = LegsIn(trades, j)
        /\ n = 0 => LegsIn(trades', i) = {}
        /\ n > 0 => LegsIn(trades', i) = {b + 1, b + 2, b + 3}
        /\ \A t \in DOMAIN trades' : trades'[t].sig \in DOMAIN signals'
    BY <1>1, <1>3, AppendedLegs
  <1>5. /\ DOMAIN signals = 1 .. (i - 1) /\ i \in Nat \ {0}
        /\ DOMAIN signals' = (DOMAIN signals) \cup {i} /\ b \in Nat
        /\ \A j \in DOMAIN signals : signals'[j] = signals[j]
        /\ signals'[i] = [pair |-> p, kind |-> kind]
        /\ \A t \in DOMAIN trades : trades'[t] = trades[t]
    BY <1>1 DEF Appended
  <1>6. ASSUME NEW j \in DOMAIN signals, LegsIn(trades, j) # {}
        PROVE  \E c \in Nat, m \in Nat \ {0}, r \in Prices :
                   Filled(contracts', signals', trades', j, c, m, r)
    <2>1. PICK c \in Nat, m \in Nat \ {0}, r \in Prices :
              Filled(contracts, signals, trades, j, c, m, r)
      BY <1>6 DEF Journal
    <2>2. c + 1 \in DOMAIN trades /\ c + 2 \in DOMAIN trades /\ c + 3 \in DOMAIN trades
      BY <2>1 DEF Filled, LegsIn
    <2>3. Filled(contracts', signals', trades', j, c, m, r)
      BY <1>4, <1>5, <2>1, <2>2 DEF Filled
    <2>4. QED
      BY <2>3
  <1>7. ASSUME n > 0 PROVE Filled(contracts', signals', trades', i, b, n, q)
    BY <1>1, <1>4, <1>5, <1>7 DEF Filled, Appended
  <1>8. ASSUME NEW r, NEW j, Opening(signals, trades, r, j)
        PROVE  Opening(signals', trades', r, j) /\ j < i
    BY <1>4, <1>5, <1>8 DEF Opening
  <1>9. ASSUME NEW j \in DOMAIN signals', LegsIn(trades', j) # {}
        PROVE  \E c \in Nat, m \in Nat \ {0}, r \in Prices :
                   Filled(contracts', signals', trades', j, c, m, r)
    <2>1. CASE j = i
      BY <1>4, <1>5, <1>7, <1>9, <2>1
    <2>2. CASE j \in DOMAIN signals
      BY <1>4, <1>6, <1>9, <2>2
    <2>3. QED
      BY <1>5, <2>1, <2>2
  <1>10. ASSUME NEW j \in DOMAIN signals', LegsIn(trades', j) # {}, signals'[j].kind # "open"
         PROVE  \E k : k < j /\ Opening(signals', trades', signals'[j].pair, k)
    <2>1. CASE j = i
      <3>1. n > 0 /\ kind # "open" /\ signals'[j].pair = p
        BY <1>4, <1>5, <1>10, <2>1
      <3>2. PICK k : Opening(signals, trades, p, k)
        BY <3>1
      <3>3. QED
        BY <1>8, <2>1, <3>1, <3>2
    <2>2. CASE j \in DOMAIN signals
      <3>1. signals'[j] = signals[j] /\ LegsIn(trades, j) # {}
        BY <1>4, <1>5, <1>10, <2>2
      <3>2. PICK k : k < j /\ Opening(signals, trades, signals[j].pair, k)
        BY <1>10, <2>2, <3>1 DEF Journal
      <3>3. QED
        BY <1>8, <3>1, <3>2
    <2>3. QED
      BY <1>5, <2>1, <2>2
  <1>11. QED
    BY <1>1, <1>2, <1>4, <1>9, <1>10 DEF Journal

-----------------------------------------------------------------------------
(* The steps of the run.                                                   *)

RunInv == Paired /\ Journal /\ NothingYet

LEMMA RunInit == Init => RunInv
  BY DEF Init, RunInv, Paired, Journal, NothingYet, Tradable, LegsIn

LEMMA SetsHeldIs ==
  ASSUME Journal, NEW p
  PROVE  /\ SetsHeld(p) \in Nat
         /\ SetsHeld(p) > 0 => Held(p[1]) < 0 /\ Held(p[2]) > 0
  <1>1. Held(p[1]) \in Int /\ Held(p[2]) \in Int
    BY HeldSign DEF Journal
  <1>2. CASE Held(p[1]) < 0 /\ Held(p[2]) > 0
    <2> DEFINE x == -Held(p[1])
               y == Held(p[2])
               S == {x, y}
    <2>1. x \in Nat /\ y \in Nat
      BY <1>1, <1>2
    <2> HIDE DEF x, y
    <2>2. IsFiniteSet(S)
      <3>1. IsFiniteSet({x}) /\ S = {x} \cup {y}
        BY FS_Singleton
      <3>2. QED
        BY <3>1, FS_AddElement
    <2>3. Min(S) \in S
      BY <2>1, <2>2, MinIn
    <2>4. SetsHeld(p) = Min(S)
      BY <1>2 DEF SetsHeld, x, y
    <2>5. QED
      BY <1>2, <2>1, <2>3, <2>4
  <1>3. CASE ~(Held(p[1]) < 0 /\ Held(p[2]) > 0)
    BY <1>3 DEF SetsHeld
  <1>4. QED
    BY <1>2, <1>3

\* A pair that holds its put was opened.
LEMMA HeldPairOpened ==
  ASSUME Journal, Paired, NEW p \in Tradable, Held(p[2]) > 0
  PROVE  \E j : Opening(signals, trades, p, j)
  <1>1. p[2] \in Codes /\ Contract(p[2]).kind = "put" /\ Matched(p)
    BY DEF Paired, Matched
  <1>2. PICK i \in DOMAIN signals :
            /\ LegsIn(trades, i) # {} /\ signals[i].kind = "open"
            /\ signals[i].pair \in Tradable /\ signals[i].pair[2] = p[2]
    BY <1>1, LongPutOpened
  <1> DEFINE r == signals[i].pair
  <1>3. r \in Tradable /\ r[2] = p[2]
    BY <1>2
  <1> HIDE DEF r
  <1>4. Matched(r)
    BY <1>3 DEF Paired
  <1>5. r = p
    BY <1>1, <1>3, <1>4 DEF Paired, Matched
  <1>6. QED
    BY <1>2, <1>5 DEF Opening, r

LEMMA RunHandle ==
  ASSUME RunInv, NEW p \in Tradable, NEW kind \in Kinds, NEW n \in Nat, NEW q \in Prices,
         Handle(p, kind, n, q), UNCHANGED <<stage, contracts, pairs>>, stage # "loading",
         kind # "open" /\ n > 0 => \E j : Opening(signals, trades, p, j)
  PROVE  RunInv'
  <1>1. Journal'
    BY JournalHandle DEF RunInv
  <1>2. Paired'
    BY DEF RunInv, Paired, Tradable, Traded, Matched, Contract
  <1>3. QED
    BY <1>1, <1>2 DEF RunInv, NothingYet

LEMMA RunLoad ==
  ASSUME RunInv, NEW file \in Files, NEW ticked \in TickedSets, Load(file, ticked)
  PROVE  RunInv'
  <1>1. Paired'
    BY LoadPairs
  <1>2. signals' = <<>> /\ trades' = <<>> /\ stage' = "trading"
    BY DEF Load, RunInv, NothingYet
  <1>3. Journal'
    BY <1>2 DEF Journal, LegsIn
  <1>4. QED
    BY <1>1, <1>2, <1>3 DEF RunInv, NothingYet

LEMMA RunSame ==
  ASSUME RunInv, UNCHANGED <<contracts, pairs, signals, trades>>,
         stage' = "loading" => stage = "loading"
  PROVE  RunInv'
  <1>1. Paired'
    BY DEF RunInv, Paired, Tradable, Traded, Matched, Contract
  <1>2. Signal' = Signal
    BY DEF Signal, Tradable, Traded
  <1>3. Journal'
    BY <1>2 DEF RunInv, Journal
  <1>4. QED
    BY <1>1, <1>3 DEF RunInv, NothingYet

LEMMA RunNext == RunInv /\ [Next]_vars => RunInv'
  <1> SUFFICES ASSUME RunInv, [Next]_vars PROVE RunInv'
    OBVIOUS
  <1>1. ASSUME NEW file \in Files, NEW ticked \in TickedSets, Load(file, ticked)
        PROVE  RunInv'
    BY <1>1, RunLoad
  <1>2. ASSUME NEW p \in pairs, NEW n \in 0 .. MaxSets, NEW q \in Quotes, Open(p, n, q)
        PROVE  RunInv'
    <2>1. /\ p \in Tradable /\ n \in Nat /\ q \in Prices /\ Handle(p, "open", n, q)
          /\ "open" \in Kinds /\ stage # "loading" /\ UNCHANGED <<stage, contracts, pairs>>
      BY <1>2 DEF Open, Tradable, Prices, Kinds
    <2>2. QED
      BY <2>1, RunHandle
  <1>3. ASSUME NEW p \in pairs, NEW n \in 0 .. SetsHeld(p), NEW q \in Quotes, Close(p, n, q)
        PROVE  RunInv'
    <2>1. /\ p \in Tradable /\ q \in Prices /\ Handle(p, "close", n, q)
          /\ "close" \in Kinds /\ stage # "loading" /\ UNCHANGED <<stage, contracts, pairs>>
      BY <1>3 DEF Close, Tradable, Prices, Kinds
    <2>2. n \in Nat /\ (n > 0 => Held(p[2]) > 0)
      BY SetsHeldIs DEF RunInv
    <2>3. n > 0 => \E j : Opening(signals, trades, p, j)
      BY <2>1, <2>2, HeldPairOpened DEF RunInv
    <2>4. QED
      BY <2>1, <2>2, <2>3, RunHandle
  <1>4. ASSUME NEW c \in Codes, Held(c) < 0, PutsFor(c) # {}
        PROVE  /\ PairOf(c) \in Tradable
               /\ \E j : Opening(signals, trades, PairOf(c), j)
    BY <1>4, ShortCallOpened DEF RunInv, Opening
  <1>5. ASSUME NEW c \in Codes, NEW n \in 0 .. MaxSets * MaxSignals, NEW q \in Quotes,
               ForceClose(c, n, q)
        PROVE  RunInv'
    <2>1. /\ q \in Prices /\ Handle(PairOf(c), "close", n, q) /\ "close" \in Kinds
          /\ stage # "loading" /\ UNCHANGED <<stage, contracts, pairs>>
          /\ Held(c) < 0 /\ PutsFor(c) # {} /\ n \in 0 .. SetsHeld(PairOf(c))
      BY <1>5 DEF ForceClose, Prices, Kinds
    <2>2. n \in Nat
      BY <2>1
    <2>3. QED
      BY <1>4, <2>1, <2>2, RunHandle
  <1>6. ASSUME NEW c \in Codes, NEW q \in LastQuotes, Liquidate(c, q)
        PROVE  RunInv'
    <2>1. /\ q \in Prices /\ Handle(PairOf(c), "liquidation", SetsHeld(PairOf(c)), q)
          /\ "liquidation" \in Kinds
          /\ stage # "loading" /\ UNCHANGED <<stage, contracts, pairs>>
          /\ Held(c) < 0 /\ PutsFor(c) # {}
      BY <1>6 DEF Liquidate, Residual, Prices, Kinds
    <2>2. SetsHeld(PairOf(c)) \in Nat
      BY SetsHeldIs DEF RunInv
    <2>3. QED
      BY <1>4, <2>1, <2>2, RunHandle
  <1>7. ASSUME NEW q \in LastQuotes, EndOfData(q)
        PROVE  RunInv'
    BY <1>7, RunSame DEF EndOfData
  <1>8. CASE WriteReport
    BY <1>8, RunSame DEF WriteReport
  <1>9. CASE UNCHANGED vars
    BY <1>9, RunSame DEF vars
  <1>10. QED
    BY <1>1, <1>2, <1>3, <1>5, <1>6, <1>7, <1>8, <1>9 DEF Next

\* What the run keeps: contracts and pairs of one file, and the two lists.
THEOREM RunCorrect == Spec => []RunInv
  <1>1. QED
    BY RunInit, RunNext, PTL DEF Spec

-----------------------------------------------------------------------------
(* What the report finds for a close.                                      *)

LEMMA ExecutedIs ==
  ASSUME Journal
  PROVE  /\ \A i : LegsOf(i) = LegsIn(trades, i)
         /\ Executed = {i \in DOMAIN signals : LegsIn(trades, i) # {}}
         /\ \A i \in Executed : /\ i \in Nat \ {0} /\ i \in DOMAIN signals
                                /\ signals[i].pair \in Tradable /\ signals[i].kind \in Kinds
                                /\ \E b \in Nat, n \in Nat \ {0}, q \in Prices :
                                      Filled(contracts, signals, trades, i, b, n, q)
  <1>1. \A i : LegsOf(i) = LegsIn(trades, i)
    BY DEF LegsOf, LegsIn
  <1>2. Executed = {i \in DOMAIN signals : LegsIn(trades, i) # {}}
    BY <1>1 DEF Executed
  <1>3. signals \in Seq(Signal)
    BY DEF Journal
  <1>4. \A i \in DOMAIN signals : i \in Nat \ {0}
    BY <1>3
  <1>5. ASSUME NEW i \in Executed
        PROVE  \E b \in Nat, n \in Nat \ {0}, q \in Prices :
                   Filled(contracts, signals, trades, i, b, n, q)
    BY <1>2 DEF Journal
  <1>6. \A i \in DOMAIN signals : signals[i].pair \in Tradable /\ signals[i].kind \in Kinds
    BY <1>3, SignalTyped
  <1>7. QED
    BY <1>1, <1>2, <1>4, <1>5, <1>6

LEMMA MinOfOne ==
  ASSUME NEW x \in Int
  PROVE  Min({x}) = x
  <1>1. x <= x
    OBVIOUS
  <1>2. \E y \in {x} : \A z \in {x} : y <= z
    BY <1>1
  <1>3. Min({x}) \in {x}
    BY <1>2, Zenon DEF Min
  <1>4. QED
    BY <1>3

\* The sets of an order are the quantity of the option it bought.
LEMMA SetsOfIs ==
  ASSUME Journal, Paired, NEW i \in Executed, NEW b \in Nat, NEW n \in Nat \ {0}, NEW q,
         Filled(contracts, signals, trades, i, b, n, q)
  PROVE  SetsOf(i) = n
  <1> DEFINE p == signals[i].pair
             dir == DirOf(signals[i].kind)
             u == UnitIn(contracts, p)
             bought == {j \in LegsOf(i) : trades[j].code # Etf /\ trades[j].dir = 1}
  <1>1. p \in Tradable /\ LegsOf(i) = {b + 1, b + 2, b + 3}
    BY ExecutedIs DEF Filled
  <1>2. p[1] \in Codes /\ p[2] \in Codes /\ Etf \notin Codes
    BY <1>1, ReportConstantsOK DEF Paired
  <1>3. /\ trades[b + 1] = EtfLeg(i, dir, u, n, q)
        /\ trades[b + 2] = PutLeg(i, p, dir, u, n, q)
        /\ trades[b + 3] = CallLeg(i, p, dir, u, n, q)
    BY DEF Filled
  <1>4. dir = 1 \/ dir = -1
    BY DEF DirOf
  <1> HIDE DEF p, dir, u
  <1>5. trades[b + 1].code = Etf
    BY <1>3 DEF EtfLeg
  <1>6. trades[b + 2].code # Etf /\ trades[b + 2].dir = dir /\ trades[b + 2].qty = n
    BY <1>2, <1>3 DEF PutLeg
  <1>7. trades[b + 3].code # Etf /\ trades[b + 3].dir = -dir /\ trades[b + 3].qty = n
    BY <1>2, <1>3 DEF CallLeg
  <1>8. CASE dir = 1
    <2>1. bought = {b + 2}
      BY <1>1, <1>5, <1>6, <1>7, <1>8
    <2>2. Min(bought) = b + 2
      BY <2>1, MinOfOne
    <2>3. QED
      BY <1>6, <2>1, <2>2, Zenon DEF SetsOf
  <1>9. CASE dir = -1
    <2>1. bought = {b + 3}
      BY <1>1, <1>5, <1>6, <1>7, <1>9
    <2>2. Min(bought) = b + 3
      BY <2>1, MinOfOne
    <2>3. QED
      BY <1>7, <2>1, <2>2, Zenon DEF SetsOf
  <1>10. QED
    BY <1>4, <1>8, <1>9

LEMMA SetsPositive ==
  ASSUME Journal, Paired
  PROVE  /\ \A i \in Executed : SetsOf(i) \in Nat \ {0}
         /\ IsFiniteSet(Executed) /\ \A I \in SUBSET Executed : IsFiniteSet(I)
  <1>1. ASSUME NEW i \in Executed PROVE SetsOf(i) \in Nat \ {0}
    BY ExecutedIs, SetsOfIs
  <1>2. signals \in Seq(Signal)
    BY DEF Journal
  <1>3. IsFiniteSet(1 .. Len(signals)) /\ DOMAIN signals = 1 .. Len(signals)
    BY <1>2, FS_Interval
  <1>4. Executed \subseteq DOMAIN signals
    BY DEF Executed
  <1>5. IsFiniteSet(Executed)
    BY <1>3, <1>4, FS_Subset
  <1>6. \A I \in SUBSET Executed : IsFiniteSet(I)
    BY <1>5, FS_Subset
  <1>7. QED
    BY <1>1, <1>5, <1>6

LEMMA SetsSumIs ==
  ASSUME NEW I, IsFiniteSet(I)
  PROVE  MapThenSumSet(SetsOf, I) = SumOf([i \in I |-> SetsOf(i)], I)
  <1> DEFINE f == [i \in I |-> SetsOf(i)]
             Computes(h) ==
               h = [s \in SUBSET I |->
                      IF s = {} THEN 0 ELSE SetsOf(NextOf(s)) + h[s \ {NextOf(s)}]]
  <1>1. \A s \in SUBSET I : s # {} => NextOf(s) \in I
    BY NextOfIn
  <1>2. \A h : Computes(h) <=> Adds(h, f, I)
    BY <1>1, Zenon DEF Adds
  <1>3. MapThenSumSet(SetsOf, I) = (CHOOSE h : Computes(h))[I]
    BY Zenon DEF MapThenSumSet, MapThenFoldSet, NextOf
  <1> HIDE DEF Computes, f
  <1>4. \E h : Computes(h)
    BY <1>2, AddsExists
  <1>5. Computes(CHOOSE h : Computes(h))
    BY <1>4, Zenon
  <1>6. MapThenSumSet(SetsOf, I) = SumOf(f, I)
    BY <1>2, <1>3, <1>5, SumIs
  <1>7. QED
    BY <1>6 DEF f

\* Openings that were filled have sets.
LEMMA PriorsCount ==
  ASSUME Journal, Paired, NEW I \in SUBSET Executed, I # {}
  PROVE  MapThenSumSet(SetsOf, I) \in Nat \ {0}
  <1> DEFINE f == [i \in I |-> SetsOf(i)]
  <1>1. IsFiniteSet(I) /\ \A i \in I : SetsOf(i) \in Nat \ {0}
    BY SetsPositive
  <1>2. \A i \in I : f[i] = SetsOf(i)
    OBVIOUS
  <1>3. MapThenSumSet(SetsOf, I) = SumOf(f, I)
    BY <1>1, SetsSumIs
  <1> HIDE DEF f
  <1>4. \A i \in I : f[i] \in Nat /\ f[i] > 0
    BY <1>1, <1>2
  <1>5. SumOf(f, I) \in Nat /\ \A i \in I : f[i] <= SumOf(f, I)
    BY <1>1, <1>4, SumOfNaturals
  <1>6. PICK i \in I : f[i] <= SumOf(f, I)
    BY <1>5
  <1>7. QED
    BY <1>3, <1>4, <1>5, <1>6

\* For any file, with equal strikes in several months and adjusted contracts
\* beside standard ones, and for any order of openings, partial, forced and
\* final closes: every executed close finds executed openings of its pair, so
\* the analyzer never reports its fallback.
THEOREM EveryCloseHasItsOpenCorrect == Spec => []EveryCloseHasItsOpen
  <1>1. RunInv => EveryCloseHasItsOpen
    <2> SUFFICES ASSUME Journal, Paired, NEW i \in Closes
                 PROVE  /\ Priors(i) # {} /\ SetsOf(i) > 0
                        /\ MapThenSumSet(SetsOf, Priors(i)) > 0
      BY DEF RunInv, EveryCloseHasItsOpen
    <2>1. i \in Executed /\ signals[i].kind # "open" /\ i \in DOMAIN signals
      BY ExecutedIs DEF Closes
    <2>2. LegsIn(trades, i) # {}
      BY <2>1, ExecutedIs
    <2>3. PICK j : j < i /\ Opening(signals, trades, signals[i].pair, j)
      BY <2>1, <2>2 DEF Journal
    <2>4. j \in Priors(i)
      BY <2>3, ExecutedIs DEF Opening, Priors
    <2>5. Priors(i) \in SUBSET Executed
      BY DEF Priors
    <2>6. MapThenSumSet(SetsOf, Priors(i)) \in Nat \ {0}
      BY <2>4, <2>5, PriorsCount
    <2>7. SetsOf(i) \in Nat \ {0}
      BY <2>1, SetsPositive
    <2>8. \A x \in Nat \ {0} : x > 0
      OBVIOUS
    <2>9. QED
      BY <2>4, <2>6, <2>7, <2>8, Zenon
  <1>2. QED
    BY <1>1, RunCorrect, PTL

-----------------------------------------------------------------------------
(* What an executed signal moved.                                          *)

\* The sets of a signal, counted as bought or sold.
NetOf(i) == DirOf(signals[i].kind) * SetsOf(i)

LEMMA OfPair ==
  ASSUME Journal, Paired, NEW i \in Executed
  PROVE  LET p == signals[i].pair  u == UnitIn(contracts, p)
         IN  /\ SetsOf(i) \in Nat \ {0} /\ NetOf(i) \in Int /\ u \in Nat
             /\ \E e, d, c \in DOMAIN trades :
                   /\ LegsOf(i) = {e, d, c}
                   /\ trades[e].code = Etf /\ Moved[e] = u * NetOf(i)
                   /\ trades[d].code = p[2] /\ Moved[d] = NetOf(i)
                   /\ trades[c].code = p[1] /\ Moved[c] = -NetOf(i)
  <1> DEFINE p == signals[i].pair
             u == UnitIn(contracts, p)
             dir == DirOf(signals[i].kind)
  <1>1. p \in Tradable /\ LegsOf(i) = LegsIn(trades, i)
    BY ExecutedIs
  <1>2. PICK b \in Nat, n \in Nat \ {0}, q \in Prices :
            Filled(contracts, signals, trades, i, b, n, q)
    BY ExecutedIs
  <1>3. SetsOf(i) = n
    BY <1>2, SetsOfIs
  <1>4. u \in Nat
    BY <1>1, UnitTyped
  <1>5. dir \in {-1, 1}
    BY DEF DirOf
  <1>6. /\ LegsOf(i) = {b + 1, b + 2, b + 3}
        /\ trades[b + 1] = EtfLeg(i, dir, u, n, q)
        /\ trades[b + 2] = PutLeg(i, p, dir, u, n, q)
        /\ trades[b + 3] = CallLeg(i, p, dir, u, n, q)
    BY <1>1, <1>2 DEF Filled
  <1>7. NetOf(i) = dir * n
    BY <1>3 DEF NetOf
  <1> HIDE DEF p, u, dir
  <1>8. b + 1 \in DOMAIN trades /\ b + 2 \in DOMAIN trades /\ b + 3 \in DOMAIN trades
    BY <1>1, <1>6 DEF LegsIn
  <1>9. trades[b + 1].code = Etf /\ Moved[b + 1] = dir * (n * u)
    BY <1>6, <1>8 DEF EtfLeg, Moved
  <1>10. trades[b + 2].code = p[2] /\ Moved[b + 2] = dir * n
    BY <1>6, <1>8 DEF PutLeg, Moved
  <1>11. trades[b + 3].code = p[1] /\ Moved[b + 3] = (-dir) * n
    BY <1>6, <1>8 DEF CallLeg, Moved
  <1>12. dir * (n * u) = u * (dir * n) /\ (-dir) * n = -(dir * n) /\ dir * n \in Int
    <2>1. CASE dir = 1
      BY <1>4, <2>1
    <2>2. CASE dir = -1
      BY <1>4, <2>2
    <2>3. QED
      BY <1>5, <2>1, <2>2
  <1>13. QED
    BY <1>3, <1>4, <1>6, <1>7, <1>8, <1>9, <1>10, <1>11, <1>12 DEF p, u

\* No option is in two pairs that were traded, and none is call and put.
LEMMA OptionOfPair ==
  ASSUME Paired, NEW p \in Tradable, NEW r \in Tradable,
         p[1] \in {r[1], r[2]} \/ p[2] \in {r[1], r[2]}
  PROVE  p = r /\ p[1] # p[2] /\ p[1] # Etf /\ p[2] # Etf
  <1>1. Matched(p) /\ Matched(r)
    BY DEF Paired
  <1>2. p[1] \in Codes /\ p[2] \in Codes
    BY DEF Paired
  <1>3. p[1] # p[2]
    BY <1>1 DEF Matched
  <1>4. /\ Contract(p[1]).expiry = Contract(r[1]).expiry
        /\ Contract(p[1]).strike = Contract(r[1]).strike
    BY <1>1 DEF Matched
  <1>5. p = r
    BY <1>4 DEF Paired
  <1>6. QED
    BY <1>2, <1>3, <1>5, ReportConstantsOK

\* The trades of code c that a signal made.
PartOf(i, c) == LegsOf(i) \cap TradesOf(c)

LEMMA PartsApart ==
  ASSUME NEW c, NEW i, NEW j, i # j
  PROVE  PartOf(i, c) \cap PartOf(j, c) = {}
  BY DEF PartOf, LegsOf

\* What a pair holds: its sets bought less those sold.
Net(I) == SumOf([i \in I |-> NetOf(i)], I)

LEMMA NetType ==
  ASSUME Journal, Paired, NEW I \in SUBSET Executed
  PROVE  /\ IsFiniteSet(I) /\ Net(I) \in Int
         /\ \A i \in I : [j \in I |-> NetOf(j)][i] = NetOf(i) /\ NetOf(i) \in Int
  <1>1. IsFiniteSet(I)
    BY SetsPositive
  <1>2. \A i \in I : [j \in I |-> NetOf(j)][i] = NetOf(i) /\ NetOf(i) \in Int
    BY OfPair
  <1>3. Net(I) \in Int
    BY <1>1, <1>2, SumType DEF Net
  <1>4. QED
    BY <1>1, <1>2, <1>3

\* The quantity that the signals I moved of code c, where each moved k times
\* its sets.
LEMMA MovedBy ==
  ASSUME Journal, Paired, NEW I \in SUBSET Executed, NEW c, NEW k \in Int,
         \A i \in I : SumOf(Moved, PartOf(i, c)) = k * NetOf(i)
  PROVE  SumOf(Moved, UNION {PartOf(i, c) : i \in I}) = k * Net(I)
  <1> DEFINE P == [i \in I |-> PartOf(i, c)]
             f == [i \in I |-> NetOf(i)]
             h == [i \in I |-> k * NetOf(i)]
             U == UNION {P[i] : i \in I}
  <1>1. trades \in Seq(Trade)
    BY DEF Journal
  <1>2. U \in SUBSET TradesOf(c) /\ TradesOf(c) \in SUBSET (DOMAIN trades)
    BY DEF PartOf, TradesOf
  <1>3. IsFiniteSet(I) /\ IsFiniteSet(U) /\ \A t \in U : Moved[t] \in Int
    BY <1>1, <1>2, NetType, TradesFinite, MovedValues
  <1>4. \A i, j \in I : i # j => P[i] \cap P[j] = {}
    BY PartsApart
  <1>5. \A i \in I : h[i] = SumOf(Moved, P[i])
    OBVIOUS
  <1>6. SumOf(Moved, U) = SumOf(h, I)
    <2> HIDE DEF P, h
    <2>1. QED
      BY <1>3, <1>4, <1>5, SumOfParts
  <1>7. \A i \in I : f[i] \in Int /\ h[i] = k * f[i]
    BY NetType
  <1>8. SumOf(h, I) = k * SumOf(f, I)
    <2> HIDE DEF f, h
    <2>1. QED
      BY <1>3, <1>7, SumTimes
  <1>9. U = UNION {PartOf(i, c) : i \in I}
    OBVIOUS
  <1>10. QED
    BY <1>6, <1>8, <1>9 DEF Net

LEMMA SumOfOne ==
  ASSUME NEW f, NEW e, f[e] \in Int
  PROVE  SumOf(f, {e}) = f[e]
  <1>1. IsFiniteSet({e}) /\ {e} \ {e} = {}
    BY FS_Singleton
  <1>2. SumOf(f, {e}) = f[e] + SumOf(f, {})
    BY <1>1, SumRemove
  <1>3. QED
    BY <1>2, SumEmpty

\* Every trade of an option of a pair was made by a signal of the pair.
LEMMA OptionTrades ==
  ASSUME Journal, Paired, NEW p \in Tradable, NEW c \in {p[1], p[2]}
  PROVE  TradesOf(c) = UNION {PartOf(i, c) : i \in Of(p)}
  <1>1. ASSUME NEW t \in TradesOf(c) PROVE \E i \in Of(p) : t \in PartOf(i, c)
    <2>1. t \in DOMAIN trades /\ trades[t].code = c
      BY DEF TradesOf
    <2> DEFINE i == trades[t].sig
    <2>2. i \in DOMAIN signals /\ t \in LegsOf(i)
      BY <2>1 DEF Journal, LegsOf
    <2> HIDE DEF i
    <2>3. i \in Executed
      BY <2>2 DEF Executed
    <2>4. PICK e, d, g \in DOMAIN trades :
             /\ LegsOf(i) = {e, d, g}
             /\ trades[e].code = Etf
             /\ trades[d].code = signals[i].pair[2]
             /\ trades[g].code = signals[i].pair[1]
      BY <2>3, OfPair
    <2> DEFINE r == signals[i].pair
    <2>5. r \in Tradable
      BY <2>3, ExecutedIs
    <2>6. c # Etf
      BY OptionOfPair
    <2>7. c \in {r[1], r[2]}
      BY <2>1, <2>2, <2>4, <2>6
    <2> HIDE DEF r
    <2>8. r = p
      BY <2>5, <2>7, OptionOfPair
    <2>9. QED
      BY <2>2, <2>3, <2>8 DEF Of, PartOf, r
  <1>2. QED
    BY <1>1 DEF PartOf

LEMMA OptionPart ==
  ASSUME Journal, Paired, NEW i \in Executed
  PROVE  LET p == signals[i].pair
         IN  /\ SumOf(Moved, PartOf(i, p[1])) = (-1) * NetOf(i)
             /\ SumOf(Moved, PartOf(i, p[2])) = 1 * NetOf(i)
             /\ SumOf(Moved, PartOf(i, Etf)) = UnitIn(contracts, p) * NetOf(i)
  <1> DEFINE p == signals[i].pair
             u == UnitIn(contracts, p)
  <1>1. p \in Tradable
    BY ExecutedIs
  <1>2. PICK e, d, c \in DOMAIN trades :
             /\ LegsOf(i) = {e, d, c}
             /\ trades[e].code = Etf /\ Moved[e] = u * NetOf(i)
             /\ trades[d].code = p[2] /\ Moved[d] = NetOf(i)
             /\ trades[c].code = p[1] /\ Moved[c] = -NetOf(i)
    BY OfPair
  <1>3. NetOf(i) \in Int /\ u \in Nat
    BY OfPair
  <1> HIDE DEF p, u
  <1>4. p[1] # p[2] /\ p[1] # Etf /\ p[2] # Etf
    BY <1>1, OptionOfPair
  <1>5. PartOf(i, Etf) = {e} /\ PartOf(i, p[2]) = {d} /\ PartOf(i, p[1]) = {c}
    BY <1>2, <1>4 DEF PartOf, TradesOf
  <1>6. u * NetOf(i) \in Int /\ -NetOf(i) \in Int
    BY <1>3
  <1>7. SumOf(Moved, {e}) = u * NetOf(i)
    BY <1>2, <1>6, SumOfOne
  <1>8. SumOf(Moved, {d}) = NetOf(i)
    BY <1>2, <1>3, SumOfOne
  <1>9. SumOf(Moved, {c}) = -NetOf(i)
    BY <1>2, <1>6, SumOfOne
  <1>10. (-1) * NetOf(i) = -NetOf(i) /\ 1 * NetOf(i) = NetOf(i)
    BY <1>3
  <1>11. QED
    BY <1>5, <1>7, <1>8, <1>9, <1>10 DEF p, u

\* The options of a pair are held in opposite numbers.
LEMMA HeldOfPair ==
  ASSUME Journal, Paired, NEW p \in Tradable
  PROVE  Held(p[1]) = -Net(Of(p)) /\ Held(p[2]) = Net(Of(p)) /\ Net(Of(p)) \in Int
  <1>1. Of(p) \in SUBSET Executed /\ \A i \in Of(p) : signals[i].pair = p
    BY DEF Of
  <1>2. \A i \in Of(p) : /\ SumOf(Moved, PartOf(i, p[1])) = (-1) * NetOf(i)
                          /\ SumOf(Moved, PartOf(i, p[2])) = 1 * NetOf(i)
    BY <1>1, OptionPart
  <1>3. SumOf(Moved, UNION {PartOf(i, p[1]) : i \in Of(p)}) = (-1) * Net(Of(p))
    BY <1>1, <1>2, MovedBy
  <1>4. SumOf(Moved, UNION {PartOf(i, p[2]) : i \in Of(p)}) = 1 * Net(Of(p))
    BY <1>1, <1>2, MovedBy
  <1>5. Held(p[1]) = (-1) * Net(Of(p)) /\ Held(p[2]) = 1 * Net(Of(p))
    BY <1>3, <1>4, OptionTrades, HeldIs DEF Journal
  <1>6. Net(Of(p)) \in Int
    BY <1>1, NetType
  <1>7. QED
    BY <1>5, <1>6

PairsTraded == {signals[i].pair : i \in Executed}

\* The ETF is held for the options: with no options left there is none.
LEMMA EtfSettles ==
  ASSUME Journal, Paired, \A p \in PairsTraded : Held(p[1]) = 0
  PROVE  Held(Etf) = 0
  <1> DEFINE P == [p \in PairsTraded |-> UNION {PartOf(i, Etf) : i \in Of(p)}]
             h == [p \in PairsTraded |-> SumOf(Moved, P[p])]
             U == UNION {P[p] : p \in PairsTraded}
  <1>1. trades \in Seq(Trade)
    BY DEF Journal
  <1>2. U = TradesOf(Etf)
    <2>1. ASSUME NEW t \in TradesOf(Etf) PROVE t \in U
      <3> DEFINE i == trades[t].sig
      <3>1. t \in DOMAIN trades /\ t \in LegsOf(i) /\ i \in DOMAIN signals
        BY DEF TradesOf, LegsOf, Journal
      <3> HIDE DEF i
      <3>2. i \in Executed
        BY <3>1 DEF Executed
      <3>3. t \in PartOf(i, Etf) /\ i \in Of(signals[i].pair) /\ signals[i].pair \in PairsTraded
        BY <3>1, <3>2 DEF PartOf, Of, PairsTraded
      <3>4. QED
        BY <3>3
    <2>2. U \subseteq TradesOf(Etf)
      BY DEF PartOf
    <2>3. QED
      BY <2>1, <2>2
  <1>3. IsFiniteSet(U) /\ \A t \in U : Moved[t] \in Int
    BY <1>1, <1>2, TradesFinite, MovedValues DEF TradesOf
  <1>4. IsFiniteSet(PairsTraded)
    <2>1. IsFiniteSet(Executed)
      BY SetsPositive
    <2> DEFINE f == [i \in Executed |-> signals[i].pair]
    <2>2. f \in Surjection(Executed, PairsTraded)
      BY DEF Surjection, PairsTraded
    <2>3. QED
      BY <2>1, <2>2, FS_Surjection
  <1>5. ASSUME NEW p \in PairsTraded, NEW r \in PairsTraded, p # r
        PROVE  P[p] \cap P[r] = {}
    <2>1. \A i \in Of(p), j \in Of(r) : i # j
      BY <1>5 DEF Of
    <2>2. QED
      BY <2>1, PartsApart
  <1>6. ASSUME NEW p \in PairsTraded PROVE SumOf(Moved, P[p]) = 0
    <2>1. Of(p) \in SUBSET Executed /\ \A i \in Of(p) : signals[i].pair = p
      BY DEF Of
    <2>2. p \in Tradable
      BY ExecutedIs DEF PairsTraded
    <2> DEFINE u == UnitIn(contracts, p)
    <2>3. u \in Nat
      BY <2>2, UnitTyped
    <2>4. \A i \in Of(p) : SumOf(Moved, PartOf(i, Etf)) = u * NetOf(i)
      BY <2>1, OptionPart
    <2> HIDE DEF u
    <2>5. SumOf(Moved, UNION {PartOf(i, Etf) : i \in Of(p)}) = u * Net(Of(p))
      BY <2>1, <2>3, <2>4, MovedBy
    <2>6. Net(Of(p)) = 0
      BY <2>2, HeldOfPair
    <2>7. QED
      BY <2>3, <2>5, <2>6
  <1>7. \A p \in PairsTraded : h[p] = SumOf(Moved, P[p]) /\ h[p] = 0
    BY <1>6
  <1>8. SumOf(Moved, U) = SumOf(h, PairsTraded)
    <2> HIDE DEF P, h
    <2>1. QED
      BY <1>3, <1>4, <1>5, <1>7, SumOfParts
  <1>9. SumOf(h, PairsTraded) = 0
    <2> HIDE DEF h
    <2>1. QED
      BY <1>4, <1>7, SumZero
  <1>10. QED
    BY <1>1, <1>2, <1>8, <1>9, HeldIs

-----------------------------------------------------------------------------
(* Sets and costs, added up.                                               *)

SetsFn == [i \in Executed |-> SetsOf(i)]
NetFn == [i \in Executed |-> NetOf(i)]

LEMMA SetsAdd ==
  ASSUME Journal, Paired, NEW I \in SUBSET Executed
  PROVE  /\ IsFiniteSet(I) /\ MapThenSumSet(SetsOf, I) = SumOf(SetsFn, I)
         /\ SumOf(SetsFn, I) \in Nat
         /\ \A i \in I : SetsFn[i] = SetsOf(i) /\ SetsOf(i) \in Nat \ {0}
  <1> DEFINE f == [i \in I |-> SetsOf(i)]
  <1>1. IsFiniteSet(I) /\ \A i \in I : SetsOf(i) \in Nat \ {0}
    BY SetsPositive
  <1>2. \A i \in I : f[i] = SetsOf(i) /\ SetsFn[i] = SetsOf(i)
    BY DEF SetsFn
  <1>3. MapThenSumSet(SetsOf, I) = SumOf(f, I)
    BY <1>1, SetsSumIs
  <1> HIDE DEF f
  <1>4. \A i \in I : f[i] = SetsFn[i] /\ f[i] \in Nat
    BY <1>1, <1>2
  <1>5. SumOf(f, I) = SumOf(SetsFn, I)
    BY <1>1, <1>4, SumAgree
  <1>6. \A i \in I : SetsFn[i] \in Nat
    BY <1>4
  <1>7. SumOf(SetsFn, I) \in Nat
    BY <1>1, <1>6, SumOfNaturals
  <1>8. QED
    BY <1>1, <1>2, <1>3, <1>5, <1>7

LEMMA NetAdds ==
  ASSUME Journal, Paired, NEW I \in SUBSET Executed
  PROVE  Net(I) = SumOf(NetFn, I) /\ \A i \in I : NetFn[i] = NetOf(i) /\ NetOf(i) \in Int
  <1>1. IsFiniteSet(I) /\ \A i \in I : [j \in I |-> NetOf(j)][i] = NetOf(i) /\ NetOf(i) \in Int
    BY NetType
  <1>2. \A i \in I : NetFn[i] = NetOf(i)
    BY DEF NetFn
  <1> DEFINE f == [i \in I |-> NetOf(i)]
  <1>3. \A i \in I : f[i] = NetFn[i]
    BY <1>2
  <1> HIDE DEF f
  <1>4. SumOf(f, I) = SumOf(NetFn, I)
    BY <1>1, <1>3, SumAgree
  <1>5. QED
    BY <1>1, <1>2, <1>4 DEF Net, f

\* The openings of a pair.
OpensOf(p) == {i \in Of(p) : signals[i].kind = "open"}

LEMMA OpensAndCloses ==
  ASSUME NEW p
  PROVE  /\ Of(p) = OpensOf(p) \cup RoundTripsOf(p) /\ OpensOf(p) \cap RoundTripsOf(p) = {}
         /\ OpensOf(p) \in SUBSET Executed /\ RoundTripsOf(p) \in SUBSET Executed
         /\ Of(p) \in SUBSET Executed /\ RoundTripsOf(p) \in SUBSET Closes
         /\ \A i \in RoundTripsOf(p) : signals[i].kind # "open" /\ signals[i].pair = p
         /\ \A i \in OpensOf(p) : signals[i].kind = "open" /\ signals[i].pair = p
  BY DEF OpensOf, RoundTripsOf, Of, Closes

LEMMA NetIs ==
  ASSUME Journal, Paired, NEW p
  PROVE  Net(Of(p)) = SumOf(SetsFn, OpensOf(p)) - SumOf(SetsFn, RoundTripsOf(p))
  <1> DEFINE O == OpensOf(p)
             C == RoundTripsOf(p)
  <1>1. /\ Of(p) = O \cup C /\ O \cap C = {} /\ O \in SUBSET Executed /\ C \in SUBSET Executed
        /\ Of(p) \in SUBSET Executed
        /\ \A i \in C : signals[i].kind # "open"
        /\ \A i \in O : signals[i].kind = "open"
    BY OpensAndCloses
  <1> HIDE DEF O, C
  <1>2. IsFiniteSet(O) /\ IsFiniteSet(C)
    BY <1>1, SetsAdd
  <1>3. \A i \in O \cup C : NetFn[i] = NetOf(i) /\ NetOf(i) \in Int
    BY <1>1, NetAdds
  <1>4. \A i \in O \cup C : SetsFn[i] = SetsOf(i) /\ SetsOf(i) \in Int
    <2>1. \A i \in Executed : SetsFn[i] = SetsOf(i) /\ SetsOf(i) \in Nat \ {0}
      BY SetsAdd
    <2>2. \A i \in O \cup C : i \in Executed
      BY <1>1
    <2>3. QED
      BY <2>1, <2>2
  <1>5. Net(Of(p)) = SumOf(NetFn, O) + SumOf(NetFn, C)
    <2>1. SumOf(NetFn, O \cup C) = SumOf(NetFn, O) + SumOf(NetFn, C)
      BY <1>1, <1>2, <1>3, SumUnion
    <2>2. QED
      BY <1>1, <2>1, NetAdds
  <1>6. \A i \in O : NetFn[i] = SetsFn[i]
    BY <1>1, <1>3, <1>4 DEF NetOf, DirOf
  <1>7. \A i \in C : SetsFn[i] \in Int /\ NetFn[i] = (-1) * SetsFn[i]
    BY <1>1, <1>3, <1>4 DEF NetOf, DirOf
  <1>8. SumOf(NetFn, O) = SumOf(SetsFn, O)
    BY <1>2, <1>6, SumAgree
  <1>9. SumOf(NetFn, C) = (-1) * SumOf(SetsFn, C)
    BY <1>2, <1>7, SumTimes
  <1>10. SumOf(SetsFn, O) \in Nat /\ SumOf(SetsFn, C) \in Nat
    BY <1>1, SetsAdd
  <1>11. QED
    BY <1>5, <1>8, <1>9, <1>10 DEF O, C

FlowFn == [t \in DOMAIN trades |-> Flow(t)]
FeeFn == [t \in DOMAIN trades |-> Fee(t)]
CostFn == [t \in DOMAIN trades |-> Flow(t) + Fee(t)]

LEMMA FlowsAre ==
  ASSUME trades \in Seq(Trade), NEW T \in SUBSET (DOMAIN trades)
  PROVE  SumOver(T, Flow) = SumOf(FlowFn, T)
  <1> DEFINE Computes(h) ==
               h = [s \in SUBSET T |->
                      IF s = {} THEN 0 ELSE Flow(NextOf(s)) + h[s \ {NextOf(s)}]]
  <1>1. \A s \in SUBSET T : s # {} => NextOf(s) \in DOMAIN trades
    BY NextOfIn
  <1>2. \A h : Computes(h) <=> Adds(h, FlowFn, T)
    BY <1>1, Zenon DEF Adds, FlowFn
  <1>3. SumOver(T, Flow) = (CHOOSE h : Computes(h))[T]
    BY Zenon DEF SumOver, MapThenSumSet, MapThenFoldSet, NextOf
  <1>4. IsFiniteSet(T)
    BY TradesFinite
  <1> HIDE DEF Computes
  <1>5. \E h : Computes(h)
    BY <1>2, <1>4, AddsExists
  <1>6. Computes(CHOOSE h : Computes(h))
    BY <1>5, Zenon
  <1>7. QED
    BY <1>2, <1>3, <1>4, <1>6, SumIs

LEMMA FeesAre ==
  ASSUME trades \in Seq(Trade), NEW T \in SUBSET (DOMAIN trades)
  PROVE  SumOver(T, Fee) = SumOf(FeeFn, T)
  <1> DEFINE Computes(h) ==
               h = [s \in SUBSET T |->
                      IF s = {} THEN 0 ELSE Fee(NextOf(s)) + h[s \ {NextOf(s)}]]
  <1>1. \A s \in SUBSET T : s # {} => NextOf(s) \in DOMAIN trades
    BY NextOfIn
  <1>2. \A h : Computes(h) <=> Adds(h, FeeFn, T)
    BY <1>1, Zenon DEF Adds, FeeFn
  <1>3. SumOver(T, Fee) = (CHOOSE h : Computes(h))[T]
    BY Zenon DEF SumOver, MapThenSumSet, MapThenFoldSet, NextOf
  <1>4. IsFiniteSet(T)
    BY TradesFinite
  <1> HIDE DEF Computes
  <1>5. \E h : Computes(h)
    BY <1>2, <1>4, AddsExists
  <1>6. Computes(CHOOSE h : Computes(h))
    BY <1>5, Zenon
  <1>7. QED
    BY <1>2, <1>3, <1>4, <1>6, SumIs

LEMMA CostTyped ==
  ASSUME trades \in Seq(Trade), NEW t \in DOMAIN trades
  PROVE  /\ FlowFn[t] \in Int /\ FeeFn[t] \in Int
         /\ CostFn[t] = FlowFn[t] + FeeFn[t] /\ CostFn[t] \in Int
  <1>1. trades[t] \in Trade
    OBVIOUS
  <1>2. /\ trades[t].dir \in Int /\ trades[t].price \in Int /\ trades[t].qty \in Int
        /\ trades[t].mult \in Int /\ trades[t].fee \in Int
    BY <1>1 DEF Trade
  <1>3. Flow(t) \in Int
    <2>1. trades[t].dir * trades[t].price \in Int
      BY <1>2
    <2>2. trades[t].dir * trades[t].price * trades[t].qty \in Int
      BY <1>2, <2>1
    <2>3. QED
      BY <1>2, <2>2 DEF Flow
  <1>4. Fee(t) \in Int
    BY <1>2 DEF Fee
  <1>5. QED
    BY <1>3, <1>4 DEF FlowFn, FeeFn, CostFn

LEMMA CostIs ==
  ASSUME trades \in Seq(Trade), NEW I
  PROVE  /\ CostOf(I) = SumOf(CostFn, UNION {LegsOf(i) : i \in I})
         /\ CostOf(I) \in Int /\ IsFiniteSet(UNION {LegsOf(i) : i \in I})
  <1> DEFINE T == UNION {LegsOf(i) : i \in I}
  <1>1. T \in SUBSET (DOMAIN trades)
    BY DEF LegsOf
  <1>2. CostOf(I) = SumOver(T, Flow) + SumOver(T, Fee)
    BY Zenon DEF CostOf
  <1> HIDE DEF T
  <1>3. IsFiniteSet(T)
    BY <1>1, TradesFinite
  <1>4. CostOf(I) = SumOf(FlowFn, T) + SumOf(FeeFn, T)
    BY <1>1, <1>2, FlowsAre, FeesAre
  <1>5. \A t \in T : /\ FlowFn[t] \in Int /\ FeeFn[t] \in Int
                     /\ CostFn[t] = FlowFn[t] + FeeFn[t] /\ CostFn[t] \in Int
    BY <1>1, CostTyped
  <1>6. SumOf(CostFn, T) = SumOf(FlowFn, T) + SumOf(FeeFn, T)
    BY <1>3, <1>5, SumPlus
  <1>7. SumOf(CostFn, T) \in Int
    BY <1>3, <1>5, SumType
  <1>8. QED
    BY <1>3, <1>4, <1>6, <1>7 DEF T

CostsFn == [i \in Executed |-> CostOf({i})]

\* The cost of several signals is the sum of their costs.
LEMMA CostsAdd ==
  ASSUME Journal, Paired, NEW I \in SUBSET Executed
  PROVE  /\ CostOf(I) = SumOf(CostsFn, I)
         /\ \A i \in I : CostsFn[i] = CostOf({i}) /\ CostOf({i}) \in Int
  <1> DEFINE P == [i \in I |-> LegsOf(i)]
             U == UNION {P[i] : i \in I}
  <1>1. trades \in Seq(Trade)
    BY DEF Journal
  <1>2. U = UNION {LegsOf(i) : i \in I}
    OBVIOUS
  <1>3. CostOf(I) = SumOf(CostFn, U) /\ IsFiniteSet(U)
    BY <1>1, <1>2, CostIs
  <1>4. ASSUME NEW i \in I
        PROVE  CostsFn[i] = SumOf(CostFn, P[i]) /\ CostsFn[i] = CostOf({i}) /\ CostOf({i}) \in Int
    <2>1. CostOf({i}) = SumOf(CostFn, UNION {LegsOf(j) : j \in {i}}) /\ CostOf({i}) \in Int
      BY <1>1, CostIs
    <2>2. UNION {LegsOf(j) : j \in {i}} = P[i]
      OBVIOUS
    <2>3. CostsFn[i] = CostOf({i})
      BY DEF CostsFn
    <2>4. QED
      BY <2>1, <2>2, <2>3
  <1>5. \A i, j \in I : i # j => P[i] \cap P[j] = {}
    BY DEF LegsOf
  <1>6. U \subseteq DOMAIN trades
    BY DEF LegsOf
  <1>7. \A t \in U : CostFn[t] \in Int
    BY <1>1, <1>6, CostTyped
  <1>8. IsFiniteSet(I)
    BY SetsPositive
  <1>9. SumOf(CostFn, U) = SumOf(CostsFn, I)
    <2>1. \A i \in I : CostsFn[i] = SumOf(CostFn, P[i])
      BY <1>4
    <2> HIDE DEF P
    <2>2. QED
      BY <1>3, <1>5, <1>7, <1>8, <2>1, SumOfParts
  <1>10. QED
    BY <1>3, <1>4, <1>9

LEMMA SetsOne ==
  ASSUME Journal, Paired, NEW i \in Executed
  PROVE  /\ SetsFn[i] = SetsOf(i) /\ SetsOf(i) > 0 /\ SetsOf(i) \in Int
         /\ CostsFn[i] = CostOf({i}) /\ CostOf({i}) \in Int
  <1>1. SetsOf(i) \in Nat \ {0}
    BY SetsPositive
  <1>2. SetsFn[i] = SetsOf(i)
    BY DEF SetsFn
  <1>3. CostsFn[i] = CostOf({i})
    BY DEF CostsFn
  <1>4. CostOf({i}) \in Int
    BY CostIs DEF Journal
  <1>5. QED
    BY <1>1, <1>2, <1>3, <1>4

-----------------------------------------------------------------------------
(* The round trips of a settled pair.                                      *)

\* The openings are among the first MaxSignals signals and of MaxSets sets at most.
OpenBounds(S, T) ==
    /\ \A i \in DOMAIN S : S[i].kind = "open" => i <= MaxSignals
    /\ \A t \in DOMAIN T : T[t].code # Etf /\ S[T[t].sig].kind = "open" => T[t].qty <= MaxSets

LEMMA OpensBounded ==
  ASSUME Journal, Paired, OpenBounds(signals, trades), NEW p
  PROVE  SumOf(SetsFn, OpensOf(p)) <= MaxSets * MaxSignals
  <1> DEFINE O == OpensOf(p)
  <1>1. O \in SUBSET Executed /\ \A i \in O : signals[i].kind = "open"
    BY OpensAndCloses
  <1> HIDE DEF O
  <1>2. ASSUME NEW i \in O PROVE i \in 1 .. MaxSignals
    <2>1. i \in Nat \ {0} /\ i \in DOMAIN signals
      BY <1>1, ExecutedIs
    <2>2. i <= MaxSignals
      BY <1>1, <2>1 DEF OpenBounds
    <2>3. QED
      BY <2>1, <2>2, ReportConstantsOK
  <1>3. ASSUME NEW i \in O PROVE SetsFn[i] \in Nat /\ SetsFn[i] <= MaxSets
    <2>1. PICK b \in Nat, n \in Nat \ {0}, q \in Prices :
              Filled(contracts, signals, trades, i, b, n, q)
      BY <1>1, ExecutedIs
    <2>2. SetsOf(i) = n /\ SetsFn[i] = n
      BY <1>1, <2>1, SetsOfIs, SetsAdd
    <2> DEFINE r == signals[i].pair
    <2>3. r \in Tradable
      BY <1>1, ExecutedIs
    <2>4. /\ b + 2 \in DOMAIN trades /\ trades[b + 2].sig = i
          /\ trades[b + 2].code = r[2] /\ trades[b + 2].qty = n
      BY <2>1 DEF Filled, PutLeg, LegsIn
    <2> HIDE DEF r
    <2>5. r[2] # Etf
      BY <2>3, OptionOfPair
    <2>6. n <= MaxSets
      BY <1>1, <2>4, <2>5 DEF OpenBounds
    <2>7. QED
      BY <2>2, <2>6
  <1>4. MaxSignals \in Nat /\ MaxSets \in Nat
    BY ReportConstantsOK
  <1>5. IsFiniteSet(1 .. MaxSignals) /\ Cardinality(1 .. MaxSignals) = MaxSignals
    BY <1>4, FS_Interval
  <1>6. IsFiniteSet(O) /\ Cardinality(O) <= MaxSignals /\ Cardinality(O) \in Nat
    <2>1. O \in SUBSET (1 .. MaxSignals)
      BY <1>2
    <2>2. QED
      BY <1>5, <2>1, FS_Subset, FS_CardinalityType
  <1>7. SumOf(SetsFn, O) <= MaxSets * Cardinality(O)
    BY <1>3, <1>4, <1>6, SumAtMost
  <1>8. MaxSets * Cardinality(O) <= MaxSets * MaxSignals
    <2>1. ASSUME NEW x \in Nat, NEW y \in Nat, NEW z \in Nat, y <= z PROVE x * y <= x * z
      BY <2>1
    <2>2. QED
      BY <1>4, <1>6, <2>1
  <1>9. SumOf(SetsFn, O) \in Nat
    BY <1>1, SetsAdd
  <1>10. SumOf(SetsFn, O) <= MaxSets * MaxSignals
    BY <1>4, <1>6, <1>7, <1>8, <1>9
  <1>11. QED
    BY <1>10 DEF O

\* The openings of so many sets are shared out without rest.
LEMMA SharedOut ==
  ASSUME NEW n \in Nat, n > 0, n <= MaxSets * MaxSignals
  PROVE  n * (Lots \div n) = Lots /\ Lots \div n \in Int /\ Lots \in Nat
  <1>1. Lots \in Nat /\ MaxSets \in Nat /\ MaxSignals \in Nat
    BY ReportConstantsOK
  <1>2. MaxSets * MaxSignals \in Nat
    BY <1>1
  <1>3. n \in 1 .. MaxSets * MaxSignals
    BY <1>2
  <1>4. Lots % n = 0
    BY <1>3, ReportConstantsOK
  <1>5. QED
    BY <1>1, <1>4

\* What the round trips of p lose, before they are turned into profits.
TripFn(p) == [i \in RoundTripsOf(p) |-> RoundTrip(i)]

LEMMA SettledTrips ==
  ASSUME Journal, Paired, OpenBounds(signals, trades), NEW p \in PairsTraded, Settled(p)
  PROVE  /\ RoundTripsOf(p) # {}
         /\ \A i \in RoundTripsOf(p) :
              AnalyzedNet(i) = TripFn(p)[i] /\ ReportedNet(i) = TripFn(p)[i]
         /\ SumOf(TripFn(p), RoundTripsOf(p)) = -(Lots * CostOf(Of(p)))
  <1> DEFINE O == OpensOf(p)
             C == RoundTripsOf(p)
             N == SumOf(SetsFn, O)
             share == Lots \div N
             K == share * CostOf(O)
             T == TripFn(p)
  <1>1. /\ Of(p) = O \cup C /\ O \cap C = {} /\ O \in SUBSET Executed /\ C \in SUBSET Executed
        /\ Of(p) \in SUBSET Executed
        /\ \A i \in C : signals[i].kind # "open" /\ signals[i].pair = p
        /\ \A i \in O : signals[i].kind = "open" /\ signals[i].pair = p
    BY OpensAndCloses
  <1>2. p \in Tradable
    BY ExecutedIs DEF PairsTraded
  <1>3. N = SumOf(SetsFn, C) /\ N \in Nat
    <2>1. N \in Nat /\ SumOf(SetsFn, C) \in Nat
      BY <1>1, SetsAdd
    <2>2. -Net(Of(p)) = 0 /\ Net(Of(p)) \in Int
      BY <1>2, HeldOfPair DEF Settled
    <2>3. Net(Of(p)) = N - SumOf(SetsFn, C)
      BY NetIs
    <2> HIDE DEF N, C
    <2>4. QED
      BY <2>1, <2>2, <2>3
  <1>4. ASSUME NEW I \in SUBSET Executed, I # {} PROVE SumOf(SetsFn, I) > 0
    <2>1. MapThenSumSet(SetsOf, I) \in Nat \ {0}
      BY <1>4, PriorsCount
    <2>2. SumOf(SetsFn, I) \in Nat \ {0}
      BY <2>1, SetsAdd
    <2>3. QED
      BY <2>2
  <1>5. C # {} /\ O # {} /\ N > 0
    <2>1. SumOf(SetsFn, {}) = 0
      BY SumEmpty
    <2>2. O \cup C # {}
      BY <1>1 DEF PairsTraded, Of
    <2>3. O # {} => N > 0
      BY <1>1, <1>4
    <2>4. C # {} => SumOf(SetsFn, C) > 0
      BY <1>1, <1>4
    <2>5. C = {} => N = 0
      BY <1>3, <2>1
    <2>6. O = {} => N = 0
      BY <2>1
    <2> HIDE DEF N, C, O
    <2>7. QED
      BY <1>3, <2>2, <2>3, <2>4, <2>5, <2>6
  <1>6. ASSUME NEW i \in C PROVE Priors(i) = O
    <2>1. \A j \in O : j < i
      BY <1>1 DEF Settled
    <2>2. Priors(i) \subseteq O
      BY <1>1 DEF Priors, OpensOf, Of
    <2>3. O \subseteq Priors(i)
      BY <1>1, <2>1 DEF Priors
    <2>4. QED
      BY <2>2, <2>3
  <1>7. N * share = Lots /\ share \in Int /\ Lots \in Nat
    <2>1. N <= MaxSets * MaxSignals
      BY OpensBounded
    <2> HIDE DEF N
    <2>2. QED
      BY <1>3, <1>5, <2>1, SharedOut
  <1>8. MapThenSumSet(SetsOf, O) = N
    BY <1>1, SetsAdd
  <1>9. CostOf(O) \in Int /\ CostOf(C) \in Int
    BY CostIs DEF Journal
  <1>10. ASSUME NEW i \in C
         PROVE  /\ T[i] = -(Lots * CostOf({i}) + SetsOf(i) * share * CostOf(O))
                /\ AnalyzedNet(i) = T[i] /\ ReportedNet(i) = T[i]
    <2>1. MapThenSumSet(SetsOf, Priors(i)) = N
      BY <1>6, <1>8
    <2>2. SetsOf(i) > 0 /\ signals[i].kind # "open"
      BY <1>1, SetsOne
    <2>3. T[i] = RoundTrip(i)
      BY DEF TripFn
    <2> HIDE DEF N
    <2>4. N > 0 /\ N # 0
      BY <1>3, <1>5
    <2>5. AnalyzedNet(i) = RoundTrip(i)
      BY <2>1, <2>2, <2>4 DEF AnalyzedNet
    <2>6. ReportedNet(i) = RoundTrip(i)
      BY <2>1, <2>4 DEF ReportedNet
    <2>7. RoundTrip(i) = -(Lots * CostOf({i}) + SetsOf(i) * share * CostOf(O))
      BY <1>6, <2>1, Zenon DEF RoundTrip
    <2>8. QED
      BY <2>3, <2>5, <2>6, <2>7
  <1> DEFINE f == [i \in C |-> Lots * CostsFn[i]]
             g == [i \in C |-> K * SetsFn[i]]
             h == [i \in C |-> f[i] + g[i]]
  <1>11. K \in Int
    BY <1>7, <1>9
  <1>12. \A i \in C : /\ CostsFn[i] = CostOf({i}) /\ CostOf({i}) \in Int
                       /\ SetsFn[i] = SetsOf(i) /\ SetsOf(i) \in Int
    BY <1>1, SetsOne
  <1> HIDE DEF C, O, N, share, T
  <1>13. \A i \in C : /\ f[i] \in Int /\ f[i] = Lots * CostsFn[i] /\ CostsFn[i] \in Int
                       /\ g[i] \in Int /\ g[i] = K * SetsFn[i] /\ SetsFn[i] \in Int
                       /\ h[i] = f[i] + g[i]
    <2> SUFFICES ASSUME NEW i \in C
                 PROVE  /\ f[i] \in Int /\ f[i] = Lots * CostsFn[i] /\ CostsFn[i] \in Int
                        /\ g[i] \in Int /\ g[i] = K * SetsFn[i] /\ SetsFn[i] \in Int
                        /\ h[i] = f[i] + g[i]
      OBVIOUS
    <2> HIDE DEF K
    <2>1. CostsFn[i] \in Int /\ SetsFn[i] \in Int
      BY <1>12
    <2>2. Lots * CostsFn[i] \in Int /\ K * SetsFn[i] \in Int
      BY <1>7, <1>11, <2>1
    <2>3. QED
      BY <2>1, <2>2
  <1>14. IsFiniteSet(C)
    BY <1>1, SetsAdd
  <1>15. SumOf(f, C) = Lots * SumOf(CostsFn, C)
    <2> HIDE DEF f
    <2>1. QED
      BY <1>7, <1>13, <1>14, SumTimes
  <1>16. SumOf(g, C) = K * N
    <2> HIDE DEF g, K
    <2>1. QED
      BY <1>3, <1>11, <1>13, <1>14, SumTimes
  <1>17. SumOf(h, C) = SumOf(f, C) + SumOf(g, C)
    <2> HIDE DEF f, g, h
    <2>1. QED
      BY <1>13, <1>14, SumPlus
  <1>18. \A i \in C : h[i] \in Int /\ T[i] = (-1) * h[i]
    <2> SUFFICES ASSUME NEW i \in C PROVE h[i] \in Int /\ T[i] = (-1) * h[i]
      OBVIOUS
    <2>1. T[i] = -(Lots * CostOf({i}) + SetsOf(i) * share * CostOf(O))
      BY <1>10
    <2>2. SetsOf(i) * share * CostOf(O) = K * SetsOf(i)
      <3>1. ASSUME NEW x \in Int, NEW y \in Int, NEW z \in Int PROVE x * y * z = (y * z) * x
        OBVIOUS
      <3>2. SetsOf(i) \in Int
        BY <1>12
      <3>3. QED
        BY <1>7, <1>9, <3>1, <3>2
    <2>3. T[i] = -(f[i] + g[i])
      BY <1>12, <1>13, <2>1, <2>2
    <2> HIDE DEF f, g, h
    <2>4. QED
      BY <1>13, <2>3
  <1>19. SumOf(T, C) = (-1) * SumOf(h, C)
    <2> HIDE DEF h
    <2>1. QED
      BY <1>14, <1>18, SumTimes
  <1>20. K * N = Lots * CostOf(O)
    BY <1>3, <1>7, <1>9
  <1>21. CostOf(C) = SumOf(CostsFn, C) /\ CostOf(O) = SumOf(CostsFn, O)
         /\ CostOf(Of(p)) = SumOf(CostsFn, O \cup C)
    BY <1>1, CostsAdd
  <1>22. CostOf(Of(p)) = CostOf(O) + CostOf(C)
    <2>1. IsFiniteSet(O) /\ \A i \in O \cup C : CostsFn[i] \in Int
      BY <1>1, SetsAdd, CostsAdd
    <2>2. SumOf(CostsFn, O \cup C) = SumOf(CostsFn, O) + SumOf(CostsFn, C)
      BY <1>1, <1>14, <2>1, SumUnion
    <2>3. QED
      BY <1>21, <2>2
  <1>23. Lots * (CostOf(O) + CostOf(C)) = Lots * CostOf(C) + Lots * CostOf(O)
    BY <1>7, <1>9
  <1>24. SumOf(T, C) = -(Lots * CostOf(Of(p)))
    <2>1. SumOf(T, C) = (-1) * (Lots * CostOf(C) + Lots * CostOf(O))
      BY <1>15, <1>16, <1>17, <1>19, <1>20, <1>21
    <2>2. Lots * CostOf(C) \in Int /\ Lots * CostOf(O) \in Int
      BY <1>7, <1>9
    <2>3. QED
      BY <1>22, <1>23, <2>1, <2>2
  <1>25. QED
    BY <1>5, <1>10, <1>24 DEF C, T

-----------------------------------------------------------------------------
(* The figures as functions of the signals S and the trades T: what the     *)
(* report was made of does not change once it is written.                  *)

ExecutedIn(S, T) == {i \in DOMAIN S : LegsIn(T, i) # {}}
ClosesIn(S, T) == {i \in ExecutedIn(S, T) : S[i].kind # "open"}
PriorsIn(S, T, i) ==
    {j \in ExecutedIn(S, T) : j < i /\ S[j].kind = "open" /\ S[j].pair = S[i].pair}
SetsIn(T, i) ==
    LET bought == {j \in LegsIn(T, i) : T[j].code # Etf /\ T[j].dir = 1}
    IN  IF bought = {} THEN 0 ELSE T[Min(bought)].qty
OpenedIn(S, T, i) == MapThenSumSet(LAMBDA j : SetsIn(T, j), PriorsIn(S, T, i))
FlowIn(T, L) == MapThenSumSet(LAMBDA t : T[t].dir * T[t].price * T[t].qty * T[t].mult, L)
FeeIn(T, L) == MapThenSumSet(LAMBDA t : T[t].fee, L)
SlippageIn(T, L) == MapThenSumSet(LAMBDA t : Slip * T[t].qty * T[t].mult, L)
CostIn(T, I) ==
    LET L == UNION {LegsIn(T, i) : i \in I} IN FlowIn(T, L) + FeeIn(T, L)
TripIn(S, T, i) ==
    -(Lots * CostIn(T, {i})
        + SetsIn(T, i) * (Lots \div OpenedIn(S, T, i)) * CostIn(T, PriorsIn(S, T, i)))
AnalyzedIn(S, T, i) ==
    IF S[i].kind # "open" /\ OpenedIn(S, T, i) > 0 /\ SetsIn(T, i) > 0
    THEN TripIn(S, T, i)
    ELSE -Lots * (CostIn(T, {i}) + SlippageIn(T, LegsIn(T, i)))
ReportedIn(S, T, i) == IF OpenedIn(S, T, i) = 0 THEN None ELSE TripIn(S, T, i)
FiguresIn(S, T, e) ==
    [total |-> e - Capital,
     judged |-> [i \in (IF ClosesIn(S, T) # {} THEN ClosesIn(S, T) ELSE ExecutedIn(S, T))
                    |-> AnalyzedIn(S, T, i)],
     actual |-> [i \in ClosesIn(S, T) |-> ReportedIn(S, T, i)]]

CashIn(T) == Capital - FlowIn(T, DOMAIN T) - FeeIn(T, DOMAIN T)
HeldIn(T, c) ==
    MapThenSumSet(LAMBDA i : T[i].dir * T[i].qty, {i \in DOMAIN T : T[i].code = c})
PriceIn(C, q, c) ==
    IF c = Etf THEN q.etf
    ELSE (IF (CHOOSE x \in C : x.code = c).kind = "call" THEN q.call ELSE q.put)
           * (CHOOSE x \in C : x.code = c).unit
ValueIn(C, T, q) ==
    CashIn(T) + MapThenSumSet(LAMBDA c : HeldIn(T, c) * PriceIn(C, q, c),
                              {T[i].code : i \in DOMAIN T})

LEMMA SignalFigures ==
  /\ Executed = ExecutedIn(signals, trades) /\ Closes = ClosesIn(signals, trades)
  /\ \A i : /\ Priors(i) = PriorsIn(signals, trades, i)
            /\ SetsOf(i) = SetsIn(trades, i)
  BY Zenon DEF Executed, ExecutedIn, Closes, ClosesIn, LegsOf, LegsIn, Priors, PriorsIn,
               SetsOf, SetsIn

LEMMA WrittenFigures ==
  ASSUME WriteReport
  PROVE  report' = FiguresIn(signals, trades, equity)
  BY Zenon DEF WriteReport, FiguresIn, AnalyzedIn, ReportedIn, TripIn, CostIn, SlippageIn,
               FeeIn, FlowIn, OpenedIn, SetsIn, PriorsIn, ClosesIn, ExecutedIn, LegsIn,
               AnalyzedNet, ReportedNet, RoundTrip, CostOf, Slippage, Fee, Flow, SumOver,
               SetsOf, Priors, Closes, Executed, LegsOf

LEMMA TheFigures ==
  LET r == FiguresIn(signals, trades, equity)
  IN  /\ r.total = equity - Capital
      /\ Closes # {} => r.judged = [i \in Closes |-> AnalyzedNet(i)]
      /\ r.actual = [i \in Closes |-> ReportedNet(i)]
  <1> DEFINE J == IF Closes # {} THEN Closes ELSE Executed
             j == [i \in J |-> AnalyzedNet(i)]
             a == [i \in Closes |-> ReportedNet(i)]
  <1>1. FiguresIn(signals, trades, equity) =
            [total |-> equity - Capital, judged |-> j, actual |-> a]
    BY Zenon DEF FiguresIn, AnalyzedIn, ReportedIn, TripIn, CostIn, SlippageIn,
               FeeIn, FlowIn, OpenedIn, SetsIn, PriorsIn, ClosesIn, ExecutedIn, LegsIn,
               AnalyzedNet, ReportedNet, RoundTrip, CostOf, Slippage, Fee, Flow, SumOver,
               SetsOf, Priors, Closes, Executed, LegsOf
  <1>2. Closes # {} => j = [i \in Closes |-> AnalyzedNet(i)]
    BY Zenon
  <1> HIDE DEF j, a
  <1>3. QED
    BY <1>1, <1>2 DEF a

LEMMA TheCurve ==
  ASSUME NEW q, EndOfData(q)
  PROVE  equity' = ValueIn(contracts, trades, q)
  BY Zenon DEF EndOfData, ValueIn, CashIn, HeldIn, PriceIn, FlowIn, FeeIn, Cash, Held, PriceOf,
               Contract, Flow, Fee, SumOver

LEMMA TheCash ==
  /\ CashIn(trades) = Cash
  /\ \A c : HeldIn(trades, c) = Held(c)
  BY Zenon DEF CashIn, HeldIn, FlowIn, FeeIn, Cash, Held, Flow, Fee, SumOver

-----------------------------------------------------------------------------
(* The run keeps its bounds, its curve and its report.                     *)

\* Until something is liquidated the curve ends with cash and positions.
Curve ==
    /\ stage \in {"liquidating", "done"}
    /\ \A i \in ExecutedIn(signals, trades) : signals[i].kind # "liquidation"
    => \E q \in LastQuotes : equity = ValueIn(contracts, trades, q)

Reported == stage = "done" => report = FiguresIn(signals, trades, equity)

BooksInv == RunInv /\ OpenBounds(signals, trades) /\ Curve /\ Reported

LEMMA BooksInit == Init => BooksInv
  BY RunInit DEF Init, BooksInv, OpenBounds, Curve, Reported

LEMMA BoundsHandle ==
  ASSUME RunInv, OpenBounds(signals, trades), NEW p \in Tradable, NEW kind \in Kinds,
         NEW n \in Nat, NEW q \in Prices, Handle(p, kind, n, q),
         kind = "open" => Len(signals) < MaxSignals /\ n <= MaxSets
  PROVE  OpenBounds(signals', trades')
  <1> DEFINE i == Len(signals) + 1
             b == Len(trades)
  <1>1. Appended(p, kind, n, q, i, b, signals, trades, signals', trades')
    BY HandleShape DEF RunInv
  <1>2. kind = "open" => i <= MaxSignals /\ n <= MaxSets
    BY ReportConstantsOK DEF RunInv, Journal
  <1>3. \A t \in DOMAIN trades : trades[t].sig \in DOMAIN signals
    BY DEF RunInv, Journal
  <1> HIDE DEF i, b
  <1>4. /\ DOMAIN signals = 1 .. (i - 1) /\ DOMAIN signals' = (DOMAIN signals) \cup {i}
        /\ \A j \in DOMAIN signals : signals'[j] = signals[j]
        /\ signals'[i] = [pair |-> p, kind |-> kind]
        /\ \A t \in DOMAIN trades : trades'[t] = trades[t]
    BY <1>1 DEF Appended
  <1>5. ASSUME NEW j \in DOMAIN signals', signals'[j].kind = "open"
        PROVE  j <= MaxSignals
    BY <1>2, <1>4, <1>5 DEF OpenBounds
  <1>6. ASSUME NEW t \in DOMAIN trades
        PROVE  trades'[t] = trades[t] /\ signals'[trades'[t].sig] = signals[trades[t].sig]
    BY <1>3, <1>4
  <1>7. ASSUME NEW t \in DOMAIN trades', trades'[t].code # Etf,
               signals'[trades'[t].sig].kind = "open"
        PROVE  trades'[t].qty <= MaxSets
    <2>1. CASE t \in DOMAIN trades
      BY <1>6, <1>7, <2>1 DEF OpenBounds
    <2>2. CASE t \notin DOMAIN trades
      <3>1. n > 0
        BY <1>1, <2>2 DEF Appended
      <3>2. t \in {b + 1, b + 2, b + 3}
        BY <1>1, <1>7, <2>2, <3>1 DEF Appended
      <3>3. /\ trades'[b + 1].code = Etf
            /\ trades'[b + 2].sig = i /\ trades'[b + 2].qty = n
            /\ trades'[b + 3].sig = i /\ trades'[b + 3].qty = n
        BY <1>1, <3>1 DEF Appended, EtfLeg, PutLeg, CallLeg
      <3>4. trades'[t].sig = i /\ trades'[t].qty = n
        BY <1>7, <3>2, <3>3
      <3>5. QED
        BY <1>2, <1>4, <1>7, <3>4
    <2>3. QED
      BY <2>1, <2>2
  <1>8. QED
    BY <1>5, <1>7 DEF OpenBounds

LEMMA CurveLiquidate ==
  ASSUME RunInv, Curve, stage = "liquidating", NEW p \in Tradable, NEW n \in Nat,
         NEW q \in Prices, Handle(p, "liquidation", n, q), UNCHANGED <<contracts, equity>>
  PROVE  Curve'
  <1> DEFINE i == Len(signals) + 1
             b == Len(trades)
  <1>1. Appended(p, "liquidation", n, q, i, b, signals, trades, signals', trades')
    BY HandleShape DEF RunInv, Kinds
  <1>2. \A t \in DOMAIN trades : trades[t].sig \in DOMAIN signals
    BY DEF RunInv, Journal
  <1> HIDE DEF i, b
  <1>3. /\ DOMAIN signals' = (DOMAIN signals) \cup {i}
        /\ \A j \in DOMAIN signals : signals'[j] = signals[j]
        /\ signals'[i] = [pair |-> p, kind |-> "liquidation"]
    BY <1>1 DEF Appended
  <1>4. CASE n > 0
    <2>1. LegsIn(trades', i) # {}
      <3>1. LegsIn(trades', i) = {b + 1, b + 2, b + 3}
        BY <1>1, <1>2, <1>4, AppendedLegs
      <3>2. QED
        BY <3>1
    <2>2. i \in ExecutedIn(signals', trades') /\ signals'[i].kind = "liquidation"
      BY <1>3, <2>1 DEF ExecutedIn
    <2>3. QED
      BY <2>2 DEF Curve
  <1>5. CASE n = 0
    <2>1. trades' = trades
      BY <1>1, <1>5 DEF Appended
    <2>2. ASSUME \A j \in ExecutedIn(signals', trades') : signals'[j].kind # "liquidation"
          PROVE  \A j \in ExecutedIn(signals, trades) : signals[j].kind # "liquidation"
      BY <1>3, <2>1, <2>2 DEF ExecutedIn
    <2>3. QED
      BY <2>1, <2>2 DEF Curve
  <1>6. QED
    BY <1>4, <1>5

LEMMA BooksNext == BooksInv /\ [Next]_vars => BooksInv'
  <1> SUFFICES ASSUME BooksInv, [Next]_vars PROVE BooksInv'
    OBVIOUS
  <1> USE DEF BooksInv
  <1>0. RunInv'
    BY RunNext
  <1>1. ASSUME NEW file \in Files, NEW ticked \in TickedSets, Load(file, ticked)
        PROVE  BooksInv'
    <2>1. signals' = signals /\ trades' = trades /\ stage' = "trading"
      BY <1>1 DEF Load
    <2>2. QED
      BY <1>0, <2>1 DEF Curve, Reported
  <1>2. ASSUME NEW p \in pairs, NEW n \in 0 .. MaxSets, NEW q \in Quotes, Open(p, n, q)
        PROVE  BooksInv'
    <2>1. /\ p \in Tradable /\ n \in Nat /\ n <= MaxSets /\ q \in Prices
          /\ Handle(p, "open", n, q) /\ "open" \in Kinds /\ Len(signals) < MaxSignals
          /\ stage' = "trading"
      BY <1>2, ReportConstantsOK DEF Open, Tradable, Prices, Kinds
    <2>2. OpenBounds(signals', trades')
      BY <2>1, BoundsHandle
    <2>3. QED
      BY <1>0, <2>1, <2>2 DEF Curve, Reported
  <1>3. ASSUME NEW p \in pairs, NEW n \in 0 .. SetsHeld(p), NEW q \in Quotes, Close(p, n, q)
        PROVE  BooksInv'
    <2>1. /\ p \in Tradable /\ q \in Prices
          /\ Handle(p, "close", n, q) /\ "close" \in Kinds /\ stage' = "trading"
      BY <1>3 DEF Close, Tradable, Prices, Kinds
    <2>2. n \in Nat
      BY SetsHeldIs DEF RunInv
    <2>3. OpenBounds(signals', trades')
      BY <2>1, <2>2, BoundsHandle
    <2>4. QED
      BY <1>0, <2>1, <2>3 DEF Curve, Reported
  <1>4. ASSUME NEW c \in Codes, Held(c) < 0, PutsFor(c) # {}
        PROVE  PairOf(c) \in Tradable
    BY <1>4, ShortCallOpened DEF RunInv
  <1>5. ASSUME NEW c \in Codes, NEW n \in 0 .. MaxSets * MaxSignals, NEW q \in Quotes,
               ForceClose(c, n, q)
        PROVE  BooksInv'
    <2>1. /\ q \in Prices /\ Handle(PairOf(c), "close", n, q) /\ "close" \in Kinds
          /\ Held(c) < 0 /\ PutsFor(c) # {} /\ stage' = "trading"
      BY <1>5 DEF ForceClose, Prices, Kinds
    <2>2. n \in Nat
      OBVIOUS
    <2>3. OpenBounds(signals', trades')
      BY <1>4, <2>1, <2>2, BoundsHandle
    <2>4. QED
      BY <1>0, <2>1, <2>3 DEF Curve, Reported
  <1>6. ASSUME NEW c \in Codes, NEW q \in LastQuotes, Liquidate(c, q)
        PROVE  BooksInv'
    <2>1. /\ q \in Prices /\ Handle(PairOf(c), "liquidation", SetsHeld(PairOf(c)), q)
          /\ "liquidation" \in Kinds /\ Held(c) < 0 /\ PutsFor(c) # {}
          /\ stage = "liquidating" /\ stage' = "liquidating"
          /\ UNCHANGED <<contracts, equity>>
      BY <1>6 DEF Liquidate, Residual, Prices, Kinds
    <2>2. SetsHeld(PairOf(c)) \in Nat
      BY SetsHeldIs DEF RunInv
    <2>3. OpenBounds(signals', trades')
      BY <1>4, <2>1, <2>2, BoundsHandle
    <2>4. Curve'
      BY <1>4, <2>1, <2>2, CurveLiquidate
    <2>5. QED
      BY <1>0, <2>1, <2>3, <2>4 DEF Reported
  <1>7. ASSUME NEW q \in LastQuotes, EndOfData(q)
        PROVE  BooksInv'
    <2>1. /\ signals' = signals /\ trades' = trades /\ contracts' = contracts
          /\ stage' = "liquidating"
      BY <1>7 DEF EndOfData
    <2>2. equity' = ValueIn(contracts, trades, q)
      BY <1>7, TheCurve
    <2>3. Curve'
      BY <2>1, <2>2 DEF Curve
    <2>4. QED
      BY <1>0, <2>1, <2>3 DEF Reported
  <1>8. CASE WriteReport
    <2>1. /\ signals' = signals /\ trades' = trades /\ contracts' = contracts
          /\ equity' = equity /\ stage = "liquidating" /\ stage' = "done"
      BY <1>8 DEF WriteReport
    <2>2. report' = FiguresIn(signals, trades, equity)
      BY <1>8, WrittenFigures
    <2>3. Curve'
      BY <2>1 DEF Curve
    <2>4. QED
      BY <1>0, <2>1, <2>2, <2>3 DEF Reported
  <1>9. CASE UNCHANGED vars
    BY <1>0, <1>9 DEF vars, Curve, Reported
  <1>10. QED
    BY <1>1, <1>2, <1>3, <1>5, <1>6, <1>7, <1>8, <1>9 DEF Next

\* What the run keeps for its report as well.
THEOREM BooksCorrect == Spec => []BooksInv
  <1>1. QED
    BY BooksInit, BooksNext, PTL DEF Spec

-----------------------------------------------------------------------------
(* The report of a run.                                                    *)

\* With nothing held the positions are worth nothing.
LEMMA ValueSettles ==
  ASSUME Journal, Paired, NEW q \in Prices, \A p \in PairsTraded : Settled(p)
  PROVE  ValueIn(contracts, trades, q) = Cash
  <1> DEFINE S == {trades[i].code : i \in DOMAIN trades}
             f == [c \in S |-> HeldIn(trades, c) * PriceIn(contracts, q, c)]
             Computes(h) ==
               h = [s \in SUBSET S |->
                      IF s = {} THEN 0
                      ELSE HeldIn(trades, NextOf(s)) * PriceIn(contracts, q, NextOf(s))
                             + h[s \ {NextOf(s)}]]
             V == MapThenSumSet(LAMBDA c : HeldIn(trades, c) * PriceIn(contracts, q, c), S)
  <1>1. trades \in Seq(Trade)
    BY DEF Journal
  <1>2. IsFiniteSet(S)
    <2> DEFINE g == [i \in DOMAIN trades |-> trades[i].code]
    <2>1. g \in Surjection(DOMAIN trades, S)
      BY DEF Surjection
    <2>2. IsFiniteSet(DOMAIN trades)
      BY <1>1, TradesFinite
    <2> HIDE DEF S
    <2>3. QED
      BY <2>1, <2>2, FS_Surjection
  <1>3. q.etf \in Int /\ q.call \in Int /\ q.put \in Int
    BY ReportConstantsOK DEF Prices
  <1>4. \A p \in PairsTraded : Held(p[1]) = 0 /\ Held(p[2]) = 0
    <2> SUFFICES ASSUME NEW p \in PairsTraded PROVE Held(p[1]) = 0 /\ Held(p[2]) = 0
      OBVIOUS
    <2>1. p \in Tradable /\ Held(p[1]) = 0
      BY ExecutedIs DEF PairsTraded, Settled
    <2>2. Held(p[1]) = -Net(Of(p)) /\ Held(p[2]) = Net(Of(p)) /\ Net(Of(p)) \in Int
      BY <2>1, HeldOfPair
    <2>3. QED
      BY <2>1, <2>2
  <1>5. ASSUME NEW c \in S
        PROVE  HeldIn(trades, c) = 0 /\ PriceIn(contracts, q, c) \in Int
    <2>1. PICK t \in DOMAIN trades : trades[t].code = c
      OBVIOUS
    <2>2. c \in Codes \/ c = Etf
      <3>1. trades[t] \in Trade
        BY <1>1
      <3>2. QED
        BY <2>1, <3>1 DEF Trade
    <2>3. CASE c = Etf
      <3>1. Held(Etf) = 0
        BY <1>4, EtfSettles
      <3>2. HeldIn(trades, c) = 0
        BY <2>3, <3>1, TheCash
      <3>3. QED
        BY <1>3, <2>3, <3>2 DEF PriceIn
    <2>4. CASE c \in Codes
      <3>1. PICK i \in DOMAIN signals :
              /\ LegsIn(trades, i) # {} /\ signals[i].pair \in Tradable
              /\ c = signals[i].pair[2] \/ c = signals[i].pair[1]
        BY <2>1, <2>4, LegOf
      <3>2. signals[i].pair \in PairsTraded
        BY <3>1, ExecutedIs DEF PairsTraded
      <3>3. Held(c) = 0
        BY <1>4, <3>1, <3>2
      <3>4. HeldIn(trades, c) = 0
        BY <3>3, TheCash
      <3>5. Traded(c)
        BY <3>1 DEF Tradable
      <3>6. PICK x \in contracts : x.code = c
        BY <3>5 DEF Traded
      <3>7. (CHOOSE y \in contracts : y.code = c) = x /\ x \in Row
        BY <3>6 DEF Paired
      <3>8. x.unit \in Int
        BY <3>7 DEF Row
      <3>9. c # Etf
        BY <2>4, ReportConstantsOK
      <3>10. PriceIn(contracts, q, c) = (IF x.kind = "call" THEN q.call ELSE q.put) * x.unit
        BY <3>7, <3>9 DEF PriceIn
      <3>11. PriceIn(contracts, q, c) \in Int
        BY <1>3, <3>8, <3>10
      <3>12. QED
        BY <3>4, <3>11
    <2>5. QED
      BY <2>2, <2>3, <2>4
  <1>6. \A c \in S : f[c] = 0
    <2> SUFFICES ASSUME NEW c \in S PROVE HeldIn(trades, c) * PriceIn(contracts, q, c) = 0
      OBVIOUS
    <2>1. QED
      BY <1>5
  <1>7. \A s \in SUBSET S : s # {} => NextOf(s) \in S
    BY NextOfIn
  <1> HIDE DEF S
  <1>8. \A h : Computes(h) <=> Adds(h, f, S)
    BY <1>7, Zenon DEF Adds
  <1>9. V = (CHOOSE h : Computes(h))[S]
    BY Zenon DEF MapThenSumSet, MapThenFoldSet, NextOf
  <1> HIDE DEF Computes, f, V
  <1>10. \E h : Computes(h)
    BY <1>2, <1>8, AddsExists
  <1>11. Computes(CHOOSE h : Computes(h))
    BY <1>10, Zenon
  <1>12. V = SumOf(f, S)
    BY <1>2, <1>8, <1>9, <1>11, SumIs
  <1>13. V = 0
    BY <1>2, <1>6, <1>12, SumZero
  <1>14. ValueIn(contracts, trades, q) = Cash + V
    <2>1. ValueIn(contracts, trades, q) = CashIn(trades) + V
      BY Zenon DEF ValueIn, V, S
    <2>2. QED
      BY <2>1, TheCash
  <1>15. Cash \in Int
    <2>1. SumOver(DOMAIN trades, Flow) = SumOf(FlowFn, DOMAIN trades)
          /\ SumOver(DOMAIN trades, Fee) = SumOf(FeeFn, DOMAIN trades)
      BY <1>1, FlowsAre, FeesAre
    <2>2. SumOf(FlowFn, DOMAIN trades) \in Int /\ SumOf(FeeFn, DOMAIN trades) \in Int
      BY <1>1, TradesFinite, CostTyped, SumType
    <2>3. QED
      BY <2>1, <2>2, ReportConstantsOK DEF Cash
  <1>16. QED
    BY <1>13, <1>14, <1>15

\* The round trips of every settled pair, for any file, prices and fees, and any
\* sets per order up to the bound: partial closes at different prices share
\* the openings' cost out without rest, in the analyzer as in the result page,
\* and a run that settled everything before its last tick ends at the same total.
THEOREM RoundTripsAddUpCorrect == Spec => []RoundTripsAddUp
  <1>1. BooksInv => RoundTripsAddUp
    <2> SUFFICES ASSUME BooksInv, stage = "done"
                 PROVE  LET Earned(P) == -Lots * CostOf(UNION {Of(p) : p \in P})
                        IN  /\ \A p \in PairsTraded : Settled(p) =>
                                 /\ MapThenSumSet(LAMBDA i : report.judged[i], RoundTripsOf(p))
                                      = Earned({p})
                                 /\ MapThenSumSet(LAMBDA i : report.actual[i], RoundTripsOf(p))
                                      = Earned({p})
                            /\ (\A p \in PairsTraded : Settled(p))
                                 /\ (\A i \in Executed : signals[i].kind # "liquidation")
                                 => report.total = Cash - Capital
      BY Zenon DEF RoundTripsAddUp, PairsTraded
    <2>1. Journal /\ Paired /\ OpenBounds(signals, trades)
      BY DEF BooksInv, RunInv
    <2>2. /\ report.total = equity - Capital
          /\ Closes # {} => report.judged = [i \in Closes |-> AnalyzedNet(i)]
          /\ report.actual = [i \in Closes |-> ReportedNet(i)]
      BY TheFigures DEF BooksInv, Reported
    <2>3. ASSUME NEW p \in PairsTraded, Settled(p)
          PROVE  /\ SumOf(report.judged, RoundTripsOf(p))
                        = -Lots * CostOf(UNION {Of(r) : r \in {p}})
                 /\ SumOf(report.actual, RoundTripsOf(p))
                        = -Lots * CostOf(UNION {Of(r) : r \in {p}})
      <3> DEFINE C == RoundTripsOf(p)
                 T == TripFn(p)
      <3>1. /\ C # {} /\ SumOf(T, C) = -(Lots * CostOf(Of(p)))
            /\ \A i \in C : AnalyzedNet(i) = T[i] /\ ReportedNet(i) = T[i]
        BY <2>1, <2>3, SettledTrips
      <3>2. C \subseteq Closes /\ C \in SUBSET Executed
        BY OpensAndCloses
      <3>3. IsFiniteSet(C)
        BY <2>1, <3>2, SetsPositive
      <3> HIDE DEF C, T
      <3>4. \A i \in C : report.judged[i] = T[i] /\ report.actual[i] = T[i]
        BY <2>2, <3>1, <3>2
      <3>5. SumOf(report.judged, C) = SumOf(T, C) /\ SumOf(report.actual, C) = SumOf(T, C)
        BY <3>3, <3>4, SumAgree
      <3>6. UNION {Of(r) : r \in {p}} = Of(p)
        OBVIOUS
      <3>7. Lots \in Int /\ CostOf(Of(p)) \in Int
        <4>1. CostOf(Of(p)) \in Int
          <5>1. trades \in Seq(Trade)
            BY <2>1 DEF Journal
          <5>2. QED
            BY <5>1, CostIs
        <4>2. Lots \in Int
          BY ReportConstantsOK
        <4>3. QED
          BY <4>1, <4>2
      <3>8. -Lots * CostOf(Of(p)) = -(Lots * CostOf(Of(p)))
        BY <3>7
      <3>9. QED
        BY <3>1, <3>5, <3>6, <3>8 DEF C
    <2>4. ASSUME \A p \in PairsTraded : Settled(p),
                 \A i \in Executed : signals[i].kind # "liquidation"
          PROVE  report.total = Cash - Capital
      <3>1. Executed = ExecutedIn(signals, trades)
        BY SignalFigures
      <3>2. PICK q \in LastQuotes : equity = ValueIn(contracts, trades, q)
        BY <2>4, <3>1 DEF BooksInv, Curve
      <3>3. q \in Prices
        BY DEF Prices
      <3>4. equity = Cash
        BY <2>1, <2>4, <3>2, <3>3, ValueSettles
      <3>5. QED
        BY <2>2, <3>4
    <2>5. \A p : /\ MapThenSumSet(LAMBDA i : report.judged[i], RoundTripsOf(p))
                     = SumOf(report.judged, RoundTripsOf(p))
                /\ MapThenSumSet(LAMBDA i : report.actual[i], RoundTripsOf(p))
                     = SumOf(report.actual, RoundTripsOf(p))
      BY Zenon DEF SumOf
    <2> DEFINE earned(p) == -Lots * CostOf(UNION {Of(r) : r \in {p}})
               judged(p) == MapThenSumSet(LAMBDA i : report.judged[i], RoundTripsOf(p))
               actual(p) == MapThenSumSet(LAMBDA i : report.actual[i], RoundTripsOf(p))
    <2>6. ASSUME NEW p \in PairsTraded, Settled(p)
          PROVE  judged(p) = earned(p) /\ actual(p) = earned(p)
      <3>1. /\ SumOf(report.judged, RoundTripsOf(p)) = earned(p)
            /\ SumOf(report.actual, RoundTripsOf(p)) = earned(p)
        BY <2>3, <2>6
      <3>2. /\ judged(p) = SumOf(report.judged, RoundTripsOf(p))
            /\ actual(p) = SumOf(report.actual, RoundTripsOf(p))
        BY <2>5, Zenon
      <3> HIDE DEF judged, actual, earned
      <3>3. QED
        BY <3>1, <3>2
    <2>7. QED
      BY <2>4, <2>6, Zenon
  <1>2. QED
    BY <1>1, BooksCorrect, PTL
=============================================================================
