------------------------------ MODULE DecodingProofs ------------------------------
(* Proofs about two encodings: every key of the database can be taken apart again, and dag-json is read as it was meant. *)
EXTENDS RevisionKeys, DagJson, SequenceTheorems, WellFoundedInduction, TLAPS

PathNames == UNION {{q[i] : i \in DOMAIN q} : q \in FilePaths}
AnyName == PathNames \cup Authors \cup Numbers \cup {Version}

\* A path is a sequence of names of any kind.
LEMMA PathIsSeq == ASSUME NEW p \in FilePaths PROVE p \in Seq(AnyName)
<1>1. p \in Seq(PathNames)  BY PathsAssumption DEF PathNames
<1>2. PathNames \subseteq AnyName  BY DEF AnyName
<1> QED  BY <1>1, <1>2

\* decodeKey undoes pathToKey, for a path of any length.
LEMMA DecodeKeyFor ==
  ASSUME NEW p \in FilePaths, NEW a \in Authors, NEW s \in Numbers
  PROVE  Decoded(KeyFor(p, a, s)) = [path |-> p, author |-> a, sequence |-> s]
<1> DEFINE k == KeyFor(p, a, s)
<1>1. p \in Seq(AnyName)  BY PathIsSeq
<1>2. a \in AnyName /\ s \in AnyName /\ Version \in AnyName  BY DEF AnyName
<1>3. k \in Seq(AnyName) /\ Len(k) = Len(p) + 3  BY <1>1, <1>2 DEF KeyFor
<1>4. \A i \in 1..Len(p) : k[i + 1] = p[i]  BY <1>1, <1>2 DEF KeyFor
<1>5. k[Len(p) + 2] = a /\ k[Len(p) + 3] = s  BY <1>1, <1>2 DEF KeyFor
<1>6. SubSeq(k, 2, Len(k) - 2) = p
  <2> DEFINE t == SubSeq(k, 2, Len(k) - 2)
  <2>1. Len(p) \in Nat  BY <1>1
  <2>2. t \in Seq(AnyName) /\ Len(t) = Len(p)  BY <1>3, <2>1
  <2>3. \A i \in 1..Len(p) : t[i] = k[i + 1]  BY <1>3, <2>1
  <2>4. \A i \in 1..Len(p) : t[i] = p[i]  BY <2>3, <1>4
  <2> HIDE DEF t
  <2>5. t = p  BY <1>1, <2>2, <2>4, SeqEqual
  <2> QED  BY <2>5 DEF t
<1>7. Len(k) - 1 = Len(p) + 2 /\ Len(k) = Len(p) + 3  BY <1>1, <1>3
<1>8. k[1] = Version  BY <1>1, <1>2 DEF KeyFor
<1> HIDE DEF k
<1>9. Decoded(k) = [path |-> p, author |-> a, sequence |-> s]  BY <1>5, <1>6, <1>7, <1>8 DEF Decoded
<1> QED  BY <1>9 DEF k
-----------------------------------------------------------------------------
\* The inductive invariant: only pathToKey makes keys.
OnlyKeys == \A k \in DOMAIN stored : \E p \in FilePaths, a \in Authors, s \in Numbers : k = KeyFor(p, a, s)

LEMMA OnlyKeysInit == KeysInit => OnlyKeys
BY DEF KeysInit, OnlyKeys

LEMMA OnlyKeysNext == OnlyKeys /\ [KeysNext]_keyVars => OnlyKeys'
<1> SUFFICES ASSUME OnlyKeys, [KeysNext]_keyVars PROVE OnlyKeys'  OBVIOUS
<1>1. ASSUME NEW p \in FilePaths, NEW a \in Authors, NEW s \in Numbers, NEW c \in Cids, Put(p, a, s, c)
      PROVE  OnlyKeys'
  <2>1. DOMAIN stored' = DOMAIN stored \cup {KeyFor(p, a, s)}  BY <1>1 DEF Put
  <2> QED  BY <2>1 DEF OnlyKeys
<1>2. ASSUME NEW p \in FilePaths, NEW a \in Authors, NEW s \in Numbers, Delete(p, a, s)
      PROVE  OnlyKeys'
  <2>1. DOMAIN stored' = DOMAIN stored \ {KeyFor(p, a, s)}  BY <1>2 DEF Delete
  <2> QED  BY <2>1 DEF OnlyKeys
<1>3. CASE UNCHANGED stored  BY <1>3 DEF OnlyKeys
<1>4. ASSUME NEW path \in Asked, List(path) PROVE UNCHANGED stored  BY <1>4 DEF List
<1>5. ASSUME NEW path \in Asked, NEW a \in Authors, NEW s \in Numbers, Export(path, a, s)
      PROVE  UNCHANGED stored
  BY <1>5 DEF Export
<1>6. ASSUME NEW item \in listing.items, Read(item) PROVE UNCHANGED stored  BY <1>6 DEF Read
<1>7. ASSUME NEW p \in exporting.todo, ExportOne(p) PROVE UNCHANGED stored  BY <1>7 DEF ExportOne
<1>8. CASE UNCHANGED keyVars  BY <1>3, <1>8 DEF keyVars
<1> QED  BY <1>1, <1>2, <1>3, <1>4, <1>5, <1>6, <1>7, <1>8 DEF KeysNext

LEMMA OnlyKeysDecode == OnlyKeys => KeysDecode
<1> SUFFICES ASSUME OnlyKeys, NEW k \in DOMAIN stored
             PROVE  /\ Decoded(k).path \in FilePaths /\ Decoded(k).author \in Authors
                    /\ Decoded(k).sequence \in Numbers
                    /\ k = KeyFor(Decoded(k).path, Decoded(k).author, Decoded(k).sequence)
  BY DEF KeysDecode
<1>1. PICK p \in FilePaths, a \in Authors, s \in Numbers : k = KeyFor(p, a, s)  BY DEF OnlyKeys
<1>2. Decoded(k) = [path |-> p, author |-> a, sequence |-> s]  BY <1>1, DecodeKeyFor
<1>3. Decoded(k).path = p /\ Decoded(k).author = a /\ Decoded(k).sequence = s  BY <1>2
<1> QED  BY <1>1, <1>3

\* Whatever paths, authors and numbers there are, every key in the database is decoded to the revision that was put.
THEOREM KeysAlwaysDecode == KeysSpec => []KeysDecode
<1>1. KeysInit => OnlyKeys  BY OnlyKeysInit
<1>2. OnlyKeys /\ [KeysNext]_keyVars => OnlyKeys'  BY OnlyKeysNext
<1>3. OnlyKeys => KeysDecode  BY OnlyKeysDecode
<1> QED  BY <1>1, <1>2, <1>3, PTL DEF KeysSpec

\* No two revisions share a key, so a put of one never replaces another one.
THEOREM KeysDistinct ==
  ASSUME NEW p \in FilePaths, NEW a \in Authors, NEW s \in Numbers,
         NEW q \in FilePaths, NEW b \in Authors, NEW t \in Numbers,
         KeyFor(p, a, s) = KeyFor(q, b, t)
  PROVE  p = q /\ a = b /\ s = t
<1>1. [path |-> p, author |-> a, sequence |-> s] = [path |-> q, author |-> b, sequence |-> t]
  BY DecodeKeyFor
<1>2. [path |-> p, author |-> a, sequence |-> s].path = p /\ [path |-> q, author |-> b, sequence |-> t].path = q  OBVIOUS
<1>3. [path |-> p, author |-> a, sequence |-> s].author = a /\ [path |-> q, author |-> b, sequence |-> t].author = b  OBVIOUS
<1>4. [path |-> p, author |-> a, sequence |-> s].sequence = s /\ [path |-> q, author |-> b, sequence |-> t].sequence = t  OBVIOUS
<1> QED  BY <1>1, <1>2, <1>3, <1>4

-----------------------------------------------------------------------------
(* export-revision *)

Exports == [path : Asked, author : Authors, sequence : Numbers, todo : SUBSET FilePaths]

\* The revision of the file that the export asks for had the cid at some time since it began.
Had(p, c) == <<p, exporting.author, exporting.sequence, c>> \in held

\* What is written was there at some time, and of what is neither written nor left some revision was missing.
ExportFile(p) ==
  /\ Had(p, Found(p, exporting.author, exporting.sequence))
  /\ p \in DOMAIN exported => Begins(p, exporting.path) /\ Had(p, exported[p])
  /\ p \notin DOMAIN exported /\ p \notin exporting.todo /\ Begins(p, exporting.path) => Had(p, None)

ExportInv ==
  /\ exporting = None => DOMAIN exported = {}
  /\ exporting # None =>
       /\ exporting \in Exports
       /\ \A p \in exporting.todo : Begins(p, exporting.path)
       /\ \A p \in FilePaths : ExportFile(p)

\* getAll finds every file that has a revision.
LEMMA ListingHasAll ==
  ASSUME OnlyKeys, NEW path \in Asked, NEW a \in Authors, NEW s \in Numbers
  PROVE  LET todo == {Decoded(k).path : k \in GetAll(path)}
         IN /\ todo \subseteq FilePaths /\ \A p \in todo : Begins(p, path)
            /\ \A p \in FilePaths \ todo : Begins(p, path) => Found(p, a, s) = None
<1> DEFINE todo == {Decoded(k).path : k \in GetAll(path)}
<1>1. todo \subseteq FilePaths
  <2> SUFFICES ASSUME NEW k \in GetAll(path) PROVE Decoded(k).path \in FilePaths  OBVIOUS
  <2>1. PICK p \in FilePaths, b \in Authors, n \in Numbers : k = KeyFor(p, b, n)  BY DEF OnlyKeys, GetAll
  <2>2. Decoded(k).path = p  BY <2>1, DecodeKeyFor
  <2> QED  BY <2>2
<1>2. \A p \in todo : Begins(p, path)  BY DEF GetAll
<1>3. ASSUME NEW p \in FilePaths, Begins(p, path), Found(p, a, s) # None PROVE p \in todo
  <2>1. KeyFor(p, a, s) \in DOMAIN stored  BY <1>3 DEF Found
  <2>2. Decoded(KeyFor(p, a, s)).path = p  BY DecodeKeyFor
  <2>3. KeyFor(p, a, s) \in GetAll(path)  BY <1>3, <2>1, <2>2 DEF GetAll
  <2> QED  BY <2>2, <2>3
<1> QED  BY <1>1, <1>2, <1>3

LEMMA ExportStep == ASSUME OnlyKeys, ExportInv, KeysNext PROVE ExportInv'
<1>1. ASSUME NEW p \in FilePaths, NEW a \in Authors, NEW s \in Numbers, Delete(p, a, s) \/ \E c \in Cids : Put(p, a, s, c)
      PROVE  ExportInv'
  <2>1. UNCHANGED <<exporting, exported>> /\ (exporting # None => held' = held \cup Holding')
    BY <1>1 DEF Delete, Put, Change
  <2>2. ASSUME exporting # None, NEW q \in FilePaths PROVE ExportFile(q)'
    <3>1. exporting.author \in Authors /\ exporting.sequence \in Numbers  BY <2>2 DEF ExportInv, Exports
    <3>2. <<q, exporting.author, exporting.sequence, Found(q, exporting.author, exporting.sequence)'>> \in Holding'
      BY <2>1, <3>1 DEF Holding, Found
    <3>3. Had(q, Found(q, exporting.author, exporting.sequence))'  BY <2>1, <2>2, <3>2 DEF Had, Found
    <3> QED  BY <2>1, <2>2, <3>3 DEF ExportInv, ExportFile, Had
  <2> QED  BY <2>1, <2>2 DEF ExportInv
<1>2. ASSUME NEW path \in Asked, List(path) PROVE ExportInv'
  BY <1>2 DEF List, ExportInv
<1>3. ASSUME NEW path \in Asked, NEW a \in Authors, NEW s \in Numbers, Export(path, a, s) PROVE ExportInv'
  <2> DEFINE todo == {Decoded(k).path : k \in GetAll(path)}
  <2>1. todo \subseteq FilePaths /\ (\A p \in todo : Begins(p, path))
        /\ \A p \in FilePaths \ todo : Begins(p, path) => Found(p, a, s) = None
    BY ListingHasAll
  <2>2. /\ exporting' = [path |-> path, author |-> a, sequence |-> s, todo |-> todo]
        /\ UNCHANGED <<exported, stored>> /\ DOMAIN exported = {} /\ held' = Holding
    BY <1>3 DEF Export, ExportInv
  <2> HIDE DEF todo
  <2>3. exporting' \in Exports /\ exporting' # None  BY <2>1, <2>2, PathsAssumption DEF Exports
  <2>4. \A q \in FilePaths : Had(q, Found(q, a, s))' /\ Found(q, a, s)' = Found(q, a, s)
    BY <2>2 DEF Had, Holding, Found
  <2>5. \A q \in FilePaths : ExportFile(q)'  BY <2>1, <2>2, <2>4 DEF ExportFile
  <2> QED  BY <2>1, <2>2, <2>3, <2>5 DEF ExportInv
<1>4. ASSUME NEW item, Read(item) PROVE ExportInv'
  BY <1>4 DEF Read, ExportInv, ExportFile, Had, Found
<1>5. ASSUME NEW p \in exporting.todo, ExportOne(p) PROVE ExportInv'
  <2> DEFINE c == Found(p, exporting.author, exporting.sequence)
  <2>1. exporting # None /\ exporting \in Exports /\ UNCHANGED <<stored, held>>  BY <1>5 DEF ExportOne, ExportInv
  <2>2. /\ exporting' \in Exports /\ exporting'.todo = exporting.todo \ {p} /\ exporting'.path = exporting.path
        /\ exporting'.author = exporting.author /\ exporting'.sequence = exporting.sequence /\ p \in FilePaths
    BY <1>5, <2>1 DEF ExportOne, Exports
  <2>3. exported' = IF c = None THEN exported ELSE [q \in DOMAIN exported \cup {p} |-> IF q = p THEN c ELSE exported[q]]
    BY <1>5 DEF ExportOne
  <2>4. /\ \A q : Found(q, exporting.author, exporting.sequence)' = Found(q, exporting.author, exporting.sequence)
        /\ \A q, x : Had(q, x)' = Had(q, x)
    BY <2>1, <2>2 DEF Found, Had
  <2>5. exporting' # None  BY <2>2, PathsAssumption DEF Exports
  <2>6. Begins(p, exporting.path) /\ Had(p, c) /\ \A q \in FilePaths : ExportFile(q)
    BY <1>5, <2>1, <2>2 DEF ExportInv, ExportFile
  <2> HIDE DEF c
  <2>7. ASSUME NEW q \in FilePaths PROVE ExportFile(q)'
    <3>1. CASE c = None  BY <2>2, <2>3, <2>4, <2>6, <3>1 DEF ExportFile
    <3>2. CASE c # None
      <4>1. DOMAIN exported' = DOMAIN exported \cup {p} /\ exported'[p] = c /\ \A r \in DOMAIN exported \ {p} : exported'[r] = exported[r]
        BY <2>3, <3>2
      <4> QED  BY <2>2, <2>4, <2>6, <4>1 DEF ExportFile
    <3> QED  BY <3>1, <3>2
  <2> QED  BY <2>1, <2>2, <2>5, <2>7 DEF ExportInv
<1> QED  BY <1>1, <1>2, <1>3, <1>4, <1>5 DEF KeysNext

\* export-revision: whatever revisions are put and deleted while it reads them one by one, in any order and for any paths,
\* authors and numbers, what it has written of a file is what the revision had at some time meanwhile, and what it has not
\* written of what begins with the path was missing at some time meanwhile.
THEOREM ExportAlwaysWhole == KeysSpec => []ExportWhole
<1>1. KeysInit => OnlyKeys /\ ExportInv
  <2>1. KeysInit => ExportInv  BY DEF KeysInit, ExportInv
  <2> QED  BY <2>1, OnlyKeysInit
<1>2. OnlyKeys /\ ExportInv /\ [KeysNext]_keyVars => (OnlyKeys /\ ExportInv)'
  <2>1. ASSUME OnlyKeys, ExportInv, UNCHANGED keyVars PROVE ExportInv'
    BY <2>1 DEF keyVars, ExportInv, ExportFile, Had, Found
  <2> QED  BY <2>1, OnlyKeysNext, ExportStep
<1>3. ExportInv => ExportWhole  BY DEF ExportInv, ExportFile, Had, ExportWhole
<1> QED  BY <1>1, <1>2, <1>3, PTL DEF KeysSpec
-----------------------------------------------------------------------------
(* dag-json *)

Less == {a \in Nat \X Nat : a[1] < a[2]}

\* A set of natural numbers that has a member has a least one.
LEMMA LeastNat ==
  ASSUME NEW T, T \subseteq Nat, T # {}
  PROVE  \E x \in T : \A y \in T : x <= y
<1>1. IsWellFoundedOn(Less, Nat)
  BY NatLessThanWellFounded DEF OpToRel, Less
<1>2. PICK x \in T : \A y \in T : ~(<<y, x>> \in Less)
  BY <1>1, WFMin, Zenon
<1>3. \A y \in T : ~(y < x)
  BY <1>2 DEF Less
<1> QED
  BY <1>3

\* A sequence with one more before it.
LEMMA OneBefore ==
  ASSUME NEW S, NEW x \in S, NEW s \in Seq(S)
  PROVE  /\ <<x>> \o s \in Seq(S) /\ Len(<<x>> \o s) = Len(s) + 1 /\ Len(<<x>> \o s) \in Nat \ {0}
         /\ (<<x>> \o s)[1] = x /\ \A i \in 1..Len(s) : (<<x>> \o s)[i + 1] = s[i]
<1>1. <<x>> \in Seq(S) /\ Len(<<x>>) = 1 /\ <<x>>[1] = x /\ Len(s) \in Nat
  OBVIOUS
<1>2. /\ <<x>> \o s \in Seq(S) /\ Len(<<x>> \o s) = Len(<<x>>) + Len(s)
      /\ \A i \in 1..(Len(<<x>>) + Len(s)) : (<<x>> \o s)[i] = IF i <= Len(<<x>>) THEN <<x>>[i] ELSE s[i - Len(<<x>>)]
  BY <1>1, ConcatProperties, Zenon
<1> QED
  BY <1>1, <1>2

Tok == JsonKeys \cup {"str", "num", "map", "break", "link", "data", "error"}

\* What a node is, by its name.
LEMMA NodeIs ==
  ASSUME NodesOK, NEW v \in JsonNodes
  PROVE  /\ v[1] \in {"str", "num", "end", "map", "field"}
         /\ v[1] = "str" => v = <<"str">>
         /\ v[1] = "num" => v = <<"num">>
         /\ v[1] = "end" => v = <<"end">>
         /\ v[1] = "map" => v = <<"map", v[2]>> /\ v[2] \in Fields /\ v[2] \in JsonNodes
         /\ v[1] = "field" => /\ v = <<"field", v[2], v[3], v[4]>> /\ v[2] \in JsonKeys
                              /\ v[3] \in Values /\ v[4] \in Fields /\ v[3] \in JsonNodes /\ v[4] \in JsonNodes
<1>1. CASE v \in {<<"str">>, <<"num">>, <<"end">>}
  BY <1>1
<1>2. CASE v = <<"map", v[2]>> /\ v[2] \in Fields
  <2>1. v[1] = "map"
    BY <1>2
  <2> QED
    BY <1>2, <2>1 DEF Fields, Values, Scalar, Map
<1>3. CASE v = <<"field", v[2], v[3], v[4]>> /\ v[2] \in JsonKeys /\ v[3] \in Values /\ v[4] \in Fields
  <2>1. v[1] = "field"
    BY <1>3
  <2> QED
    BY <1>3, <2>1 DEF Values, Fields, Scalar, Map
<1> QED
  BY <1>1, <1>2, <1>3 DEF NodesOK

\* What it is made of is smaller.
LEMMA Smaller ==
  ASSUME NodesOK, NEW v \in JsonNodes
  PROVE  /\ Rank[v] \in Nat /\ Rank[v] <= MaxRank
         /\ v[1] = "map" => Rank[v[2]] \in Nat /\ Rank[v[2]] < Rank[v]
         /\ v[1] = "field" => /\ Rank[v[3]] \in Nat /\ Rank[v[3]] < Rank[v]
                              /\ Rank[v[4]] \in Nat /\ Rank[v[4]] < Rank[v]
<1>1. \A u \in JsonNodes : Rank[u] \in Nat /\ Rank[u] <= MaxRank
  BY DEF NodesOK
<1>2. CASE v[1] = "map"
  <2>1. v \notin {<<"str">>, <<"num">>, <<"end">>}
    BY <1>2
  <2>2. ~(v = <<"field", v[2], v[3], v[4]>>)
    BY <1>2
  <2>3. Rank[v[2]] < Rank[v]
    BY <2>1, <2>2 DEF NodesOK
  <2> QED
    BY <1>1, <1>2, <2>3, NodeIs
<1>3. CASE v[1] = "field"
  <2>1. v \notin {<<"str">>, <<"num">>, <<"end">>}
    BY <1>3
  <2>2. ~(v = <<"map", v[2]>>)
    BY <1>3
  <2>3. Rank[v[3]] < Rank[v] /\ Rank[v[4]] < Rank[v]
    BY <2>1, <2>2 DEF NodesOK
  <2> QED
    BY <1>1, <1>3, <2>3, NodeIs
<1> QED
  BY <1>1, <1>2, <1>3

Below(n) == {v \in JsonNodes : Rank[v] < n}

\* The right-hand sides of Tokens and Meaning, with f for what is being defined.
TokensAt(f, v) ==
  IF Scalar(v) THEN v
  ELSE IF Map(v) THEN <<"map">> \o f[v[2]]
  ELSE IF Field(v) THEN <<v[2]>> \o f[v[3]] \o f[v[4]]
  ELSE <<"break">>

MeaningAt(f, v) ==
  IF Scalar(v) THEN v
  ELSE IF Names(v, "/") THEN IF Alone(v) THEN <<"link", "str">> ELSE <<"error">>
  ELSE IF Nests(v) THEN IF Alone(v) /\ Alone(v[2][3]) THEN <<"data">> ELSE <<"error">>
  ELSE IF Map(v) THEN <<"map">> \o f[v[2]]
  ELSE IF Field(v) THEN <<v[2]>> \o f[v[3]] \o f[v[4]]
  ELSE <<"break">>

\* Both look only at smaller nodes.
LEMMA OnlyBelow ==
  ASSUME NodesOK, NEW n \in Nat, NEW f, NEW g, \A v \in Below(n) : f[v] = g[v], NEW v \in Below(n + 1)
  PROVE  TokensAt(f, v) = TokensAt(g, v) /\ MeaningAt(f, v) = MeaningAt(g, v)
<1>1. v \in JsonNodes /\ Rank[v] < n + 1
  BY DEF Below
<1>2. CASE v[1] = "map"
  <2>1. v[2] \in Below(n)
    BY <1>1, <1>2, NodeIs, Smaller DEF Below
  <2>2. f[v[2]] = g[v[2]]
    BY <2>1
  <2> QED
    BY <1>2, <2>2 DEF TokensAt, MeaningAt, Scalar, Map, Field
<1>3. CASE v[1] = "field"
  <2>1. v[3] \in Below(n) /\ v[4] \in Below(n)
    BY <1>1, <1>3, NodeIs, Smaller DEF Below
  <2>2. f[v[3]] = g[v[3]] /\ f[v[4]] = g[v[4]]
    BY <2>1
  <2> QED
    BY <1>3, <2>2 DEF TokensAt, MeaningAt, Names, Nests, Scalar, Map, Field
<1>4. CASE v[1] \in {"str", "num", "end"}
  BY <1>4 DEF TokensAt, MeaningAt, Names, Nests, Scalar, Map, Field
<1> QED
  BY <1>1, <1>2, <1>3, <1>4, NodeIs

\* Tokens and Meaning are there: there is a function with their equation on the nodes below any rank.
LEMMA TokensExist == ASSUME NodesOK, NEW n \in Nat PROVE \E f : f = [v \in Below(n) |-> TokensAt(f, v)]
<1> DEFINE Bad == {k \in Nat : ~\E f : f = [v \in Below(k) |-> TokensAt(f, v)]}
<1>1. SUFFICES ASSUME n \in Bad PROVE FALSE
  OBVIOUS
<1>2. PICK k \in Bad : \A j \in Bad : k <= j
  <2>1. Bad \subseteq Nat
    OBVIOUS
  <2> HIDE DEF Bad
  <2> QED
    BY <1>1, <2>1, LeastNat
<1>3. CASE k = 0
  <2>1. Below(0) = {}
    BY Smaller DEF Below
  <2> DEFINE f == [v \in {} |-> {}]
  <2>2. f = [v \in Below(0) |-> TokensAt(f, v)]
    BY <2>1
  <2> QED
    BY <1>2, <1>3, <2>2
<1>4. CASE k # 0
  <2>1. k - 1 \in Nat /\ k - 1 \notin Bad /\ k \in Nat /\ (k - 1) + 1 = k
    BY <1>2, <1>4
  <2>2. PICK f : f = [v \in Below(k - 1) |-> TokensAt(f, v)]
    BY <2>1
  <2> DEFINE g == [v \in Below(k) |-> TokensAt(f, v)]
  <2>3. \A v \in Below(k - 1) : f[v] = g[v]
    <3>1. Below(k - 1) \subseteq Below(k)
      BY <2>1, Smaller DEF Below
    <3> QED
      BY <2>2, <3>1
  <2>4. \A v \in Below(k) : TokensAt(f, v) = TokensAt(g, v)
    <3> HIDE DEF g, Bad
    <3> QED
      BY <2>1, <2>3, OnlyBelow
  <2>5. g = [v \in Below(k) |-> TokensAt(g, v)]
    BY <2>4
  <2> QED
    BY <1>2, <2>5
<1> QED
  BY <1>3, <1>4

LEMMA MeaningExists == ASSUME NodesOK, NEW n \in Nat PROVE \E f : f = [v \in Below(n) |-> MeaningAt(f, v)]
<1> DEFINE Bad == {k \in Nat : ~\E f : f = [v \in Below(k) |-> MeaningAt(f, v)]}
<1>1. SUFFICES ASSUME n \in Bad PROVE FALSE
  OBVIOUS
<1>2. PICK k \in Bad : \A j \in Bad : k <= j
  <2>1. Bad \subseteq Nat
    OBVIOUS
  <2> HIDE DEF Bad
  <2> QED
    BY <1>1, <2>1, LeastNat
<1>3. CASE k = 0
  <2>1. Below(0) = {}
    BY Smaller DEF Below
  <2> DEFINE f == [v \in {} |-> {}]
  <2>2. f = [v \in Below(0) |-> MeaningAt(f, v)]
    BY <2>1
  <2> QED
    BY <1>2, <1>3, <2>2
<1>4. CASE k # 0
  <2>1. k - 1 \in Nat /\ k - 1 \notin Bad /\ k \in Nat /\ (k - 1) + 1 = k
    BY <1>2, <1>4
  <2>2. PICK f : f = [v \in Below(k - 1) |-> MeaningAt(f, v)]
    BY <2>1
  <2> DEFINE g == [v \in Below(k) |-> MeaningAt(f, v)]
  <2>3. \A v \in Below(k - 1) : f[v] = g[v]
    <3>1. Below(k - 1) \subseteq Below(k)
      BY <2>1, Smaller DEF Below
    <3> QED
      BY <2>2, <3>1
  <2>4. \A v \in Below(k) : MeaningAt(f, v) = MeaningAt(g, v)
    <3> HIDE DEF g, Bad
    <3> QED
      BY <2>1, <2>3, OnlyBelow
  <2>5. g = [v \in Below(k) |-> MeaningAt(g, v)]
    BY <2>4
  <2> QED
    BY <1>2, <2>5
<1> QED
  BY <1>3, <1>4

LEMMA TokensDefined == Tokens = CHOOSE f : f = [v \in JsonNodes |-> TokensAt(f, v)]
BY DEF Tokens, TokensAt

LEMMA MeaningDefined == Meaning = CHOOSE f : f = [v \in JsonNodes |-> MeaningAt(f, v)]
BY DEF Meaning, MeaningAt

LEMMA Unfolded ==
  ASSUME NodesOK, NEW v \in JsonNodes
  PROVE  Tokens[v] = TokensAt(Tokens, v) /\ Meaning[v] = MeaningAt(Meaning, v)
<1>1. MaxRank + 1 \in Nat /\ Below(MaxRank + 1) = JsonNodes
  BY Smaller DEF Below, NodesOK
<1>2. Tokens = CHOOSE f : f = [u \in JsonNodes |-> TokensAt(f, u)]
  BY TokensDefined
<1>3. Meaning = CHOOSE f : f = [u \in JsonNodes |-> MeaningAt(f, u)]
  BY MeaningDefined
<1>4. (\E f : f = [u \in JsonNodes |-> TokensAt(f, u)]) /\ (\E f : f = [u \in JsonNodes |-> MeaningAt(f, u)])
  BY <1>1, TokensExist, MeaningExists
<1>5. Tokens = [u \in JsonNodes |-> TokensAt(Tokens, u)]
  BY <1>2, <1>4, Zenon
<1>6. Meaning = [u \in JsonNodes |-> MeaningAt(Meaning, u)]
  BY <1>3, <1>4, Zenon
<1>7. Tokens[v] = TokensAt(Tokens, v)
  BY <1>5, Zenon
<1>8. Meaning[v] = MeaningAt(Meaning, v)
  BY <1>6, Zenon
<1> QED
  BY <1>7, <1>8

\* The equations, case by case.
LEMMA TokensIs ==
  ASSUME NodesOK, NEW v \in JsonNodes
  PROVE  /\ Scalar(v) => Tokens[v] = v
         /\ v = <<"end">> => Tokens[v] = <<"break">>
         /\ Map(v) => Tokens[v] = <<"map">> \o Tokens[v[2]]
         /\ Field(v) => Tokens[v] = <<v[2]>> \o Tokens[v[3]] \o Tokens[v[4]]
BY Unfolded DEF TokensAt, Scalar, Map, Field

LEMMA MeaningIs ==
  ASSUME NodesOK, NEW v \in JsonNodes
  PROVE  /\ Scalar(v) => Meaning[v] = v
         /\ v = <<"end">> => Meaning[v] = <<"break">>
         /\ Names(v, "/") => Meaning[v] = IF Alone(v) THEN <<"link", "str">> ELSE <<"error">>
         /\ Nests(v) => Meaning[v] = IF Alone(v) /\ Alone(v[2][3]) THEN <<"data">> ELSE <<"error">>
         /\ Map(v) /\ ~Names(v, "/") /\ ~Nests(v) => Meaning[v] = <<"map">> \o Meaning[v[2]]
         /\ Field(v) => Meaning[v] = <<v[2]>> \o Meaning[v[3]] \o Meaning[v[4]]
<1>1. Nests(v) => ~Names(v, "/")
  BY DEF Nests, Names, Map
<1>2. Names(v, "/") \/ Nests(v) => Map(v)
  BY DEF Names, Nests
<1>3. Meaning[v] = MeaningAt(Meaning, v)
  BY Unfolded
<1>4. Map(v) => ~Scalar(v) /\ ~Field(v)
  BY DEF Scalar, Map, Field
<1>5. Field(v) => ~Scalar(v)
  BY DEF Scalar, Field
<1>6. v = <<"end">> => ~Scalar(v) /\ ~Field(v) /\ ~Map(v)
  BY DEF Scalar, Field, Map
<1> QED
  BY <1>1, <1>2, <1>3, <1>4, <1>5, <1>6 DEF MeaningAt

\* Both are sequences of tokens.
LEMMA Typed == ASSUME NodesOK, NEW v \in JsonNodes PROVE Tokens[v] \in Seq(Tok) /\ Meaning[v] \in Seq(Tok)
<1> DEFINE Good(u) == Tokens[u] \in Seq(Tok) /\ Meaning[u] \in Seq(Tok)
           Bad == {k \in Nat : \E u \in JsonNodes : Rank[u] = k /\ ~Good(u)}
<1>1. SUFFICES ASSUME ~Good(v) PROVE FALSE
  OBVIOUS
<1>2. Rank[v] \in Bad
  BY <1>1, Smaller
<1>3. PICK k \in Bad : \A j \in Bad : k <= j
  <2>1. Bad \subseteq Nat
    OBVIOUS
  <2> HIDE DEF Bad
  <2> QED
    BY <1>2, <2>1, LeastNat
<1>4. PICK u \in JsonNodes : Rank[u] = k /\ ~Good(u)
  BY <1>3
<1>5. \A w \in JsonNodes : Rank[w] < Rank[u] => Good(w)
  <2> SUFFICES ASSUME NEW w \in JsonNodes, Rank[w] < Rank[u], ~Good(w) PROVE FALSE
    OBVIOUS
  <2>1. Rank[w] \in Nat /\ Rank[u] \in Nat
    BY Smaller
  <2>2. Rank[w] \in Bad
    BY <2>1
  <2> HIDE DEF Bad, Good
  <2>3. k <= Rank[w]
    BY <1>3, <2>2
  <2> QED
    BY <1>4, <2>1, <2>3
<1> HIDE DEF Bad
<1>6. CASE Scalar(u)
  <2>1. u \in Seq(Tok)
    <3>1. u = <<"str">> \/ u = <<"num">>
      BY <1>6, NodeIs DEF Scalar
    <3>2. <<"str">> \in Seq(Tok) /\ <<"num">> \in Seq(Tok)
      BY DEF Tok
    <3> QED
      BY <3>1, <3>2
  <2> QED
    BY <1>4, <1>6, <2>1, TokensIs, MeaningIs
<1>7. CASE u = <<"end">>
  <2>1. Tokens[u] = <<"break">> /\ Meaning[u] = <<"break">>
    BY <1>7, TokensIs, MeaningIs
  <2>2. <<"break">> \in Seq(Tok)
    BY DEF Tok
  <2> QED
    BY <1>4, <2>1, <2>2
<1>8. CASE Map(u)
  <2>1. u[2] \in JsonNodes /\ Good(u[2])
    BY <1>5, <1>8, NodeIs, Smaller DEF Map
  <2>2. <<"map">> \in Seq(Tok) /\ <<"link", "str">> \in Seq(Tok) /\ <<"data">> \in Seq(Tok) /\ <<"error">> \in Seq(Tok)
    BY DEF Tok
  <2>3. Tokens[u] \in Seq(Tok)
    <3>1. Tokens[u] = <<"map">> \o Tokens[u[2]]
      BY <1>8, TokensIs
    <3>2. <<"map">> \o Tokens[u[2]] \in Seq(Tok)
      BY <2>1, <2>2, ConcatProperties
    <3> QED
      BY <3>1, <3>2
  <2>4. <<"map">> \o Meaning[u[2]] \in Seq(Tok)
    BY <2>1, <2>2, ConcatProperties
  <2>5. Meaning[u] \in Seq(Tok)
    BY <1>8, <2>2, <2>4, MeaningIs
  <2> QED
    BY <1>4, <2>3, <2>5
<1>9. CASE Field(u)
  <2>1. u[3] \in JsonNodes /\ Good(u[3]) /\ u[4] \in JsonNodes /\ Good(u[4])
    BY <1>5, <1>9, NodeIs, Smaller DEF Field
  <2>2. <<u[2]>> \in Seq(Tok)
    BY <1>9, NodeIs DEF Field, Tok
  <2>3. <<u[2]>> \o Tokens[u[3]] \o Tokens[u[4]] \in Seq(Tok) /\ <<u[2]>> \o Meaning[u[3]] \o Meaning[u[4]] \in Seq(Tok)
    BY <2>1, <2>2, ConcatProperties
  <2> QED
    BY <1>4, <1>9, <2>3, TokensIs, MeaningIs
<1> QED
  BY <1>6, <1>7, <1>8, <1>9, NodeIs DEF Scalar, Map, Field

LEMMA TokensOfField ==
  ASSUME NodesOK, NEW v \in JsonNodes, Field(v)
  PROVE  /\ Tokens[v] = <<v[2]>> \o (Tokens[v[3]] \o Tokens[v[4]])
         /\ Meaning[v] = <<v[2]>> \o (Meaning[v[3]] \o Meaning[v[4]])
<1>1. v[3] \in JsonNodes /\ v[4] \in JsonNodes /\ v[2] \in Tok
  BY NodeIs DEF Field, Tok
<1>2. /\ Tokens[v[3]] \in Seq(Tok) /\ Tokens[v[4]] \in Seq(Tok) /\ Meaning[v[3]] \in Seq(Tok) /\ Meaning[v[4]] \in Seq(Tok)
      /\ <<v[2]>> \in Seq(Tok)
  BY <1>1, Typed
<1>3. Tokens[v] = (<<v[2]>> \o Tokens[v[3]]) \o Tokens[v[4]]
  BY TokensIs
<1>4. Meaning[v] = (<<v[2]>> \o Meaning[v[3]]) \o Meaning[v[4]]
  BY MeaningIs
<1>5. \A s, t, u \in Seq(Tok) : (s \o t) \o u = s \o (t \o u)
  BY ConcatAssociative
<1>6. Tokens[v] = <<v[2]>> \o (Tokens[v[3]] \o Tokens[v[4]])
  BY <1>2, <1>3, <1>5
<1>7. Meaning[v] = <<v[2]>> \o (Meaning[v[3]] \o Meaning[v[4]])
  BY <1>2, <1>4, <1>5
<1> QED
  BY <1>6, <1>7

\* The token that a node begins with.
First(v) == IF Field(v) THEN v[2] ELSE IF v = <<"end">> THEN "break" ELSE v[1]

LEMMA BeginsWith ==
  ASSUME NodesOK, NEW v \in JsonNodes, NEW b \in Seq(Tok)
  PROVE  /\ Tokens[v] \o b \in Seq(Tok) /\ Len(Tokens[v] \o b) \in Nat \ {0} /\ (Tokens[v] \o b)[1] = First(v)
         /\ First(v) \in Tok
<1>1. Tokens[v] \in Seq(Tok)
  BY Typed
<1>2. Len(Tokens[v]) \in Nat \ {0} /\ Tokens[v][1] = First(v)
  <2>1. CASE Scalar(v)
    <3>1. v = <<"str">> \/ v = <<"num">>
      BY <2>1, NodeIs DEF Scalar
    <3>2. Tokens[v] = v
      BY <2>1, TokensIs
    <3>3. First(v) = v[1]
      BY <3>1 DEF First, Field
    <3>4. Len(v) = 1
      BY <3>1
    <3> QED
      BY <3>2, <3>3, <3>4
  <2>2. CASE v = <<"end">>
    <3>1. Tokens[v] = <<"break">> /\ First(v) = "break"
      BY <2>2, TokensIs DEF First, Field
    <3> QED
      BY <3>1
  <2>3. CASE Map(v)
    <3>1. v[2] \in JsonNodes /\ Tokens[v[2]] \in Seq(Tok)
      BY <2>3, NodeIs, Typed DEF Map
    <3>2. "map" \in Tok /\ Tokens[v] = <<"map">> \o Tokens[v[2]]
      BY <2>3, TokensIs DEF Tok
    <3>3. Len(Tokens[v]) \in Nat \ {0} /\ Tokens[v][1] = "map"
      BY <3>1, <3>2, OneBefore
    <3>4. First(v) = "map"
      BY <2>3 DEF First, Field, Map
    <3> QED
      BY <3>3, <3>4
  <2>4. CASE Field(v)
    <3>1. v[3] \in JsonNodes /\ Tokens[v[3]] \in Seq(Tok) /\ v[4] \in JsonNodes /\ Tokens[v[4]] \in Seq(Tok)
      BY <2>4, NodeIs, Typed DEF Field
    <3>2. v[2] \in Tok /\ First(v) = v[2] /\ Tokens[v] = <<v[2]>> \o (Tokens[v[3]] \o Tokens[v[4]])
      BY <2>4, NodeIs, TokensOfField DEF Field, Tok, First
    <3>3. Tokens[v[3]] \o Tokens[v[4]] \in Seq(Tok)
      BY <3>1, ConcatProperties
    <3>4. ASSUME NEW x \in Tok, NEW s \in Seq(Tok), Tokens[v] = <<x>> \o s
          PROVE  Len(Tokens[v]) \in Nat \ {0} /\ Tokens[v][1] = x
      <4>1. Len(<<x>> \o s) \in Nat \ {0} /\ (<<x>> \o s)[1] = x
        BY OneBefore
      <4> QED
        BY <3>4, <4>1
    <3>5. Len(Tokens[v]) \in Nat \ {0} /\ Tokens[v][1] = v[2]
      BY <3>2, <3>3, <3>4
    <3> QED
      BY <3>2, <3>5
  <2> QED
    BY <2>1, <2>2, <2>3, <2>4, NodeIs DEF Scalar, Map, Field
<1>3. First(v) \in Tok
  BY <1>1, <1>2, ElementOfSeq
<1> QED
  BY <1>1, <1>2, <1>3, ConcatProperties

\* Which node begins with a given token.
LEMMA BegunBy ==
  ASSUME NodesOK, NEW v \in JsonNodes
  PROVE  /\ First(v) = "map" <=> Map(v)
         /\ First(v) = "break" <=> v = <<"end">>
         /\ v \in Values => (IsString(First(v)) <=> v = <<"str">>)
         /\ v \in Fields => v = <<"end">> \/ (Field(v) /\ First(v) = v[2])
         /\ v \in Values => Scalar(v) \/ Map(v)
<1>1. "map" \notin JsonKeys /\ "break" \notin JsonKeys /\ "num" \notin JsonKeys
  BY DEF NodesOK
<1>2. CASE Scalar(v)
  <2>1. v \notin Fields /\ v # <<"end">> /\ ~Map(v) /\ ~Field(v) /\ First(v) = v[1] /\ v = <<v[1]>> /\ v[1] \in {"str", "num"}
    BY <1>2, NodeIs DEF First, Values, Fields, Scalar, Map, Field
  <2>2. IsString(v[1]) <=> v = <<"str">>
    BY <2>1 DEF IsString
  <2> QED
    BY <1>2, <2>1, <2>2
<1>3. CASE Map(v)
  <2>1. v \notin Fields /\ v # <<"end">> /\ v # <<"str">> /\ ~Field(v) /\ First(v) = "map"
    BY <1>3, NodeIs DEF First, Values, Fields, Scalar, Map, Field
  <2> QED
    BY <1>3, <2>1 DEF IsString
<1>4. CASE v = <<"end">>
  <2>1. v \notin Values /\ ~Map(v) /\ ~Field(v) /\ First(v) = "break"
    BY <1>4, NodeIs DEF First, Values, Scalar, Map, Field
  <2> QED
    BY <1>4, <2>1
<1>5. CASE Field(v)
  <2>1. v \notin Values /\ v # <<"end">> /\ ~Map(v) /\ First(v) = v[2] /\ v[2] \in JsonKeys
    BY <1>5, NodeIs DEF First, Values, Scalar, Map, Field
  <2> QED
    BY <1>1, <1>5, <2>1
<1> QED
  BY <1>2, <1>3, <1>4, <1>5, NodeIs DEF Scalar, Map, Field

\* The tokens ahead, and what they mean: a is what some nodes, one after the other, are read as, and m what they mean.
\* Said without counting the nodes: the least relation that has nothing in it and one more node before what is in it.
Pairs == Seq(Tok) \X Seq(Tok)
Closed(R) ==
  /\ <<<<>>, <<>>>> \in R
  /\ \A a, m \in Seq(Tok) : <<a, m>> \in R => \A v \in JsonNodes : <<Tokens[v] \o a, Meaning[v] \o m>> \in R
Reads(a, m) == <<a, m>> \in Pairs /\ \A R \in SUBSET Pairs : Closed(R) => <<a, m>> \in R

LEMMA ReadsNothing == Reads(<<>>, <<>>)
<1>1. <<<<>>, <<>>>> \in Pairs
  BY EmptySeq DEF Pairs
<1> QED
  BY <1>1 DEF Reads, Closed

LEMMA ReadsOneMore ==
  ASSUME NodesOK, NEW a, NEW m, Reads(a, m), NEW v \in JsonNodes
  PROVE  Reads(Tokens[v] \o a, Meaning[v] \o m)
<1>1. a \in Seq(Tok) /\ m \in Seq(Tok) /\ Tokens[v] \in Seq(Tok) /\ Meaning[v] \in Seq(Tok)
  BY Typed DEF Reads, Pairs
<1>2. Tokens[v] \o a \in Seq(Tok) /\ Meaning[v] \o m \in Seq(Tok)
  BY <1>1, ConcatProperties
<1>3. ASSUME NEW R \in SUBSET Pairs, Closed(R) PROVE <<Tokens[v] \o a, Meaning[v] \o m>> \in R
  BY <1>1, <1>3 DEF Reads, Closed
<1> QED
  BY <1>2, <1>3 DEF Reads, Pairs

\* There is nothing ahead, or a node and what is read after it.
Begun(a, m) ==
  \/ a = <<>> /\ m = <<>>
  \/ \E v \in JsonNodes, b, c \in Seq(Tok) : Reads(b, c) /\ a = Tokens[v] \o b /\ m = Meaning[v] \o c

LEMMA ReadsBegins == ASSUME NodesOK PROVE \A a, m : Reads(a, m) => Begun(a, m)
<1> SUFFICES ASSUME NEW a, NEW m, Reads(a, m) PROVE Begun(a, m)
  OBVIOUS
<1> DEFINE R == {p \in Pairs : Reads(p[1], p[2]) /\ Begun(p[1], p[2])}
<1>1. R \in SUBSET Pairs
  OBVIOUS
<1>2. \A x, y \in Seq(Tok) : <<x, y>> \in R <=> Reads(x, y) /\ Begun(x, y)
  BY DEF Pairs
<1>3. <<<<>>, <<>>>> \in R
  <2>1. <<>> \in Seq(Tok)
    OBVIOUS
  <2>2. Begun(<<>>, <<>>)
    BY DEF Begun
  <2> HIDE DEF R
  <2> QED
    BY <1>2, <2>1, <2>2, ReadsNothing
<1>4. ASSUME NEW x \in Seq(Tok), NEW y \in Seq(Tok), <<x, y>> \in R, NEW v \in JsonNodes
      PROVE  <<Tokens[v] \o x, Meaning[v] \o y>> \in R
  <2>1. Reads(x, y)
    BY <1>2, <1>4
  <2>2. Reads(Tokens[v] \o x, Meaning[v] \o y)
    BY <2>1, ReadsOneMore
  <2>3. Begun(Tokens[v] \o x, Meaning[v] \o y)
    BY <2>1 DEF Begun
  <2>4. Tokens[v] \o x \in Seq(Tok) /\ Meaning[v] \o y \in Seq(Tok)
    BY <2>2 DEF Reads, Pairs
  <2> HIDE DEF R
  <2> QED
    BY <1>2, <2>2, <2>3, <2>4
<1>5. Closed(R)
  <2> HIDE DEF R
  <2> QED
    BY <1>3, <1>4 DEF Closed
<1>6. a \in Seq(Tok) /\ m \in Seq(Tok) /\ <<a, m>> \in R
  <2> HIDE DEF R
  <2> QED
    BY <1>1, <1>5 DEF Reads, Pairs
<1>7. Begun(a, m)
  <2> HIDE DEF R
  <2> QED
    BY <1>2, <1>6
<1> QED
  BY <1>7
-----------------------------------------------------------------------------
LEMMA Assoc == \A s, t, u \in Seq(Tok) : (s \o t) \o u = s \o (t \o u)
BY ConcatAssociative

LEMMA Joined ==
  \A s, t \in Seq(Tok) :
    /\ s \o t \in Seq(Tok) /\ Len(s \o t) = Len(s) + Len(t)
    /\ \A i \in 1..(Len(s) + Len(t)) : (s \o t)[i] = IF i <= Len(s) THEN s[i] ELSE t[i - Len(s)]
BY ConcatProperties

\* The tokens ahead after next: those pushed, the last one first, and then those that were not looked at.
LEMMA AheadAt ==
  ASSUME NEW s \in Seq(Tok), NEW t \in Seq(Tok)
  PROVE  /\ Reverse(s) \o t \in Seq(Tok) /\ Len(Reverse(s) \o t) = Len(s) + Len(t)
         /\ \A i \in 1..(Len(s) + Len(t)) : (Reverse(s) \o t)[i] = IF i <= Len(s) THEN s[Len(s) - i + 1] ELSE t[i - Len(s)]
<1> DEFINE r == Reverse(s)
<1>1. r \in Seq(Tok) /\ Len(r) = Len(s) /\ \A i \in 1..Len(s) : r[i] = s[Len(s) - i + 1]
  BY DEF Reverse
<1>2. Len(s) \in Nat /\ Len(t) \in Nat
  OBVIOUS
<1> HIDE DEF r
<1>3. /\ r \o t \in Seq(Tok) /\ Len(r \o t) = Len(r) + Len(t)
      /\ \A i \in 1..(Len(r) + Len(t)) : (r \o t)[i] = IF i <= Len(r) THEN r[i] ELSE t[i - Len(r)]
  BY <1>1, Joined
<1>4. \A i \in 1..(Len(s) + Len(t)) : (r \o t)[i] = IF i <= Len(s) THEN s[Len(s) - i + 1] ELSE t[i - Len(s)]
  BY <1>1, <1>2, <1>3
<1> QED
  BY <1>1, <1>3, <1>4 DEF r

Given(t, n, p) ==
  /\ buffer' \in Seq(Tok) /\ stream' \in Seq(Tok) /\ decoded' = Append(decoded, t)
  /\ UNCHANGED <<value, bailed>> /\ Ahead' \in Seq(Tok)
  /\ Len(Ahead') = Len(p) + (Len(Ahead) - n)
  /\ \A i \in 1..Len(p) : Ahead'[i] = p[Len(p) - i + 1]
  /\ \A i \in 1..(Len(Ahead) - n) : Ahead'[Len(p) + i] = Ahead[n + i]

LEMMA GiveAhead ==
  ASSUME buffer \in Seq(Tok), stream \in Seq(Tok), NEW t \in Tok, NEW n \in Nat, n <= Len(Ahead), NEW p \in Seq(Tok), Give(t, n, p)
  PROVE  Given(t, n, p)
<1> DEFINE L == Len(buffer)
           S == Len(stream)
           P == Len(p)
<1>1. L \in Nat /\ S \in Nat /\ P \in Nat
  OBVIOUS
<1>2. Len(Ahead) = L + S /\ \A i \in 1..(L + S) : Ahead[i] = IF i <= L THEN buffer[L - i + 1] ELSE stream[i - L]
  BY AheadAt DEF Ahead
<1>3. decoded' = Append(decoded, t) /\ UNCHANGED <<value, bailed>>
  BY DEF Give
<1>4. CASE n <= L
  <2> DEFINE q == SubSeq(buffer, 1, L - n)
  <2>1. buffer' = q \o p /\ stream' = stream
    BY <1>4 DEF Give
  <2>2. q \in Seq(Tok) /\ Len(q) = L - n /\ \A i \in 1..(L - n) : q[i] = buffer[i]
    BY <1>1, <1>4
  <2> HIDE DEF q
  <2>3. /\ q \o p \in Seq(Tok) /\ Len(q \o p) = Len(q) + P
        /\ \A i \in 1..(Len(q) + P) : (q \o p)[i] = IF i <= Len(q) THEN q[i] ELSE p[i - Len(q)]
    BY <2>2, Joined
  <2> DEFINE B == buffer'
             A == Ahead'
  <2>4. B \in Seq(Tok) /\ Len(B) = L - n + P /\ \A i \in 1..(L - n + P) : B[i] = IF i <= L - n THEN buffer[i] ELSE p[i - (L - n)]
    <3>1. \A i \in 1..(L - n + P) : ~(i <= L - n) => i - Len(q) = i - (L - n)
      BY <2>2
    <3>2. Len(q) + P = L - n + P /\ L - n \in Nat
      BY <1>1, <1>4, <2>2
    <3> HIDE DEF L, P
    <3>3. \A i \in 1..(L - n + P) : i <= L - n => i \in 1..(L - n)
      BY <1>1, <3>2
    <3>4. \A i \in 1..(L - n + P) : (q \o p)[i] = IF i <= L - n THEN buffer[i] ELSE p[i - (L - n)]
      BY <2>2, <2>3, <3>1, <3>2, <3>3
    <3> QED
      BY <2>1, <2>3, <3>2, <3>4
  <2>5. A = Reverse(B) \o stream
    BY <2>1 DEF Ahead
  <2> HIDE DEF B, A
  <2>6. A \in Seq(Tok) /\ Len(A) = Len(B) + S /\ \A i \in 1..(Len(B) + S) : A[i] = IF i <= Len(B) THEN B[Len(B) - i + 1] ELSE stream[i - Len(B)]
    BY <2>4, <2>5, AheadAt
  <2> HIDE DEF L, S, P
  <2>7. ASSUME NEW i \in 1..P PROVE A[i] = p[P - i + 1]
    <3> DEFINE k == Len(B) - i + 1
    <3>1. /\ i \in 1..(Len(B) + S) /\ i <= Len(B)
          /\ k \in 1..(L - n + P) /\ ~(k <= L - n) /\ k - (L - n) = P - i + 1
      BY <1>1, <1>4, <2>4
    <3>2. A[i] = B[k]
      BY <2>6, <3>1
    <3> HIDE DEF k
    <3>3. B[k] = p[k - (L - n)]
      BY <2>4, <3>1
    <3> QED
      BY <3>1, <3>2, <3>3
  <2>8. ASSUME NEW i \in 1..(Len(Ahead) - n) PROVE A[P + i] = Ahead[n + i]
    <3>1. n + i \in 1..(L + S) /\ P + i \in 1..(Len(B) + S)
      BY <1>1, <1>2, <1>4, <2>4
    <3>2. CASE n + i <= L
      <4>1. P + i <= Len(B) /\ Len(B) - (P + i) + 1 \in 1..(L - n) /\ Len(B) - (P + i) + 1 = L - (n + i) + 1
        BY <1>1, <1>4, <2>4, <3>2
      <4>2. A[P + i] = B[Len(B) - (P + i) + 1]
        BY <2>6, <3>1, <4>1
      <4>3. B[Len(B) - (P + i) + 1] = buffer[L - (n + i) + 1]
        <5> DEFINE k == L - (n + i) + 1
        <5>1. k \in 1..(L - n + P) /\ k <= L - n /\ Len(B) - (P + i) + 1 = k
          BY <1>1, <1>4, <4>1
        <5> HIDE DEF k
        <5>2. B[k] = buffer[k]
          BY <2>4, <5>1
        <5> QED
          BY <5>1, <5>2 DEF k
      <4> QED
        BY <1>2, <3>1, <3>2, <4>2, <4>3
    <3>3. CASE ~(n + i <= L)
      <4>1. ~(P + i <= Len(B)) /\ P + i - Len(B) = n + i - L
        BY <1>1, <1>4, <2>4, <3>3
      <4> DEFINE k == P + i
      <4>3. k \in 1..(Len(B) + S) /\ ~(k <= Len(B)) /\ k - Len(B) = n + i - L
        BY <1>1, <2>4, <3>1, <4>1
      <4> HIDE DEF k
      <4>2. A[k] = stream[n + i - L]
        BY <2>6, <4>3
      <4> QED
        BY <1>1, <1>2, <3>1, <3>3, <4>2 DEF k
    <3> QED
      BY <3>2, <3>3
  <2>9. Len(A) = P + (Len(Ahead) - n)
    BY <1>1, <1>2, <1>4, <2>4, <2>6
  <2>10. buffer' \in Seq(Tok) /\ stream' \in Seq(Tok)
    BY <2>1, <2>4 DEF B
  <2> QED
    BY <1>3, <2>6, <2>7, <2>8, <2>9, <2>10 DEF A, P, Given
<1>5. CASE ~(n <= L)
  <2> DEFINE q == SubSeq(stream, n - L + 1, S)
  <2>1. buffer' = p /\ stream' = q
    BY <1>5 DEF Give
  <2>2. n - L \in 1..S /\ n <= L + S
    BY <1>1, <1>2, <1>5
  <2>3. q \in Seq(Tok) /\ Len(q) = S - (n - L) /\ \A i \in 1..(S - (n - L)) : q[i] = stream[(n - L) + i]
    <3>1. n - L + 1 \in Int /\ S \in Int /\ \A i \in (n - L + 1)..S : stream[i] \in Tok
      BY <1>1, <2>2
    <3>2. /\ q \in Seq(Tok) /\ Len(q) = IF n - L + 1 <= S THEN S - (n - L + 1) + 1 ELSE 0
          /\ \A i \in 1..(S - (n - L + 1) + 1) : q[i] = stream[(n - L + 1) + i - 1]
      <4> DEFINE a == n - L + 1
      <4> HIDE DEF S, a
      <4>1. a \in Int /\ S \in Int /\ (\A i \in a..S : stream[i] \in Tok) /\ q = SubSeq(stream, a, S)
        BY <3>1 DEF a
      <4> QED
        BY <4>1, SubSeqProperties DEF a
    <3> HIDE DEF q, S, L
    <3> QED
      BY <1>1, <2>2, <3>2
  <2> DEFINE A == Ahead'
  <2>4. A = Reverse(p) \o q
    BY <2>1 DEF Ahead
  <2> HIDE DEF A, q
  <2>5. A \in Seq(Tok) /\ Len(A) = P + Len(q) /\ \A i \in 1..(P + Len(q)) : A[i] = IF i <= P THEN p[P - i + 1] ELSE q[i - P]
    BY <2>3, <2>4, AheadAt
  <2> HIDE DEF L, S, P
  <2>6. Len(A) = P + (Len(Ahead) - n)
    <3>1. Len(A) = P + Len(q)
      BY <2>5
    <3>2. Len(q) = S - (n - L)
      BY <2>3
    <3>3. Len(Ahead) = L + S
      BY <1>2
    <3> QED
      BY <1>1, <3>1, <3>2, <3>3
  <2>7. \A i \in 1..P : A[i] = p[P - i + 1]
    <3>1. \A i \in 1..P : i <= P /\ i \in 1..(P + Len(q))
      BY <1>1, <2>2, <2>3
    <3> QED
      BY <2>5, <3>1
  <2>8. ASSUME NEW i \in 1..(Len(Ahead) - n) PROVE A[P + i] = Ahead[n + i]
    <3>1. n + i \in 1..(L + S) /\ ~(n + i <= L) /\ i \in 1..(S - (n - L)) /\ P + i \in 1..(P + Len(q)) /\ ~(P + i <= P) /\ P + i - P = i
      BY <1>1, <1>2, <2>2, <2>3
    <3> DEFINE k == P + i
               j == n + i
    <3>2. k \in 1..(P + Len(q)) /\ ~(k <= P) /\ k - P = i /\ j \in 1..(L + S) /\ ~(j <= L) /\ (n - L) + i = j - L
      BY <1>1, <3>1
    <3> HIDE DEF k, j
    <3>3. A[k] = q[i]
      BY <2>5, <3>2
    <3>4. q[i] = stream[j - L]
      BY <2>3, <3>1, <3>2
    <3>5. Ahead[j] = stream[j - L]
      BY <1>2, <3>2
    <3> QED
      BY <3>3, <3>4, <3>5 DEF k, j
  <2>9. buffer' \in Seq(Tok) /\ stream' \in Seq(Tok)
    BY <2>1, <2>3
  <2> QED
    BY <1>3, <2>5, <2>6, <2>7, <2>8, <2>9 DEF A, P, Given
<1> QED
  BY <1>4, <1>5

\* After its first n tokens, a goes on as s.
After(a, n, s) == s \in Seq(Tok) /\ Len(a) = n + Len(s) /\ \A i \in 1..Len(s) : a[n + i] = s[i]

LEMMA AfterOne ==
  ASSUME NEW a, NEW n \in Nat, NEW x \in Tok, NEW s \in Seq(Tok), After(a, n, <<x>> \o s)
  PROVE  a[n + 1] = x /\ n + 1 <= Len(a) /\ After(a, n + 1, s)
<1> DEFINE t == <<x>> \o s
<1>1. Len(t) = Len(s) + 1 /\ t[1] = x /\ (\A i \in 1..Len(s) : t[i + 1] = s[i]) /\ Len(s) \in Nat
  BY OneBefore
<1>2. Len(a) = n + Len(t) /\ \A i \in 1..Len(t) : a[n + i] = t[i]
  BY DEF After
<1> HIDE DEF t
<1>3. a[n + 1] = x /\ Len(a) = (n + 1) + Len(s)
  BY <1>1, <1>2
<1>4. ASSUME NEW i \in 1..Len(s) PROVE a[(n + 1) + i] = s[i]
  <2>1. i + 1 \in 1..Len(t) /\ n + (i + 1) = (n + 1) + i
    BY <1>1
  <2> QED
    BY <1>1, <1>2, <2>1
<1> QED
  BY <1>1, <1>3, <1>4 DEF After

\* What is read of a node, and what comes after its first token.
LEMMA AfterNode ==
  ASSUME NodesOK, NEW v \in JsonNodes, NEW b \in Seq(Tok), NEW a, NEW n \in Nat, After(a, n, Tokens[v] \o b)
  PROVE  /\ a[n + 1] = First(v) /\ n + 1 <= Len(a)
         /\ Map(v) => After(a, n + 1, Tokens[v[2]] \o b)
         /\ Field(v) => After(a, n + 1, Tokens[v[3]] \o (Tokens[v[4]] \o b))
         /\ Scalar(v) \/ v = <<"end">> => After(a, n + 1, b)
<1>1. First(v) \in Tok
  BY BeginsWith
<1>2. \A s, t, u \in Seq(Tok) : (s \o t) \o u = s \o (t \o u)
  BY Assoc
<1>3. <<First(v)>> \in Seq(Tok)
  BY <1>1
<1>4. CASE Map(v)
  <2>1. v[2] \in JsonNodes /\ First(v) = "map"
    BY <1>4, NodeIs, BegunBy DEF Map
  <2>2. Tokens[v[2]] \in Seq(Tok) /\ Tokens[v[2]] \o b \in Seq(Tok) /\ Tokens[v] = <<First(v)>> \o Tokens[v[2]]
    BY <1>4, <2>1, Typed, TokensIs, BeginsWith
  <2>3. Tokens[v] \o b = <<First(v)>> \o (Tokens[v[2]] \o b)
    <3> DEFINE h == <<First(v)>>
               t == Tokens[v[2]]
    <3>1. h \in Seq(Tok) /\ t \in Seq(Tok) /\ Tokens[v] = h \o t
      BY <1>3, <2>2
    <3> HIDE DEF h, t
    <3>2. Tokens[v] \o b = h \o (t \o b)
      BY <1>2, <3>1
    <3> QED
      BY <3>2 DEF h, t
  <2> DEFINE s == Tokens[v[2]] \o b
  <2>4. s \in Seq(Tok) /\ After(a, n, <<First(v)>> \o s)
    BY <2>2, <2>3
  <2> HIDE DEF s
  <2>5. a[n + 1] = First(v) /\ n + 1 <= Len(a) /\ After(a, n + 1, s)
    BY <1>1, <2>4, AfterOne
  <2>6. ~Field(v) /\ ~Scalar(v) /\ v # <<"end">>
    BY <1>4 DEF Map, Field, Scalar
  <2> QED
    BY <2>5, <2>6 DEF s
<1>5. CASE Field(v)
  <2>1. v[3] \in JsonNodes /\ v[4] \in JsonNodes /\ First(v) = v[2]
    BY <1>5, NodeIs DEF Field, First
  <2>2. /\ Tokens[v[3]] \in Seq(Tok) /\ Tokens[v[4]] \in Seq(Tok) /\ Tokens[v[4]] \o b \in Seq(Tok)
        /\ Tokens[v] = <<First(v)>> \o (Tokens[v[3]] \o Tokens[v[4]])
    BY <1>5, <2>1, Typed, TokensOfField, BeginsWith
  <2>3. Tokens[v[3]] \o Tokens[v[4]] \in Seq(Tok) /\ Tokens[v[3]] \o (Tokens[v[4]] \o b) \in Seq(Tok)
    BY <2>2, Joined
  <2>4. Tokens[v] \o b = <<First(v)>> \o ((Tokens[v[3]] \o Tokens[v[4]]) \o b)
    <3> DEFINE h == <<First(v)>>
               t == Tokens[v[3]] \o Tokens[v[4]]
    <3>1. h \in Seq(Tok) /\ t \in Seq(Tok) /\ Tokens[v] = h \o t
      BY <1>3, <2>2, <2>3
    <3> HIDE DEF h, t
    <3>2. Tokens[v] \o b = h \o (t \o b)
      BY <1>2, <3>1
    <3> QED
      BY <3>2 DEF h, t
  <2>5. (Tokens[v[3]] \o Tokens[v[4]]) \o b = Tokens[v[3]] \o (Tokens[v[4]] \o b)
    BY <1>2, <2>2
  <2> DEFINE s == Tokens[v[3]] \o (Tokens[v[4]] \o b)
  <2>6. s \in Seq(Tok) /\ After(a, n, <<First(v)>> \o s)
    BY <2>3, <2>4, <2>5
  <2> HIDE DEF s
  <2>7. a[n + 1] = First(v) /\ n + 1 <= Len(a) /\ After(a, n + 1, s)
    BY <1>1, <2>6, AfterOne
  <2>8. ~Map(v) /\ ~Scalar(v) /\ v # <<"end">>
    BY <1>5 DEF Map, Field, Scalar
  <2> QED
    BY <2>7, <2>8 DEF s
<1>6. CASE Scalar(v) \/ v = <<"end">>
  <2>1. Tokens[v] = <<First(v)>>
    <3>1. CASE v = <<"end">>
      BY <3>1, TokensIs DEF First, Field
    <3>2. CASE Scalar(v)
      <4>1. v = <<"str">> \/ v = <<"num">>
        BY <3>2, NodeIs DEF Scalar
      <4>2. Tokens[v] = v
        BY <3>2, TokensIs
      <4>3. v = <<First(v)>>
        BY <4>1 DEF First, Field
      <4> QED
        BY <4>2, <4>3
    <3> QED
      BY <1>6, <3>1, <3>2
  <2>2. a[n + 1] = First(v) /\ n + 1 <= Len(a) /\ After(a, n + 1, b)
    BY <1>1, <2>1, AfterOne
  <2>3. ~Map(v) /\ ~Field(v)
    BY <1>6 DEF Map, Field, Scalar
  <2> QED
    BY <2>2, <2>3
<1> QED
  BY <1>4, <1>5, <1>6, NodeIs DEF Scalar, Map, Field

\* The same of a node that is one token.
Leaf(a, n, v, b) == a[n + 1] = First(v) /\ n + 1 <= Len(a) /\ (v = <<"str">> \/ v = <<"end">> => After(a, n + 1, b))

LEMMA AfterLeaf ==
  ASSUME NodesOK, NEW v \in JsonNodes, NEW b \in Seq(Tok), NEW a, NEW n \in Nat, After(a, n, Tokens[v] \o b)
  PROVE  Leaf(a, n, v, b)
<1>1. a[n + 1] = First(v) /\ n + 1 <= Len(a) /\ (Scalar(v) \/ v = <<"end">> => After(a, n + 1, b))
  BY AfterNode
<1>2. v = <<"str">> => Scalar(v)
  BY DEF Scalar
<1> QED
  BY <1>1, <1>2 DEF Leaf

LEMMA AfterIs ==
  ASSUME NEW a, NEW n \in Nat, NEW b, After(a, n, b)
  PROVE  b \in Seq(Tok) /\ Len(b) \in Nat /\ Len(a) = n + Len(b) /\ \A i \in 1..Len(b) : a[n + i] = b[i]
<1>1. b \in Seq(Tok)
  BY DEF After
<1>2. Len(b) \in Nat
  BY <1>1
<1> QED
  BY <1>1, <1>2 DEF After

\* The three ways in which next takes and pushes tokens.
LEMMA GiveNothing ==
  ASSUME buffer \in Seq(Tok), stream \in Seq(Tok), NEW t \in Tok, NEW n \in Nat, NEW b, After(Ahead, n, b), Give(t, n, <<>>)
  PROVE  /\ buffer' \in Seq(Tok) /\ stream' \in Seq(Tok) /\ decoded' = Append(decoded, t) /\ UNCHANGED <<value, bailed>>
         /\ Ahead' = b
<1> DEFINE p == <<>>
<1>1. b \in Seq(Tok) /\ Len(b) \in Nat /\ Len(Ahead) = n + Len(b) /\ \A i \in 1..Len(b) : Ahead[n + i] = b[i]
  BY AfterIs
<1>2. p \in Seq(Tok) /\ Len(p) = 0 /\ n <= Len(Ahead) /\ Len(Ahead) - n = Len(b) /\ Give(t, n, p)
  BY <1>1
<1> HIDE DEF p
<1>3. /\ buffer' \in Seq(Tok) /\ stream' \in Seq(Tok) /\ decoded' = Append(decoded, t) /\ UNCHANGED <<value, bailed>>
      /\ Ahead' \in Seq(Tok) /\ Len(Ahead') = Len(p) + (Len(Ahead) - n)
      /\ \A i \in 1..(Len(Ahead) - n) : Ahead'[Len(p) + i] = Ahead[n + i]
  <2>1. Given(t, n, p)
    BY <1>2, GiveAhead
  <2> QED
    BY <2>1 DEF Given
<1>4. Len(Ahead') = Len(b) /\ \A i \in 1..Len(Ahead') : Ahead'[i] = b[i]
  BY <1>1, <1>2, <1>3
<1>5. Ahead' = b
  BY <1>1, <1>3, <1>4, SeqEqual
<1> QED
  BY <1>3, <1>5

LEMMA GiveOne ==
  ASSUME buffer \in Seq(Tok), stream \in Seq(Tok), NEW t \in Tok, NEW n \in Nat, NEW x \in Tok, NEW b, After(Ahead, n, b), Give(t, n, <<x>>)
  PROVE  /\ buffer' \in Seq(Tok) /\ stream' \in Seq(Tok) /\ decoded' = Append(decoded, t) /\ UNCHANGED <<value, bailed>>
         /\ Ahead' = <<x>> \o b
<1>1. b \in Seq(Tok) /\ Len(b) \in Nat /\ Len(Ahead) = n + Len(b) /\ \A i \in 1..Len(b) : Ahead[n + i] = b[i]
  BY AfterIs
<1> DEFINE p == <<x>>
           s == <<x>> \o b
<1>2. p \in Seq(Tok) /\ Len(p) = 1 /\ p[1] = x /\ n <= Len(Ahead) /\ Len(Ahead) - n = Len(b) /\ Give(t, n, p)
  BY <1>1
<1>6. s \in Seq(Tok) /\ Len(s) = Len(b) + 1 /\ s[1] = x /\ \A i \in 1..Len(b) : s[i + 1] = b[i]
  BY <1>1, OneBefore
<1> HIDE DEF p, s
<1>3. /\ buffer' \in Seq(Tok) /\ stream' \in Seq(Tok) /\ decoded' = Append(decoded, t) /\ UNCHANGED <<value, bailed>>
      /\ Ahead' \in Seq(Tok) /\ Len(Ahead') = Len(p) + (Len(Ahead) - n)
      /\ \A i \in 1..Len(p) : Ahead'[i] = p[Len(p) - i + 1]
      /\ \A i \in 1..(Len(Ahead) - n) : Ahead'[Len(p) + i] = Ahead[n + i]
  <2>1. Given(t, n, p)
    BY <1>2, GiveAhead
  <2> QED
    BY <2>1 DEF Given
<1>4. Len(Ahead') = Len(s) /\ Ahead'[1] = x /\ \A i \in 1..Len(b) : Ahead'[1 + i] = b[i]
  <2>1. Len(Ahead') = Len(s)
    BY <1>1, <1>2, <1>3, <1>6
  <2>2. 1 \in 1..Len(p) /\ Len(p) - 1 + 1 = 1
    BY <1>2
  <2>3. Ahead'[1] = x
    BY <1>2, <1>3, <2>2
  <2> QED
    BY <1>1, <1>2, <1>3, <2>1, <2>3
<1>7. ASSUME NEW i \in 1..Len(s) PROVE Ahead'[i] = s[i]
  <2>1. CASE i = 1
    BY <1>4, <1>6, <2>1
  <2>2. CASE i # 1
    <3>1. i - 1 \in 1..Len(b) /\ 1 + (i - 1) = i /\ (i - 1) + 1 = i
      BY <1>1, <1>6, <2>2
    <3>2. Ahead'[1 + (i - 1)] = b[i - 1] /\ s[(i - 1) + 1] = b[i - 1]
      BY <1>4, <1>6, <3>1
    <3> QED
      BY <3>1, <3>2
  <2> QED
    BY <2>1, <2>2
<1>5. Ahead' = s
  BY <1>3, <1>4, <1>6, <1>7, SeqEqual
<1> QED
  BY <1>3, <1>5 DEF s

LEMMA GiveBack ==
  ASSUME buffer \in Seq(Tok), stream \in Seq(Tok), NEW t \in Tok, NEW n \in Nat \ {0}, NEW p \in Seq(Tok), NEW b,
         n <= Len(Ahead), Len(p) = n - 1, After(Ahead, 1, b), Give(t, n, p),
         \A i \in 1..(n - 1) : p[n - i] = Ahead[i + 1]
  PROVE  /\ buffer' \in Seq(Tok) /\ stream' \in Seq(Tok) /\ decoded' = Append(decoded, t) /\ UNCHANGED <<value, bailed>>
         /\ Ahead' = b
<1>1. b \in Seq(Tok) /\ Len(b) \in Nat /\ Len(Ahead) = 1 + Len(b) /\ \A i \in 1..Len(b) : Ahead[1 + i] = b[i]
  BY AfterIs
<1>3. /\ buffer' \in Seq(Tok) /\ stream' \in Seq(Tok) /\ decoded' = Append(decoded, t) /\ UNCHANGED <<value, bailed>>
      /\ Ahead' \in Seq(Tok) /\ Len(Ahead') = Len(p) + (Len(Ahead) - n)
      /\ \A i \in 1..Len(p) : Ahead'[i] = p[Len(p) - i + 1]
      /\ \A i \in 1..(Len(Ahead) - n) : Ahead'[Len(p) + i] = Ahead[n + i]
  <2>1. n \in Nat
    OBVIOUS
  <2>2. Given(t, n, p)
    BY <2>1, GiveAhead
  <2> QED
    BY <2>2 DEF Given
<1>4. Len(Ahead') = Len(b)
  BY <1>1, <1>3
<1>7. ASSUME NEW i \in 1..Len(b) PROVE Ahead'[i] = b[i]
  <2>1. CASE i <= n - 1
    <3>1. i \in 1..(n - 1) /\ i \in 1..Len(p) /\ Len(p) - i + 1 = n - i /\ i + 1 = 1 + i
      BY <2>1
    <3> QED
      BY <1>1, <1>3, <3>1
  <2>2. CASE ~(i <= n - 1)
    <3> DEFINE j == i - (n - 1)
    <3>1. j \in 1..(Len(Ahead) - n) /\ Len(p) + j = i /\ n + j = 1 + i
      BY <1>1, <2>2
    <3> HIDE DEF j
    <3>2. Ahead'[Len(p) + j] = Ahead[n + j]
      BY <1>3, <3>1
    <3> QED
      BY <1>1, <3>1, <3>2
  <2> QED
    BY <2>1, <2>2
<1>5. Ahead' = b
  BY <1>1, <1>3, <1>4, <1>7, SeqEqual
<1> QED
  BY <1>3, <1>5

-----------------------------------------------------------------------------
\* What next looks at when a map is ahead: its first field, the fields of the map that is its value, and so on.
LEMMA LookMap ==
  ASSUME NodesOK, NEW v \in JsonNodes, NEW b \in Seq(Tok), NEW a, After(a, 0, Tokens[v] \o b), Map(v)
  PROVE  /\ v[2] \in JsonNodes /\ v[2] \in Fields /\ a[1] = "map"
         /\ After(a, 1, Tokens[v[2]] \o b) /\ a[2] = First(v[2]) /\ a[2] \in Tok /\ 2 <= Len(a)
<1>1. v[2] \in JsonNodes /\ v[2] \in Fields /\ First(v) = "map"
  BY NodeIs, BegunBy DEF Map
<1>4. PICK n \in Nat : n = 0
  OBVIOUS
<1>5. a[n + 1] = First(v) /\ After(a, n + 1, Tokens[v[2]] \o b)
  <2>1. n \in Nat /\ After(a, n, Tokens[v] \o b)
    BY <1>4
  <2> QED
    BY <2>1, AfterNode
<1>6. PICK k \in Nat : k = 1
  OBVIOUS
<1>7. n + 1 = k /\ k + 1 = 2
  BY <1>4, <1>6
<1>8. After(a, k, Tokens[v[2]] \o b)
  BY <1>5, <1>7
<1>9. a[k + 1] = First(v[2]) /\ k + 1 <= Len(a)
  <2>1. k \in Nat
    BY <1>6
  <2>2. ASSUME NEW w \in JsonNodes, After(a, k, Tokens[w] \o b) PROVE a[k + 1] = First(w) /\ k + 1 <= Len(a)
    BY <2>1, <2>2, AfterNode
  <2> QED
    BY <1>1, <1>8, <2>2
<1>10. First(v[2]) \in Tok
  BY <1>1, BeginsWith
<1> QED
  BY <1>1, <1>5, <1>6, <1>7, <1>8, <1>9, <1>10

LEMMA LookField ==
  ASSUME NodesOK, NEW w \in JsonNodes, NEW b \in Seq(Tok), NEW a, NEW n \in Nat, After(a, n, Tokens[w] \o b), Field(w)
  PROVE  /\ w[3] \in JsonNodes /\ w[3] \in Values /\ w[4] \in JsonNodes /\ w[4] \in Fields /\ First(w) = w[2]
         /\ Tokens[w[4]] \o b \in Seq(Tok)
         /\ After(a, n + 1, Tokens[w[3]] \o (Tokens[w[4]] \o b))
         /\ a[n + 2] = First(w[3]) /\ a[n + 2] \in Tok /\ n + 2 <= Len(a)
         /\ w[3] = <<"str">> => a[n + 3] = First(w[4]) /\ n + 3 <= Len(a) /\ After(a, n + 2, Tokens[w[4]] \o b)
         /\ w[3] = <<"str">> /\ w[4] = <<"end">> => After(a, n + 3, b)
<1>1. w[3] \in JsonNodes /\ w[3] \in Values /\ w[4] \in JsonNodes /\ w[4] \in Fields /\ First(w) = w[2]
  BY NodeIs DEF Field, First
<1>2. Tokens[w[4]] \o b \in Seq(Tok) /\ First(w[3]) \in Tok
  BY <1>1, BeginsWith
<1>3. After(a, n + 1, Tokens[w[3]] \o (Tokens[w[4]] \o b))
  BY AfterNode
<1> DEFINE s == Tokens[w[4]] \o b
<1>4. n + 1 \in Nat /\ (n + 1) + 1 = n + 2 /\ n + 2 \in Nat /\ (n + 2) + 1 = n + 3
  OBVIOUS
<1>5. /\ a[n + 2] = First(w[3]) /\ n + 2 <= Len(a)
      /\ w[3] = <<"str">> => After(a, n + 2, s)
  <2>1. s \in Seq(Tok) /\ After(a, n + 1, Tokens[w[3]] \o s)
    BY <1>2, <1>3
  <2> DEFINE x == w[3]
  <2>2. PICK k \in Nat : k = n + 1
    OBVIOUS
  <2>3. x \in JsonNodes /\ After(a, k, Tokens[x] \o s)
    BY <1>1, <2>1, <2>2
  <2> HIDE DEF s, x
  <2>4. Leaf(a, k, x, s)
    BY <2>1, <2>3, AfterLeaf
  <2> QED
    BY <1>4, <2>2, <2>4 DEF x, Leaf
<1>6. /\ w[3] = <<"str">> => a[n + 3] = First(w[4]) /\ n + 3 <= Len(a)
      /\ w[3] = <<"str">> /\ w[4] = <<"end">> => After(a, n + 3, b)
  <2> SUFFICES ASSUME w[3] = <<"str">>
               PROVE  a[n + 3] = First(w[4]) /\ n + 3 <= Len(a) /\ (w[4] = <<"end">> => After(a, n + 3, b))
    OBVIOUS
  <2>1. PICK k \in Nat : k = n + 2
    OBVIOUS
  <2>2. After(a, k, Tokens[w[4]] \o b) /\ k + 1 = n + 3
    BY <1>5, <2>1
  <2> DEFINE u == w[4]
  <2>3. u \in JsonNodes /\ After(a, k, Tokens[u] \o b)
    BY <1>1, <2>2
  <2> HIDE DEF u
  <2>4. a[k + 1] = First(u) /\ k + 1 <= Len(a) /\ (u = <<"end">> => After(a, k + 1, b))
    <3>1. k \in Nat
      BY <2>1
    <3>2. a[k + 1] = First(u) /\ k + 1 <= Len(a)
      BY <2>3, <3>1, AfterNode
    <3>3. u = <<"end">> => After(a, k + 1, b)
      BY <2>3, <3>1, AfterNode
    <3> QED
      BY <3>2, <3>3
  <2> QED
    BY <2>2, <2>4 DEF u
<1> QED
  BY <1>1, <1>2, <1>3, <1>5, <1>6

LEMMA LookInner ==
  ASSUME NodesOK, NEW u \in JsonNodes, NEW b \in Seq(Tok), NEW a, NEW n \in Nat, After(a, n, Tokens[u] \o b), Map(u)
  PROVE  /\ u[2] \in JsonNodes /\ u[2] \in Fields /\ After(a, n + 1, Tokens[u[2]] \o b)
         /\ a[n + 2] = First(u[2]) /\ a[n + 2] \in Tok /\ n + 2 <= Len(a)
<1>1. u[2] \in JsonNodes /\ u[2] \in Fields
  BY NodeIs DEF Map
<1>2. After(a, n + 1, Tokens[u[2]] \o b) /\ n + 1 \in Nat /\ (n + 1) + 1 = n + 2
  BY AfterNode
<1>3. PICK k \in Nat : k = n + 1
  OBVIOUS
<1>4. a[k + 1] = First(u[2]) /\ k + 1 <= Len(a)
  BY <1>1, <1>2, <1>3, AfterNode
<1>5. First(u[2]) \in Tok
  BY <1>1, BeginsWith
<1> QED
  BY <1>1, <1>2, <1>3, <1>4, <1>5
-----------------------------------------------------------------------------
\* A step gives the decoder the first token of what is meant, or it throws at an error.
Moves(m) ==
  \E t \in Tok, c \in Seq(Tok) :
    /\ buffer' \in Seq(Tok) /\ stream' \in Seq(Tok) /\ decoded' = Append(decoded, t) /\ UNCHANGED <<value, bailed>>
    /\ Reads(Ahead', c) /\ m = <<t>> \o c

Fails(m) == Throw /\ \E c \in Seq(Tok) : m = <<"error">> \o c

LEMMA Shift == \A x \in Tok : \A s, c \in Seq(Tok) : (<<x>> \o s) \o c = <<x>> \o (s \o c)
<1> SUFFICES ASSUME NEW x \in Tok, NEW s \in Seq(Tok), NEW c \in Seq(Tok) PROVE (<<x>> \o s) \o c = <<x>> \o (s \o c)
  OBVIOUS
<1> DEFINE h == <<x>>
<1>1. h \in Seq(Tok)
  OBVIOUS
<1> HIDE DEF h
<1>2. (h \o s) \o c = h \o (s \o c)
  BY <1>1, ConcatAssociative
<1> QED
  BY <1>2 DEF h

\* What is ahead begins with the node v.
Beginning(v, b, c, m) ==
  /\ buffer \in Seq(Tok) /\ stream \in Seq(Tok)
  /\ b \in Seq(Tok) /\ c \in Seq(Tok) /\ Reads(b, c)
  /\ Ahead = Tokens[v] \o b /\ m = Meaning[v] \o c

LEMMA PlainMoves ==
  ASSUME NodesOK, NEW v \in JsonNodes, NEW b, NEW c, NEW m, Beginning(v, b, c, m), Plain(Ahead)
  PROVE  Moves(m)
<1>1. /\ buffer \in Seq(Tok) /\ stream \in Seq(Tok) /\ b \in Seq(Tok) /\ c \in Seq(Tok) /\ Reads(b, c)
      /\ Ahead = Tokens[v] \o b /\ m = Meaning[v] \o c
  BY DEF Beginning
<1>2. Ahead \in Seq(Tok) /\ First(v) \in Tok
  BY <1>1, BeginsWith
<1>3. After(Ahead, 0, Tokens[v] \o b)
  BY <1>1, <1>2 DEF After
<1>4. /\ Ahead[1] = First(v)
      /\ Field(v) => After(Ahead, 1, Tokens[v[3]] \o (Tokens[v[4]] \o b))
      /\ Scalar(v) \/ v = <<"end">> => After(Ahead, 1, b)
  <2>1. PICK n \in Nat : n = 0
    OBVIOUS
  <2>2. n + 1 = 1 /\ After(Ahead, n, Tokens[v] \o b)
    BY <1>3, <2>1
  <2>3. /\ Ahead[n + 1] = First(v)
        /\ Field(v) => After(Ahead, n + 1, Tokens[v[3]] \o (Tokens[v[4]] \o b))
        /\ Scalar(v) \/ v = <<"end">> => After(Ahead, n + 1, b)
    <3>1. b \in Seq(Tok)
      BY <1>1
    <3> QED
      BY <2>1, <2>2, <3>1, AfterNode
  <2> QED
    BY <2>2, <2>3
<1>5. ~Map(v) /\ Give(First(v), 1, <<>>)
  BY <1>4, BegunBy DEF Plain
<1>6. CASE Field(v)
  <2> DEFINE a == Tokens[v[3]] \o (Tokens[v[4]] \o b)
             n == Meaning[v[3]] \o (Meaning[v[4]] \o c)
  <2>1. v[3] \in JsonNodes /\ v[4] \in JsonNodes /\ First(v) = v[2]
    BY <1>6, NodeIs DEF Field, First
  <2>2. Reads(Tokens[v[4]] \o b, Meaning[v[4]] \o c)
    BY <1>1, <2>1, ReadsOneMore
  <2>3. Reads(a, n)
    BY <2>1, <2>2, ReadsOneMore
  <2>4. n \in Seq(Tok)
    BY <2>3 DEF Reads, Pairs
  <2>5. m = <<First(v)>> \o n
    <3>1. Meaning[v] = <<First(v)>> \o (Meaning[v[3]] \o Meaning[v[4]])
      BY <1>6, <2>1, TokensOfField
    <3>2. Meaning[v[3]] \in Seq(Tok) /\ Meaning[v[4]] \in Seq(Tok)
      BY <2>1, Typed
    <3>3. Meaning[v[3]] \o Meaning[v[4]] \in Seq(Tok)
      BY <3>2, Joined
    <3> DEFINE s == Meaning[v[3]]
               t == Meaning[v[4]]
    <3>4. m = <<First(v)>> \o ((s \o t) \o c)
      <4> DEFINE p == s \o t
      <4>1. p \in Seq(Tok) /\ m = (<<First(v)>> \o p) \o c
        BY <1>1, <3>1, <3>3
      <4> HIDE DEF p
      <4>2. m = <<First(v)>> \o (p \o c)
        BY <1>1, <1>2, <4>1, Shift
      <4> QED
        BY <4>2 DEF p
    <3>5. (s \o t) \o c = n
      <4>1. s \in Seq(Tok) /\ t \in Seq(Tok) /\ c \in Seq(Tok) /\ n = s \o (t \o c)
        BY <1>1, <3>2
      <4> HIDE DEF s, t, n
      <4> QED
        BY <4>1, Assoc
    <3> QED
      BY <3>4, <3>5
  <2>6. After(Ahead, 1, a)
    BY <1>4, <1>6
  <2> HIDE DEF a, n
  <2>7. /\ buffer' \in Seq(Tok) /\ stream' \in Seq(Tok) /\ decoded' = Append(decoded, First(v)) /\ UNCHANGED <<value, bailed>>
        /\ Ahead' = a
    BY <1>1, <1>2, <1>5, <2>6, GiveNothing
  <2> QED
    BY <1>2, <2>3, <2>4, <2>5, <2>7 DEF Moves
<1>7. CASE Scalar(v) \/ v = <<"end">>
  <2>1. Meaning[v] = <<First(v)>>
    <3>1. CASE v = <<"end">>
      BY <3>1, MeaningIs DEF First, Field
    <3>2. CASE Scalar(v)
      <4>1. v = <<"str">> \/ v = <<"num">>
        BY <3>2, NodeIs DEF Scalar
      <4>2. Meaning[v] = v
        BY <3>2, MeaningIs
      <4>3. v = <<First(v)>>
        BY <4>1 DEF First, Field
      <4> QED
        BY <4>2, <4>3
    <3> QED
      BY <1>7, <3>1, <3>2
  <2>2. After(Ahead, 1, b)
    BY <1>4, <1>7
  <2>3. /\ buffer' \in Seq(Tok) /\ stream' \in Seq(Tok) /\ decoded' = Append(decoded, First(v)) /\ UNCHANGED <<value, bailed>>
        /\ Ahead' = b
    BY <1>1, <1>2, <1>5, <2>2, GiveNothing
  <2>4. Reads(Ahead', c) /\ m = <<First(v)>> \o c
    BY <1>1, <2>1, <2>3
  <2> QED
    BY <1>1, <1>2, <2>3, <2>4 DEF Moves
<1> QED
  BY <1>5, <1>6, <1>7, NodeIs DEF Scalar, Map, Field

LEMMA MapBegins ==
  ASSUME NodesOK, NEW v \in JsonNodes, NEW b, NEW c, NEW m, Beginning(v, b, c, m), Ahead[1] = "map"
  PROVE  /\ Map(v) /\ After(Ahead, 0, Tokens[v] \o b)
         /\ buffer \in Seq(Tok) /\ stream \in Seq(Tok) /\ b \in Seq(Tok) /\ c \in Seq(Tok) /\ Reads(b, c) /\ m = Meaning[v] \o c
<1>1. /\ buffer \in Seq(Tok) /\ stream \in Seq(Tok) /\ b \in Seq(Tok) /\ c \in Seq(Tok) /\ Reads(b, c)
      /\ Ahead = Tokens[v] \o b /\ m = Meaning[v] \o c
  BY DEF Beginning
<1>2. Ahead \in Seq(Tok) /\ Ahead[1] = First(v)
  BY <1>1, BeginsWith
<1>3. After(Ahead, 0, Tokens[v] \o b)
  BY <1>1, <1>2 DEF After
<1>4. Map(v)
  BY <1>2, BegunBy
<1> QED
  BY <1>1, <1>3, <1>4

\* "/" begins a field.
LEMMA FieldBegins ==
  ASSUME NodesOK, NEW w \in JsonNodes, w \in Fields, First(w) # "break"
  PROVE  Field(w) /\ w[2] = First(w)
BY BegunBy

LEMMA LinkMoves ==
  ASSUME NodesOK, NEW v \in JsonNodes, NEW b, NEW c, NEW m, Beginning(v, b, c, m), Link(Ahead)
  PROVE  Moves(m) \/ Fails(m)
<1> DEFINE w == v[2]
<1>1. Ahead[1] = "map" /\ Ahead[2] = "/" /\ IsString(Ahead[3])
      /\ IF Ahead[4] = "break" THEN Give("link", 4, <<Ahead[3]>>) ELSE Throw
  BY DEF Link
<1>2. /\ Map(v) /\ After(Ahead, 0, Tokens[v] \o b)
      /\ buffer \in Seq(Tok) /\ stream \in Seq(Tok) /\ b \in Seq(Tok) /\ c \in Seq(Tok) /\ Reads(b, c) /\ m = Meaning[v] \o c
  BY <1>1, MapBegins
<1>3. w \in JsonNodes /\ w \in Fields /\ After(Ahead, 1, Tokens[w] \o b) /\ Ahead[2] = First(w)
  BY <1>2, LookMap
<1> HIDE DEF w
<1>4. Field(w) /\ w[2] = "/"
  BY <1>1, <1>3, FieldBegins
<1>5. /\ w[3] \in JsonNodes /\ w[3] \in Values /\ w[4] \in JsonNodes /\ w[4] \in Fields /\ Ahead[3] = First(w[3])
      /\ w[3] = <<"str">> => Ahead[4] = First(w[4])
      /\ w[3] = <<"str">> /\ w[4] = <<"end">> => After(Ahead, 4, b)
  <2>1. PICK n \in Nat : n = 1
    OBVIOUS
  <2>2. n + 2 = 3 /\ n + 3 = 4 /\ After(Ahead, n, Tokens[w] \o b) /\ b \in Seq(Tok)
    BY <1>2, <1>3, <2>1
  <2>3. /\ w[3] \in JsonNodes /\ w[3] \in Values /\ w[4] \in JsonNodes /\ w[4] \in Fields /\ Ahead[n + 2] = First(w[3])
        /\ w[3] = <<"str">> => Ahead[n + 3] = First(w[4])
        /\ w[3] = <<"str">> /\ w[4] = <<"end">> => After(Ahead, n + 3, b)
    BY <1>3, <1>4, <2>1, <2>2, LookField
  <2> QED
    BY <2>2, <2>3
<1>6. w[3] = <<"str">> /\ First(w[3]) = "str"
  <2>1. w[3] = <<"str">>
    BY <1>1, <1>5, BegunBy
  <2> QED
    BY <2>1 DEF First, Field
<1>7. Names(v, "/")
  BY <1>2, <1>4, <1>6 DEF Names, w
<1>8. CASE Ahead[4] = "break"
  <2>1. w[4] = <<"end">>
    BY <1>5, <1>6, <1>8, BegunBy
  <2>2. Meaning[v] = <<"link", "str">>
    BY <1>7, <2>1, MeaningIs DEF Alone, w
  <2>3. Give("link", 4, <<"str">>) /\ After(Ahead, 4, b)
    BY <1>1, <1>5, <1>6, <1>8, <2>1
  <2>4. "str" \in Tok /\ "link" \in Tok /\ 4 \in Nat
    BY DEF Tok
  <2>5. /\ buffer' \in Seq(Tok) /\ stream' \in Seq(Tok) /\ decoded' = Append(decoded, "link") /\ UNCHANGED <<value, bailed>>
        /\ Ahead' = <<"str">> \o b
    BY <1>2, <2>3, <2>4, GiveOne
  <2>6. Tokens[w[3]] = <<"str">> /\ Meaning[w[3]] = <<"str">>
    <3>1. Scalar(w[3])
      BY <1>6 DEF Scalar
    <3> QED
      BY <1>5, <1>6, <3>1, TokensIs, MeaningIs
  <2>7. Reads(<<"str">> \o b, <<"str">> \o c)
    BY <1>2, <1>5, <2>6, ReadsOneMore
  <2>8. <<"str">> \o c \in Seq(Tok)
    BY <2>7 DEF Reads, Pairs
  <2>9. m = <<"link">> \o (<<"str">> \o c)
    <3> DEFINE s == <<"str">>
    <3>1. <<"link", "str">> = <<"link">> \o s /\ s \in Seq(Tok)
      BY <2>4
    <3>2. m = (<<"link">> \o s) \o c
      BY <1>2, <2>2, <3>1
    <3> HIDE DEF s
    <3>3. m = <<"link">> \o (s \o c)
      BY <1>2, <2>4, <3>1, <3>2, Shift
    <3> QED
      BY <3>3 DEF s
  <2> QED
    BY <2>4, <2>5, <2>7, <2>8, <2>9 DEF Moves
<1>9. CASE Ahead[4] # "break"
  <2>1. w[4] # <<"end">>
    BY <1>5, <1>6, <1>9, BegunBy
  <2>2. Meaning[v] = <<"error">>
    BY <1>7, <2>1, MeaningIs DEF Alone, w
  <2>3. Throw
    BY <1>1, <1>9
  <2> QED
    BY <1>2, <2>2, <2>3 DEF Fails
<1> QED
  BY <1>8, <1>9

\* The first field of a map that is ahead, when its key is "/", and the first one of the map that is its value.
LEMMA LookLink ==
  ASSUME NodesOK, NEW v \in JsonNodes, NEW b \in Seq(Tok), NEW a, After(a, 0, Tokens[v] \o b), Map(v), a[2] = "/"
  PROVE  LET w == v[2] IN
         /\ w \in JsonNodes /\ Field(w) /\ w[2] = "/" /\ w[3] \in JsonNodes /\ w[3] \in Values /\ w[4] \in JsonNodes
         /\ Tokens[w[4]] \o b \in Seq(Tok) /\ After(a, 2, Tokens[w[3]] \o (Tokens[w[4]] \o b))
         /\ a[3] = First(w[3]) /\ a[3] \in Tok /\ 3 <= Len(a)
<1> DEFINE w == v[2]
<1>1. w \in JsonNodes /\ w \in Fields /\ After(a, 1, Tokens[w] \o b) /\ a[2] = First(w)
  BY LookMap
<1> HIDE DEF w
<1>2. Field(w) /\ w[2] = "/"
  BY <1>1, FieldBegins
<1>3. PICK n \in Nat : n = 1
  OBVIOUS
<1>4. n + 1 = 2 /\ n + 2 = 3 /\ After(a, n, Tokens[w] \o b)
  BY <1>1, <1>3
<1>5. n \in Nat
  BY <1>3
<1>6. /\ w[3] \in JsonNodes /\ w[3] \in Values /\ w[4] \in JsonNodes
      /\ Tokens[w[4]] \o b \in Seq(Tok)
      /\ After(a, n + 1, Tokens[w[3]] \o (Tokens[w[4]] \o b))
      /\ a[n + 2] = First(w[3]) /\ a[n + 2] \in Tok /\ n + 2 <= Len(a)
  BY <1>1, <1>2, <1>4, <1>5, LookField
<1> QED
  BY <1>1, <1>2, <1>4, <1>6 DEF w

LEMMA LookBytes ==
  ASSUME NodesOK, NEW w \in JsonNodes, NEW b \in Seq(Tok), NEW a, Map(w), After(a, 2, Tokens[w] \o b)
  PROVE  LET u == w[2] IN
         /\ u \in JsonNodes /\ u \in Fields /\ a[4] = First(u) /\ a[4] \in Tok /\ 4 <= Len(a)
         /\ Field(u) => u[3] \in JsonNodes /\ u[3] \in Values /\ u[4] \in JsonNodes /\ a[5] = First(u[3]) /\ a[5] \in Tok /\ 5 <= Len(a)
         /\ Field(u) /\ u[3] = <<"str">> => a[6] = First(u[4])
         /\ Field(u) /\ u[3] = <<"str">> /\ u[4] = <<"end">> => After(a, 6, b)
<1> DEFINE u == w[2]
<1>1. PICK n \in Nat : n = 2
  OBVIOUS
<1>2. n \in Nat /\ n + 1 \in Nat /\ After(a, n, Tokens[w] \o b)
  BY <1>1
<1>3. /\ u \in JsonNodes /\ u \in Fields /\ After(a, n + 1, Tokens[u] \o b)
      /\ a[n + 2] = First(u) /\ a[n + 2] \in Tok /\ n + 2 <= Len(a)
  BY <1>2, LookInner
<1> HIDE DEF u
<1>4. PICK k \in Nat : k = n + 1
  BY <1>2
<1>5. k \in Nat /\ After(a, k, Tokens[u] \o b)
  BY <1>3, <1>4
<1>6. ASSUME Field(u)
      PROVE  /\ u[3] \in JsonNodes /\ u[3] \in Values /\ u[4] \in JsonNodes
             /\ a[k + 2] = First(u[3]) /\ a[k + 2] \in Tok /\ k + 2 <= Len(a)
             /\ u[3] = <<"str">> => a[k + 3] = First(u[4])
             /\ u[3] = <<"str">> /\ u[4] = <<"end">> => After(a, k + 3, b)
  <2>1. u \in JsonNodes
    BY <1>3
  <2> QED
    BY <1>5, <1>6, <2>1, LookField
<1>7. n + 2 = 4 /\ k + 2 = 5 /\ k + 3 = 6
  BY <1>1, <1>4
<1> QED
  BY <1>3, <1>6, <1>7 DEF u

LEMMA DataMoves ==
  ASSUME NodesOK, NEW v \in JsonNodes, NEW b, NEW c, NEW m, Beginning(v, b, c, m), Data(Ahead)
  PROVE  Moves(m) \/ Fails(m)
<1> DEFINE w == v[2]
           u == w[3][2]
<1>1. /\ Ahead[1] = "map" /\ Ahead[2] = "/" /\ Ahead[3] = "map" /\ Ahead[4] = "bytes" /\ IsString(Ahead[5])
      /\ IF Ahead[6] = "break" /\ Ahead[7] = "break" THEN Give("data", 7, <<>>) ELSE Throw
  BY DEF Data
<1>2. /\ Map(v) /\ After(Ahead, 0, Tokens[v] \o b)
      /\ buffer \in Seq(Tok) /\ stream \in Seq(Tok) /\ b \in Seq(Tok) /\ c \in Seq(Tok) /\ Reads(b, c) /\ m = Meaning[v] \o c
  BY <1>1, MapBegins
<1>3. /\ w \in JsonNodes /\ Field(w) /\ w[2] = "/" /\ w[3] \in JsonNodes /\ w[3] \in Values /\ w[4] \in JsonNodes
      /\ Tokens[w[4]] \o b \in Seq(Tok) /\ After(Ahead, 2, Tokens[w[3]] \o (Tokens[w[4]] \o b)) /\ Ahead[3] = First(w[3])
  BY <1>1, <1>2, LookLink
<1> HIDE DEF w
<1>4. Map(w[3])
  BY <1>1, <1>3, BegunBy
<1> DEFINE s == Tokens[w[4]] \o b
<1>5. s \in Seq(Tok) /\ After(Ahead, 2, Tokens[w[3]] \o s)
  BY <1>3
<1> HIDE DEF s
<1>6. /\ u \in JsonNodes /\ u \in Fields /\ Ahead[4] = First(u)
      /\ Field(u) => u[3] \in JsonNodes /\ u[3] \in Values /\ u[4] \in JsonNodes /\ Ahead[5] = First(u[3])
      /\ Field(u) /\ u[3] = <<"str">> => Ahead[6] = First(u[4])
      /\ Field(u) /\ u[3] = <<"str">> /\ u[4] = <<"end">> => After(Ahead, 6, s)
  <2> DEFINE x == w[3]
  <2>1. x \in JsonNodes /\ Map(x) /\ s \in Seq(Tok) /\ After(Ahead, 2, Tokens[x] \o s) /\ u = x[2]
    BY <1>3, <1>4, <1>5
  <2> HIDE DEF x, u
  <2> QED
    BY <2>1, LookBytes
<1> HIDE DEF u
<1>7. Field(u) /\ u[2] = "bytes"
  BY <1>1, <1>6, FieldBegins
<1>8. u[3] = <<"str">>
  BY <1>1, <1>6, <1>7, BegunBy
<1>9. Nests(v)
  BY <1>2, <1>3, <1>4, <1>7, <1>8 DEF Nests, Names, w, u
<1>10. Ahead[6] = "break" <=> u[4] = <<"end">>
  BY <1>6, <1>7, <1>8, BegunBy
<1>11. u[4] = <<"end">> => Ahead[7] = First(w[4]) /\ (w[4] = <<"end">> => After(Ahead, 7, b))
  <2> SUFFICES ASSUME u[4] = <<"end">> PROVE Ahead[7] = First(w[4]) /\ (w[4] = <<"end">> => After(Ahead, 7, b))
    OBVIOUS
  <2>1. PICK n \in Nat : n = 6
    OBVIOUS
  <2> DEFINE e == w[4]
  <2>2. e \in JsonNodes /\ After(Ahead, n, Tokens[e] \o b)
    BY <1>3, <1>6, <1>7, <1>8, <2>1 DEF s
  <2>5. n + 1 = 7
    BY <2>1
  <2> HIDE DEF e
  <2>3. n \in Nat /\ b \in Seq(Tok)
    BY <1>2, <2>1
  <2>4. Leaf(Ahead, n, e, b)
    BY <2>2, <2>3, AfterLeaf
  <2> QED
    BY <2>4, <2>5 DEF e, Leaf
<1>12. u[4] = <<"end">> => (Ahead[7] = "break" <=> w[4] = <<"end">>)
  BY <1>3, <1>11, BegunBy
<1>13. Alone(v) /\ Alone(v[2][3]) <=> Ahead[6] = "break" /\ Ahead[7] = "break"
  BY <1>10, <1>12 DEF Alone, w, u
<1>14. CASE Ahead[6] = "break" /\ Ahead[7] = "break"
  <2>1. Meaning[v] = <<"data">>
    BY <1>9, <1>13, <1>14, MeaningIs
  <2>2. After(Ahead, 7, b) /\ Give("data", 7, <<>>)
    BY <1>1, <1>10, <1>11, <1>12, <1>14
  <2>3. "data" \in Tok /\ 7 \in Nat
    BY DEF Tok
  <2>4. /\ buffer' \in Seq(Tok) /\ stream' \in Seq(Tok) /\ decoded' = Append(decoded, "data") /\ UNCHANGED <<value, bailed>>
        /\ Ahead' = b
    BY <1>2, <2>2, <2>3, GiveNothing
  <2> QED
    BY <1>2, <2>1, <2>3, <2>4 DEF Moves
<1>15. CASE ~(Ahead[6] = "break" /\ Ahead[7] = "break")
  <2>1. Meaning[v] = <<"error">>
    BY <1>9, <1>13, <1>15, MeaningIs
  <2>2. Throw
    BY <1>1, <1>15
  <2> QED
    BY <1>2, <2>1, <2>2 DEF Fails
<1> QED
  BY <1>14, <1>15

\* What was looked at is pushed so that it comes again, in its order: only the "map" is gone.
LEMMA BailAhead ==
  ASSUME NodesOK, NEW v \in JsonNodes, NEW b, NEW c, NEW m, Beginning(v, b, c, m), Bail(Ahead)
  PROVE  /\ Map(v) /\ ~Names(v, "/") /\ ~Nests(v)
         /\ buffer' \in Seq(Tok) /\ stream' \in Seq(Tok) /\ decoded' = Append(decoded, "map") /\ UNCHANGED <<value, bailed>>
         /\ Ahead' = Tokens[v[2]] \o b
<1> DEFINE w == v[2]
           u == w[3][2]
           r == Tokens[w] \o b
           Back == /\ buffer' \in Seq(Tok) /\ stream' \in Seq(Tok) /\ decoded' = Append(decoded, "map") /\ UNCHANGED <<value, bailed>>
                   /\ Ahead' = r
<1>1. Ahead[1] = "map"
  BY DEF Bail
<1>2. /\ Map(v) /\ After(Ahead, 0, Tokens[v] \o b)
      /\ buffer \in Seq(Tok) /\ stream \in Seq(Tok) /\ b \in Seq(Tok) /\ c \in Seq(Tok) /\ Reads(b, c) /\ m = Meaning[v] \o c
  BY <1>1, MapBegins
<1>3. w \in JsonNodes /\ w \in Fields /\ After(Ahead, 1, r) /\ Ahead[2] = First(w) /\ Ahead[2] \in Tok /\ 2 <= Len(Ahead)
  BY <1>2, LookMap
<1>4. Ahead[2] = "/" =>
        /\ Field(w) /\ w[2] = "/" /\ w[3] \in JsonNodes /\ w[3] \in Values
        /\ Ahead[3] = First(w[3]) /\ Ahead[3] \in Tok /\ 3 <= Len(Ahead)
  BY <1>2, LookLink
<1>5. Ahead[2] = "/" /\ Ahead[3] = "map" =>
        /\ Map(w[3]) /\ u \in JsonNodes /\ u \in Fields /\ Ahead[4] = First(u) /\ Ahead[4] \in Tok /\ 4 <= Len(Ahead)
        /\ Ahead[4] = "bytes" => Field(u) /\ u[2] = "bytes" /\ u[3] \in JsonNodes /\ u[3] \in Values /\ Ahead[5] = First(u[3])
                                 /\ Ahead[5] \in Tok /\ 5 <= Len(Ahead)
  <2> SUFFICES ASSUME Ahead[2] = "/", Ahead[3] = "map"
               PROVE  /\ Map(w[3]) /\ u \in JsonNodes /\ u \in Fields /\ Ahead[4] = First(u) /\ Ahead[4] \in Tok /\ 4 <= Len(Ahead)
                      /\ Ahead[4] = "bytes" => Field(u) /\ u[2] = "bytes" /\ u[3] \in JsonNodes /\ u[3] \in Values
                                               /\ Ahead[5] = First(u[3]) /\ Ahead[5] \in Tok /\ 5 <= Len(Ahead)
    OBVIOUS
  <2> DEFINE s == Tokens[w[4]] \o b
  <2>1. w[3] \in JsonNodes /\ s \in Seq(Tok) /\ After(Ahead, 2, Tokens[w[3]] \o s)
    BY <1>2, LookLink
  <2>2. Map(w[3])
    BY <1>4, BegunBy
  <2> HIDE DEF s, w
  <2>3. /\ u \in JsonNodes /\ u \in Fields /\ Ahead[4] = First(u) /\ Ahead[4] \in Tok /\ 4 <= Len(Ahead)
        /\ Field(u) => u[3] \in JsonNodes /\ u[3] \in Values /\ Ahead[5] = First(u[3]) /\ Ahead[5] \in Tok /\ 5 <= Len(Ahead)
    BY <2>1, <2>2, LookBytes
  <2> HIDE DEF u
  <2>4. Ahead[4] = "bytes" => Field(u) /\ u[2] = "bytes"
    BY <2>3, FieldBegins
  <2> QED
    BY <2>2, <2>3, <2>4
<1>6. w[3] \in Values => (IsString(First(w[3])) <=> w[3] = <<"str">>)
  BY BegunBy DEF Values
<1>7. r \in Seq(Tok) /\ "map" \in Tok
  BY <1>2, <1>3, BeginsWith DEF Tok
<1> HIDE DEF r, w, u
<1>8. ASSUME NEW n \in Nat \ {0}, NEW p \in Seq(Tok), n <= Len(Ahead), Len(p) = n - 1, Give("map", n, p),
             \A i \in 1..(n - 1) : p[n - i] = Ahead[i + 1]
      PROVE  Back
  BY <1>2, <1>3, <1>7, <1>8, GiveBack
<1> HIDE DEF Back
<1>9. CASE Ahead[2] # "/" /\ Give("map", 2, <<Ahead[2]>>)
  <2> DEFINE p == <<Ahead[2]>>
  <2>1. p \in Seq(Tok) /\ Len(p) = 2 - 1 /\ (\A i \in 1..(2 - 1) : p[2 - i] = Ahead[i + 1]) /\ 2 \in Nat \ {0} /\ Give("map", 2, p)
    BY <1>3, <1>9
  <2> HIDE DEF p
  <2>2. Back
    BY <1>3, <1>8, <2>1
  <2>3. First(w) # "/"
    BY <1>3, <1>9
  <2>4. ~Names(v, "/") /\ ~Nests(v)
    BY <2>3 DEF Names, Nests, First, w
  <2> QED
    BY <1>2, <2>2, <2>4 DEF Back, r, w
<1>10. CASE Ahead[2] = "/" /\ Ahead[3] # "map" /\ ~IsString(Ahead[3]) /\ Give("map", 3, <<Ahead[3], Ahead[2]>>)
  <2> DEFINE p == <<Ahead[3], Ahead[2]>>
  <2>1. p \in Seq(Tok) /\ Len(p) = 3 - 1 /\ (\A i \in 1..(3 - 1) : p[3 - i] = Ahead[i + 1]) /\ 3 \in Nat \ {0} /\ Give("map", 3, p)
    BY <1>3, <1>4, <1>10
  <2> HIDE DEF p
  <2>2. Back
    BY <1>4, <1>8, <1>10, <2>1
  <2>3. w[3] # <<"str">> /\ ~Map(w[3])
    BY <1>4, <1>6, <1>10, BegunBy
  <2>4. ~Names(v, "/") /\ ~Nests(v)
    BY <2>3 DEF Names, Nests, w
  <2> QED
    BY <1>2, <2>2, <2>4 DEF Back, r, w
<1>11. CASE Ahead[2] = "/" /\ Ahead[3] = "map" /\ Ahead[4] # "bytes" /\ Give("map", 4, <<Ahead[4], Ahead[3], Ahead[2]>>)
  <2> DEFINE p == <<Ahead[4], Ahead[3], Ahead[2]>>
  <2>1. p \in Seq(Tok) /\ Len(p) = 4 - 1 /\ (\A i \in 1..(4 - 1) : p[4 - i] = Ahead[i + 1]) /\ 4 \in Nat \ {0} /\ Give("map", 4, p)
    BY <1>3, <1>4, <1>5, <1>11
  <2> HIDE DEF p
  <2>2. Back
    BY <1>5, <1>8, <1>11, <2>1
  <2>3. Map(w[3]) /\ First(u) # "bytes"
    BY <1>5, <1>11
  <2>4. ~Names(v, "/") /\ ~Nests(v)
    BY <2>3 DEF Names, Nests, First, Map, w, u
  <2> QED
    BY <1>2, <2>2, <2>4 DEF Back, r, w
<1>12. CASE /\ Ahead[2] = "/" /\ Ahead[3] = "map" /\ Ahead[4] = "bytes" /\ ~IsString(Ahead[5])
            /\ Give("map", 5, <<Ahead[5], Ahead[4], Ahead[3], Ahead[2]>>)
  <2> DEFINE p == <<Ahead[5], Ahead[4], Ahead[3], Ahead[2]>>
  <2>1. p \in Seq(Tok) /\ Len(p) = 5 - 1 /\ (\A i \in 1..(5 - 1) : p[5 - i] = Ahead[i + 1]) /\ 5 \in Nat \ {0} /\ Give("map", 5, p)
    BY <1>3, <1>4, <1>5, <1>12
  <2> HIDE DEF p
  <2>2. Back
    BY <1>5, <1>8, <1>12, <2>1
  <2>3. Map(w[3]) /\ u[3] # <<"str">>
    BY <1>5, <1>12, BegunBy
  <2>4. ~Names(v, "/") /\ ~Nests(v)
    BY <2>3 DEF Names, Nests, Map, w, u
  <2> QED
    BY <1>2, <2>2, <2>4 DEF Back, r, w
<1> QED
  BY <1>9, <1>10, <1>11, <1>12 DEF Bail

LEMMA BailMoves ==
  ASSUME NodesOK, NEW v \in JsonNodes, NEW b, NEW c, NEW m, Beginning(v, b, c, m), Bail(Ahead)
  PROVE  Moves(m)
<1>1. /\ Map(v) /\ ~Names(v, "/") /\ ~Nests(v)
      /\ buffer' \in Seq(Tok) /\ stream' \in Seq(Tok) /\ decoded' = Append(decoded, "map") /\ UNCHANGED <<value, bailed>>
      /\ Ahead' = Tokens[v[2]] \o b
  BY BailAhead
<1>2. b \in Seq(Tok) /\ c \in Seq(Tok) /\ Reads(b, c) /\ m = Meaning[v] \o c
  BY DEF Beginning
<1>3. v[2] \in JsonNodes /\ "map" \in Tok
  BY <1>1, NodeIs DEF Map, Tok
<1>4. Reads(Tokens[v[2]] \o b, Meaning[v[2]] \o c)
  BY <1>2, <1>3, ReadsOneMore
<1>5. Meaning[v[2]] \o c \in Seq(Tok)
  BY <1>4 DEF Reads, Pairs
<1>6. m = <<"map">> \o (Meaning[v[2]] \o c)
  <2> DEFINE s == Meaning[v[2]]
  <2>1. s \in Seq(Tok) /\ m = (<<"map">> \o s) \o c
    BY <1>1, <1>2, <1>3, MeaningIs, Typed
  <2> HIDE DEF s
  <2>2. m = <<"map">> \o (s \o c)
    BY <1>2, <1>3, <2>1, Shift
  <2> QED
    BY <2>2 DEF s
<1> QED
  BY <1>1, <1>3, <1>4, <1>5, <1>6 DEF Moves
-----------------------------------------------------------------------------
\* The inductive invariant: what was decoded, followed by what the tokens ahead mean, is what the value means.
JsonInv ==
  /\ value \in Values /\ buffer \in Seq(Tok) /\ stream \in Seq(Tok) /\ decoded \in Seq(Tok) /\ bailed \in BOOLEAN
  /\ ~bailed => \E m \in Seq(Tok) : Reads(Ahead, m) /\ Meaning[value] = decoded \o m
  /\ bailed => Ahead # <<>> /\ \E c \in Seq(Tok) : Meaning[value] = decoded \o (<<"error">> \o c)

LEMMA JsonInvInit == ASSUME NodesOK, JsonInit PROVE JsonInv
<1>1. value \in Values /\ value \in JsonNodes /\ stream = Tokens[value] /\ buffer = <<>> /\ decoded = <<>> /\ bailed = FALSE
  BY DEF JsonInit, Values
<1>2. Tokens[value] \in Seq(Tok) /\ Meaning[value] \in Seq(Tok) /\ <<>> \in Seq(Tok)
  BY <1>1, Typed
<1>3. Ahead = Tokens[value] /\ Tokens[value] = Tokens[value] \o <<>>
  <2>1. Reverse(buffer) = <<>>
    BY <1>1 DEF Reverse
  <2> QED
    BY <1>1, <1>2, <2>1, ConcatEmptySeq DEF Ahead
<1>4. Meaning[value] = Meaning[value] \o <<>> /\ Meaning[value] = <<>> \o Meaning[value]
  BY <1>2, ConcatEmptySeq
<1>5. Reads(Tokens[value] \o <<>>, Meaning[value] \o <<>>)
  BY <1>1, ReadsNothing, ReadsOneMore
<1> QED
  BY <1>1, <1>2, <1>3, <1>4, <1>5 DEF JsonInv

LEMMA AppendBefore == \A s, c \in Seq(Tok), x \in Tok : Append(s, x) \o c = s \o (<<x>> \o c)
<1> SUFFICES ASSUME NEW s \in Seq(Tok), NEW c \in Seq(Tok), NEW x \in Tok PROVE Append(s, x) \o c = s \o (<<x>> \o c)
  OBVIOUS
<1> DEFINE h == <<x>>
<1>1. h \in Seq(Tok) /\ Append(s, x) = s \o h
  OBVIOUS
<1> HIDE DEF h
<1>2. (s \o h) \o c = s \o (h \o c)
  BY <1>1, Assoc
<1> QED
  BY <1>1, <1>2 DEF h

LEMMA JsonInvNext == ASSUME NodesOK, JsonInv, JsonNext PROVE JsonInv'
<1>1. ~bailed /\ Ahead # <<>>
  BY DEF JsonNext, Done
<1>2. value \in Values /\ buffer \in Seq(Tok) /\ stream \in Seq(Tok) /\ decoded \in Seq(Tok) /\ bailed = FALSE
  BY <1>1 DEF JsonInv
<1>3. PICK m \in Seq(Tok) : Reads(Ahead, m) /\ Meaning[value] = decoded \o m
  BY <1>1 DEF JsonInv
<1>4. PICK v \in JsonNodes, b \in Seq(Tok), c \in Seq(Tok) : Reads(b, c) /\ Ahead = Tokens[v] \o b /\ m = Meaning[v] \o c
  <2>1. Reads(Ahead, m)
    BY <1>3
  <2>2. Begun(Ahead, m)
    BY <2>1, ReadsBegins
  <2> QED
    BY <1>1, <2>2 DEF Begun
<1>5. Beginning(v, b, c, m)
  BY <1>2, <1>4 DEF Beginning
<1>6. CASE Moves(m)
  <2>1. PICK x \in Tok, n \in Seq(Tok) :
          /\ buffer' \in Seq(Tok) /\ stream' \in Seq(Tok) /\ decoded' = Append(decoded, x) /\ UNCHANGED <<value, bailed>>
          /\ Reads(Ahead', n) /\ m = <<x>> \o n
    BY <1>6 DEF Moves
  <2>2. decoded' = decoded \o <<x>> /\ <<x>> \in Seq(Tok) /\ decoded' \in Seq(Tok)
    BY <1>2, <2>1
  <2>3. Meaning[value] = decoded' \o n
    <3>1. Meaning[value] = decoded \o (<<x>> \o n) /\ decoded' = Append(decoded, x)
      BY <1>3, <2>1
    <3>2. decoded \in Seq(Tok) /\ x \in Tok /\ n \in Seq(Tok)
      BY <1>2, <2>1
    <3>3. Append(decoded, x) \o n = decoded \o (<<x>> \o n)
      BY <3>2, AppendBefore
    <3> QED
      BY <3>1, <3>3
  <2> QED
    BY <1>2, <2>1, <2>2, <2>3 DEF JsonInv
<1>7. CASE Fails(m)
  <2>1. Throw /\ \E n \in Seq(Tok) : m = <<"error">> \o n
    BY <1>7 DEF Fails
  <2>2. UNCHANGED <<value, buffer, stream, decoded>> /\ bailed' = TRUE
    BY <2>1 DEF Throw
  <2>3. Ahead' = Ahead
    BY <2>2 DEF Ahead
  <2> QED
    BY <1>1, <1>2, <1>3, <2>1, <2>2, <2>3 DEF JsonInv
<1>8. CASE Plain(Ahead)
  BY <1>5, <1>6, <1>8, PlainMoves
<1>9. CASE Link(Ahead)
  BY <1>5, <1>6, <1>7, <1>9, LinkMoves
<1>10. CASE Data(Ahead)
  BY <1>5, <1>6, <1>7, <1>10, DataMoves
<1>11. CASE Bail(Ahead)
  BY <1>5, <1>6, <1>11, BailMoves
<1> QED
  BY <1>8, <1>9, <1>10, <1>11 DEF JsonNext

LEMMA JsonInvDecoded == ASSUME NodesOK, JsonInv PROVE JsonDecoded
<1>1. ASSUME Done PROVE decoded = Meaning[value]
  <2>1. Ahead = <<>> /\ ~bailed
    BY <1>1 DEF Done, JsonInv
  <2>2. PICK m \in Seq(Tok) : Reads(Ahead, m) /\ Meaning[value] = decoded \o m
    BY <2>1 DEF JsonInv
  <2>3. m = <<>>
    <3>1. ASSUME NEW v \in JsonNodes, NEW b \in Seq(Tok), Ahead = Tokens[v] \o b PROVE FALSE
      <4>1. Len(Ahead) \in Nat \ {0}
        BY <3>1, BeginsWith
      <4> QED
        BY <2>1, <4>1
    <3>2. Reads(Ahead, m)
      BY <2>2
    <3>3. Begun(Ahead, m)
      BY <3>2, ReadsBegins
    <3> QED
      BY <3>1, <3>3 DEF Begun
  <2>4. decoded \in Seq(Tok)
    BY DEF JsonInv
  <2> QED
    BY <2>2, <2>3, <2>4, ConcatEmptySeq
<1>2. ASSUME bailed PROVE Append(decoded, "error") = SubSeq(Meaning[value], 1, Len(decoded) + 1)
  <2>1. PICK c \in Seq(Tok) : Meaning[value] = decoded \o (<<"error">> \o c)
    BY <1>2 DEF JsonInv
  <2> DEFINE h == <<"error">>
             d == decoded \o h
  <2>2. h \in Seq(Tok) /\ decoded \in Seq(Tok) /\ Len(h) = 1 /\ h[1] = "error" /\ Len(decoded) \in Nat /\ Len(c) \in Nat
    BY DEF JsonInv, Tok
  <2>3. Append(decoded, "error") = d
    BY <2>2
  <2> HIDE DEF h
  <2>4. d \in Seq(Tok) /\ Len(d) = Len(decoded) + 1 /\ Meaning[value] = d \o c
    <3>1. decoded \o h \in Seq(Tok) /\ Len(decoded \o h) = Len(decoded) + Len(h)
      BY <2>2, Joined, Zenon
    <3>2. (decoded \o h) \o c = decoded \o (h \o c)
      BY <2>2, Assoc, Zenon
    <3>3. Meaning[value] = decoded \o (h \o c)
      BY <2>1 DEF h
    <3> QED
      BY <2>2, <3>1, <3>2, <3>3, Zenon
  <2> HIDE DEF d
  <2>5. SubSeq(d \o c, 1, Len(d)) = d
    BY <2>2, <2>4, SubSeqOfConcat1, SubSeqFull
  <2> QED
    BY <2>3, <2>4, <2>5
<1> QED
  BY <1>1, <1>2 DEF JsonDecoded

\* The tokenizer of dag-json, of any value: the decoder is given what the value means, links and bytes as one token, and
\* next throws only where the value has no meaning.
THEOREM JsonAlwaysDecoded == ASSUME NodesOK PROVE JsonSpec => []JsonDecoded
<1>1. JsonInit => JsonInv
  BY JsonInvInit
<1>2. JsonInv /\ [JsonNext]_jsonVars => JsonInv'
  <2>1. ASSUME JsonInv, UNCHANGED jsonVars PROVE JsonInv'
    BY <2>1 DEF JsonInv, jsonVars, Ahead
  <2> QED
    BY <2>1, JsonInvNext
<1>3. JsonInv => JsonDecoded
  BY JsonInvDecoded
<1> QED
  BY <1>1, <1>2, <1>3, PTL DEF JsonSpec
==========================================================================
