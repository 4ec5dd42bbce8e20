----------------------------- MODULE CompilerProofs ----------------------------
(***************************************************************************)
(* Four parts of the compiler, for every input: TypeId comparison is type  *)
(* comparison (typetable); import cycles are found by Tarjan's algorithm,  *)
(* and visibility holds along re-exports (resolve); the calls of a         *)
(* specialised program find concrete instances (monomorph); a function     *)
(* that passes the use-after-move check reads no moved value (liveness).   *)
(***************************************************************************)
EXTENDS TypeTable, Resolve, Monomorph, Liveness, Induction, SequenceTheorems

-----------------------------------------------------------------------------
(* The type table.  TypeId comparison is type comparison, for every set of *)
(* kinds, symbols and lengths and every table.                             *)

PrimitiveKinds == {PrimitiveOrder[i] : i \in DOMAIN PrimitiveOrder}

\* What a known key stands for: a primitive, or what some request asked for.
StandsFor(k) ==
  \/ \E p \in PrimitiveKinds : k = Primitive(p) /\ denotes[byKey[k]] = [kind |-> p]
  \/ \E q \in Requests : k = Key(Made(q)) /\ denotes[byKey[k]] = Meaning(q)

TableShape ==
  /\ \E S : types \in Seq(S)
  /\ DOMAIN denotes = Ids
  /\ \A k \in DOMAIN byKey : byKey[k] \in Ids /\ StandsFor(k)
  /\ \A i \in Ids : \E k \in DOMAIN byKey : byKey[k] = i

NoIdTwice == \A i, j \in Ids : denotes[i] = denotes[j] => i = j

TableInv == TableShape /\ NoIdTwice

\* Requests name their kind, and a kind is of one sort.
LEMMA RequestKind ==
  ASSUME NEW q \in Requests
  PROVE  /\ q.make \in Structural \cup UnaryKinds \cup NominalKinds
         /\ q.make \notin PrimitiveKinds
         /\ q.make # "no type"
  BY KindAssumption DEF Requests, Structural, PrimitiveKinds

\* key() spells out everything the constructors set.
LEMMA KeyOfMade ==
  ASSUME NEW q \in Requests
  PROVE  Key(Made(q)) = Made(q) /\ Made(q).kind = q.make
<1> USE DEF Key, Made, Type, Tuple, TraitObject, Array, Fn, GenericParam, Unary, Nominal, Primitive
<1>1. CASE q.make \in UnaryKinds
  BY <1>1, KindAssumption DEF Structural
<1>2. CASE q.make \in NominalKinds
  BY <1>2, KindAssumption DEF Structural
<1>3. CASE q.make \in Structural
  BY <1>3, KindAssumption DEF Structural
<1> QED
  BY <1>1, <1>2, <1>3, RequestKind

\* The meaning of a request has its kind.
LEMMA MeaningKind ==
  ASSUME NEW q \in Requests
  PROVE  Meaning(q).kind = q.make
  BY DEF Meaning

\* The sort of a primitive's written-out type.
LEMMA PrimitiveKind ==
  ASSUME NEW p \in PrimitiveKinds
  PROVE  [kind |-> p].kind # "no type" /\ [kind |-> p] # Unknown
<1>1. p # "no type"
  BY KindAssumption DEF PrimitiveKinds
<1>2. [kind |-> p].kind = p /\ Unknown.kind = "no type"
  BY DEF Unknown
<1> QED
  BY <1>1, <1>2

\* Written-out types tell parts apart when ids stand for different types.
LEMMA FullInjective ==
  ASSUME TableInv, NEW x \in Parts, NEW y \in Parts, Full(x) = Full(y)
  PROVE  x = y
<1>1. \A i \in Ids : i # NoType /\ Full(i) = denotes[i]
  BY DEF TableInv, TableShape, Ids, NoType, Full
<1>2. ASSUME NEW i \in Ids PROVE Full(i) # Unknown
  <2>1. PICK k \in DOMAIN byKey : byKey[k] = i
    BY DEF TableInv, TableShape
  <2>2. StandsFor(k)
    BY <2>1 DEF TableInv, TableShape
  <2>3. CASE \E p \in PrimitiveKinds : k = Primitive(p) /\ denotes[byKey[k]] = [kind |-> p]
    BY <1>1, <2>1, <2>3, PrimitiveKind
  <2>4. CASE \E q \in Requests : k = Key(Made(q)) /\ denotes[byKey[k]] = Meaning(q)
    <3>1. PICK q \in Requests : denotes[i] = Meaning(q)
      BY <2>1, <2>4
    <3>2. Meaning(q).kind # "no type" /\ Unknown.kind = "no type"
      BY MeaningKind, RequestKind DEF Unknown
    <3> QED
      BY <1>1, <3>1, <3>2
  <2> QED
    BY <2>2, <2>3, <2>4 DEF StandsFor
<1> QED
  BY <1>1, <1>2 DEF TableInv, NoIdTwice, Parts, Full

\* Lists of ids that stand for the same lists of types are the same.
LEMMA ListsInjective ==
  ASSUME TableInv, NEW s \in Lists, NEW t \in Lists
  PROVE  FullList(s) = FullList(t) <=> s = t
<1>1. PICK m \in 0 .. MaxArity, n \in 0 .. MaxArity : s \in [1 .. m -> Parts] /\ t \in [1 .. n -> Parts]
  BY DEF Lists
<1>2. ASSUME FullList(s) = FullList(t) PROVE s = t
  <2>1. DOMAIN s = DOMAIN t
    BY <1>2 DEF FullList
  <2>2. \A i \in DOMAIN s : Full(s[i]) = Full(t[i])
    BY <1>2, <2>1 DEF FullList
  <2>3. \A i \in DOMAIN s : s[i] = t[i]
    BY <1>1, <2>1, <2>2, FullInjective
  <2> QED
    BY <1>1, <2>1, <2>3
<1> QED
  BY <1>2

\* The multiset of the ids and the multiset of the types determine each other.
LEMMA BoundsInjective ==
  ASSUME TableInv, NEW s \in Lists, NEW t \in Lists
  PROVE  FullBounds(s) = FullBounds(t) <=> Bounds(s) = Bounds(t)
<1> DEFINE At(u, x) == {i \in DOMAIN u : u[i] = x}
           FullAt(u, x) == {i \in DOMAIN u : Full(u[i]) = Full(x)}
           El(u) == {u[i] : i \in DOMAIN u}
           FullEl(u) == {Full(u[i]) : i \in DOMAIN u}
<1>0. \A u \in {s, t} : \A i \in DOMAIN u : u[i] \in Parts
  BY DEF Lists
<1>a. El(s) \subseteq Parts /\ El(t) \subseteq Parts
  BY <1>0
<1>1. \A x \in Parts : At(s, x) = FullAt(s, x) /\ At(t, x) = FullAt(t, x)
  BY <1>0, FullInjective
<1>2. \A x \in Parts : (Full(x) \in FullEl(s) <=> x \in El(s)) /\ (Full(x) \in FullEl(t) <=> x \in El(t))
  BY <1>0, FullInjective
<1>3. \A u \in {s, t} : /\ DOMAIN Bounds(u) = El(u)
                       /\ \A x \in El(u) : Bounds(u)[x] = Cardinality(At(u, x))
  BY DEF Bounds, Multiset
<1>4. \A u \in {s, t} : /\ DOMAIN FullBounds(u) = FullEl(u)
                       /\ \A x \in El(u) : FullBounds(u)[Full(x)] = Cardinality(FullAt(u, x))
  BY DEF FullBounds, Multiset, FullList
<1>5. ASSUME FullBounds(s) = FullBounds(t) PROVE Bounds(s) = Bounds(t)
  <2>1. FullEl(s) = FullEl(t)
    BY <1>4, <1>5
  <2> HIDE DEF El, FullEl, At, FullAt
  <2>2. El(s) = El(t)
    BY <1>a, <1>2, <2>1
  <2>3. \A x \in El(s) : Bounds(s)[x] = Bounds(t)[x]
    BY <1>a, <1>1, <1>3, <1>4, <1>5, <2>2
  <2> QED
    BY <1>3, <2>2, <2>3 DEF Bounds, Multiset
<1>6. ASSUME Bounds(s) = Bounds(t) PROVE FullBounds(s) = FullBounds(t)
  <2>1. El(s) = El(t)
    BY <1>3, <1>6
  <2>2. FullEl(s) = FullEl(t)
    BY <2>1
  <2>3. \A m \in FullEl(s) : \E x \in El(s) : m = Full(x)
    OBVIOUS
  <2> HIDE DEF El, FullEl, At, FullAt
  <2>4. \A x \in El(s) : FullBounds(s)[Full(x)] = FullBounds(t)[Full(x)]
    BY <1>a, <1>1, <1>3, <1>4, <1>6, <2>1
  <2>5. \A m \in FullEl(s) : FullBounds(s)[m] = FullBounds(t)[m]
    BY <2>3, <2>4
  <2> QED
    BY <1>4, <2>2, <2>5 DEF FullBounds, Multiset
<1> QED
  BY <1>5, <1>6

\* Two requests have one key exactly when they ask for one type.
LEMMA KeyIsMeaning ==
  ASSUME TableInv, NEW q \in Requests, NEW r \in Requests
  PROVE  Key(Made(q)) = Key(Made(r)) <=> Meaning(q) = Meaning(r)
<1>1. Key(Made(q)) = Made(q) /\ Made(q).kind = q.make /\ Key(Made(r)) = Made(r) /\ Made(r).kind = r.make
  BY KeyOfMade
<1>2. Meaning(q).kind = q.make /\ Meaning(r).kind = r.make
  BY MeaningKind
<1>3. SUFFICES ASSUME q.make = r.make PROVE Made(q) = Made(r) <=> Meaning(q) = Meaning(r)
  BY <1>1, <1>2
<1>4. q.make \in Structural \cup UnaryKinds \cup NominalKinds
  BY RequestKind
<1>5. CASE q.make \in UnaryKinds
  <2>1. q.make \notin Structural /\ q.elem \in Parts /\ r.elem \in Parts
    BY <1>3, <1>5, KindAssumption DEF Requests, Structural
  <2> QED
    BY <1>3, <1>5, <2>1, FullInjective DEF Unary, Structural, Made, Meaning, Type
<1>6. CASE q.make \in NominalKinds
  <2>1. q.make \notin Structural \cup UnaryKinds /\ q.list \in Lists /\ r.list \in Lists
    BY <1>3, <1>6, KindAssumption DEF Requests, Structural
  <2> QED
    BY <1>3, <1>6, <2>1, ListsInjective DEF Nominal, Structural, Made, Meaning, Type
<1>a. \A k \in Structural : k \notin UnaryKinds \cup NominalKinds
  BY KindAssumption
<1>7. CASE q.make = "Tuple"
  <2>1. q.list \in Lists /\ r.list \in Lists
    BY <1>3, <1>7, <1>a DEF Requests, Structural
  <2>2. Made(q) = Tuple(q.list) /\ Made(r) = Tuple(r.list)
    BY <1>3, <1>7, <1>a DEF Structural, Made, Meaning
  <2>3. /\ Meaning(q) = [kind |-> "Tuple", list |-> FullList(q.list)]
        /\ Meaning(r) = [kind |-> "Tuple", list |-> FullList(r.list)]
    BY <1>3, <1>7, <1>a DEF Structural, Made, Meaning
  <2>4. FullList(q.list) = FullList(r.list) <=> q.list = r.list
    BY <2>1, ListsInjective
  <2>5. /\ Made(q).children = q.list /\ Made(r).children = r.list
        /\ Meaning(q).list = FullList(q.list) /\ Meaning(r).list = FullList(r.list)
    BY <2>2, <2>3 DEF Tuple, Type
  <2> QED
    BY <2>2, <2>3, <2>4, <2>5
<1>8. CASE q.make = "TraitObject"
  <2>1. q.list \in Lists /\ r.list \in Lists
    BY <1>3, <1>8, <1>a DEF Requests, Structural
  <2>2. Made(q) = TraitObject(q.list) /\ Made(r) = TraitObject(r.list)
    BY <1>3, <1>8, <1>a DEF Structural, Made, Meaning
  <2>3. /\ Meaning(q) = [kind |-> "TraitObject", bounds |-> FullBounds(q.list)]
        /\ Meaning(r) = [kind |-> "TraitObject", bounds |-> FullBounds(r.list)]
    BY <1>3, <1>8, <1>a DEF Structural, Made, Meaning
  <2>4. FullBounds(q.list) = FullBounds(r.list) <=> Bounds(q.list) = Bounds(r.list)
    BY <2>1, BoundsInjective
  <2>5. /\ Made(q).children = Bounds(q.list) /\ Made(r).children = Bounds(r.list)
        /\ Meaning(q).bounds = FullBounds(q.list) /\ Meaning(r).bounds = FullBounds(r.list)
    BY <2>2, <2>3 DEF TraitObject, Type
  <2>6. Bounds(q.list) = Bounds(r.list) => Made(q) = Made(r)
    BY <2>2 DEF TraitObject
  <2> QED
    BY <2>3, <2>4, <2>5, <2>6
<1>9. CASE q.make = "Array"
  <2>1. q.elem \in Parts /\ r.elem \in Parts
    BY <1>3, <1>9, <1>a DEF Requests, Structural
  <2>2. Made(q) = Array(q.elem, q.length) /\ Made(r) = Array(r.elem, r.length)
    BY <1>3, <1>9, <1>a DEF Structural, Made, Meaning
  <2>3. /\ Meaning(q) = [kind |-> "Array", elem |-> Full(q.elem), length |-> q.length]
        /\ Meaning(r) = [kind |-> "Array", elem |-> Full(r.elem), length |-> r.length]
    BY <1>3, <1>9, <1>a DEF Structural, Made, Meaning
  <2>4. Full(q.elem) = Full(r.elem) <=> q.elem = r.elem
    BY <2>1, FullInjective
  <2>5. /\ Made(q).children[1] = q.elem /\ Made(r).children[1] = r.elem
        /\ Made(q).length = q.length /\ Made(r).length = r.length
        /\ Meaning(q).elem = Full(q.elem) /\ Meaning(r).elem = Full(r.elem)
        /\ Meaning(q).length = q.length /\ Meaning(r).length = r.length
    BY <2>2, <2>3 DEF Array, Type
  <2> QED
    BY <2>2, <2>3, <2>4, <2>5
<1>10. CASE q.make = "Fn"
  <2>1. q.list \in Lists /\ r.list \in Lists /\ q.ret \in Parts /\ r.ret \in Parts
    BY <1>3, <1>10, <1>a DEF Requests, Structural, Parts
  <2>2. FullList(q.list) = FullList(r.list) <=> q.list = r.list
    BY <2>1, ListsInjective
  <2>3. Full(q.ret) = Full(r.ret) <=> q.ret = r.ret
    BY <2>1, FullInjective
  <2>4. Made(q) = Fn(q.list, q.ret, q.variadic) /\ Made(r) = Fn(r.list, r.ret, r.variadic)
    BY <1>3, <1>10, <1>a DEF Structural, Made, Meaning
  <2>5. /\ Meaning(q) = [kind |-> "Fn", list |-> FullList(q.list), ret |-> Full(q.ret),
                         variadic |-> q.variadic]
        /\ Meaning(r) = [kind |-> "Fn", list |-> FullList(r.list), ret |-> Full(r.ret),
                         variadic |-> r.variadic]
    BY <1>3, <1>10, <1>a DEF Structural, Made, Meaning
  <2> QED
    BY <2>2, <2>3, <2>4, <2>5 DEF Fn, Type
<1>11. CASE q.make = "GenericParam"
  <2>1. Made(q) = GenericParam(q.symbol) /\ Made(r) = GenericParam(r.symbol)
    BY <1>3, <1>11, <1>a DEF Structural, Made, Meaning
  <2>2. /\ Meaning(q) = [kind |-> "GenericParam", symbol |-> q.symbol]
        /\ Meaning(r) = [kind |-> "GenericParam", symbol |-> r.symbol]
    BY <1>3, <1>11, <1>a DEF Structural, Made, Meaning
  <2>3. /\ Made(q).symbol = q.symbol /\ Made(r).symbol = r.symbol
        /\ Meaning(q).symbol = q.symbol /\ Meaning(r).symbol = r.symbol
    BY <2>1, <2>2 DEF GenericParam, Type
  <2> QED
    BY <2>1, <2>2, <2>3
<1> QED
  BY <1>4, <1>5, <1>6, <1>7, <1>8, <1>9, <1>10, <1>11 DEF Structural

\* A table that grows keeps its ids, and what they stand for.
LEMMA Growth ==
  ASSUME TableInv, NEW q \in Requests, Intern(q)
  PROVE  /\ Ids' = Ids \cup {Len(types) + 1}
         /\ Len(types) + 1 \notin Ids
         /\ \A i \in Ids : denotes'[i] = denotes[i]
         /\ \A r \in Requests : r \in Requests' /\ Meaning(r)' = Meaning(r)
<1>1. PICK S : types \in Seq(S)
  BY DEF TableInv, TableShape
<1>2. types' = Append(types, Made(q)) /\ types \in Seq(S \cup {Made(q)})
  BY <1>1 DEF Intern
<1>3. Ids' = Ids \cup {Len(types) + 1} /\ Len(types) + 1 \notin Ids
  BY <1>1, <1>2 DEF Ids
<1>4. \A i \in Ids : denotes'[i] = denotes[i]
  BY <1>3 DEF Intern, TableInv, TableShape
<1>5. \A x \in Parts : x \in Parts' /\ Full(x)' = Full(x)
  BY <1>3, <1>4 DEF Parts, Full
<1>6. \A s \in Lists : s \in Lists' /\ FullList(s)' = FullList(s)
  BY <1>5 DEF Lists, FullList
<1>7. \A s \in Lists : FullBounds(s)' = FullBounds(s)
  BY <1>6 DEF FullBounds
<1>8. ASSUME NEW r \in Requests PROVE r \in Requests'
  BY <1>3, <1>5, <1>6 DEF Requests
<1>9. ASSUME NEW r \in Requests PROVE Meaning(r)' = Meaning(r)
  BY <1>3, <1>5, <1>6, <1>7, KindAssumption DEF Requests, Meaning, Structural, Parts
<1> QED
  BY <1>3, <1>4, <1>8, <1>9

\* New: one id per kind without parts.
LEMMA TableInvAtFirst == TypesInit => TableInv
<1> SUFFICES ASSUME TypesInit PROVE TableInv
  OBVIOUS
<1> DEFINE P == DOMAIN PrimitiveOrder
<1>a. PrimitiveOrder \in Seq(STRING)
  BY KindAssumption
<1>0. P = 1 .. Len(PrimitiveOrder) /\ Len(PrimitiveOrder) \in Nat
  BY <1>a
<1>1. /\ types = [i \in P |-> Primitive(PrimitiveOrder[i])]
      /\ denotes = [i \in P |-> [kind |-> PrimitiveOrder[i]]]
      /\ Ids = P
  BY DEF TypesInit, Ids
<1>2. \A i \in P : Key(types[i]) = Primitive(PrimitiveOrder[i]) /\ Key(types[i]).kind = PrimitiveOrder[i]
  <2> SUFFICES ASSUME NEW i \in P PROVE Key(types[i]) = Primitive(PrimitiveOrder[i])
                                        /\ Primitive(PrimitiveOrder[i]).kind = PrimitiveOrder[i]
    OBVIOUS
  <2>1. types[i].kind = PrimitiveOrder[i] /\ Primitive(PrimitiveOrder[i]).kind = PrimitiveOrder[i]
    BY <1>1 DEF Primitive, Type
  <2>2. PrimitiveOrder[i] \notin Structural \cup UnaryKinds \cup NominalKinds
    BY KindAssumption
  <2> QED
    BY <2>1, <2>2 DEF Key, Structural
<1>3. \A i, j \in P : Key(types[i]) = Key(types[j]) => i = j
  BY <1>2, KindAssumption
<1>4. /\ DOMAIN byKey = {Key(types[i]) : i \in P}
      /\ \A i \in P : byKey[Key(types[i])] = i
  BY <1>1, <1>3 DEF TypesInit
<1>5. \E S : types \in Seq(S)
  <2> DEFINE S == {Primitive(PrimitiveOrder[i]) : i \in P}
  <2>1. types \in [1 .. Len(PrimitiveOrder) -> S]
    BY <1>0, <1>1
  <2>2. types \in Seq(S)
    BY <1>0, <2>1
  <2> QED
    BY <2>2
<1>6. \A k \in DOMAIN byKey : byKey[k] \in Ids /\ StandsFor(k)
  <2> SUFFICES ASSUME NEW i \in P PROVE StandsFor(Key(types[i])) /\ byKey[Key(types[i])] \in Ids
    BY <1>4
  <2>1. PrimitiveOrder[i] \in PrimitiveKinds /\ Key(types[i]) = Primitive(PrimitiveOrder[i])
    BY <1>2 DEF PrimitiveKinds
  <2>2. denotes[byKey[Key(types[i])]] = [kind |-> PrimitiveOrder[i]]
    BY <1>1, <1>4
  <2> QED
    BY <1>1, <1>4, <2>1, <2>2 DEF StandsFor
<1>7. NoIdTwice
  <2> SUFFICES ASSUME NEW i \in P, NEW j \in P, denotes[i] = denotes[j] PROVE i = j
    BY <1>1 DEF NoIdTwice
  <2>1. denotes[i].kind = PrimitiveOrder[i] /\ denotes[j].kind = PrimitiveOrder[j]
    BY <1>1
  <2> QED
    BY <2>1, KindAssumption
<1> QED
  BY <1>1, <1>4, <1>5, <1>6, <1>7 DEF TableInv, TableShape

\* A new id stands for what no other id stands for.
LEMMA TableInvKept == TableInv /\ [TypesNext]_typeVars => TableInv'
<1> SUFFICES ASSUME TableInv, [TypesNext]_typeVars PROVE TableInv'
  OBVIOUS
<1>1. CASE UNCHANGED typeVars
  <2>1. types' = types /\ byKey' = byKey /\ denotes' = denotes
    BY <1>1 DEF typeVars
  <2>2. Ids' = Ids /\ Requests' = Requests
    BY <2>1 DEF Ids, Parts, Lists, Requests
  <2>3. \A q \in Requests : Meaning(q)' = Meaning(q)
    BY <2>1 DEF Meaning, FullList, FullBounds, Full
  <2>4. \A k \in DOMAIN byKey : StandsFor(k)' <=> StandsFor(k)
    BY <2>1, <2>2, <2>3 DEF StandsFor
  <2>5. NoIdTwice'
    BY <2>1, <2>2 DEF TableInv, NoIdTwice
  <2>6. TableShape'
    BY <2>1, <2>2, <2>4 DEF TableInv, TableShape
  <2> QED
    BY <2>5, <2>6 DEF TableInv
<1>2. ASSUME NEW q \in Requests, Intern(q) PROVE TableInv'
  <2> DEFINE id == Len(types) + 1
             key == Key(Made(q))
  <2>1. /\ Ids' = Ids \cup {id} /\ id \notin Ids
        /\ \A i \in Ids : denotes'[i] = denotes[i]
        /\ \A r \in Requests : r \in Requests' /\ Meaning(r)' = Meaning(r)
    BY <1>2, Growth
  <2>2. /\ DOMAIN denotes' = Ids' /\ denotes'[id] = Meaning(q)
        /\ key \notin DOMAIN byKey
        /\ DOMAIN byKey' = DOMAIN byKey \cup {key}
        /\ byKey'[key] = id
        /\ \A k \in DOMAIN byKey : byKey'[k] = byKey[k]
    BY <1>2, <2>1 DEF Intern, TableInv, TableShape
  <2>3. (\E S : types \in Seq(S))'
    <3>1. PICK S : types \in Seq(S)
      BY DEF TableInv, TableShape
    <3>2. types' \in Seq(S \cup {Made(q)})
      BY <1>2, <3>1 DEF Intern
    <3> QED
      BY <3>2
  <2>4. ASSUME NEW k \in DOMAIN byKey PROVE byKey'[k] \in Ids' /\ StandsFor(k)'
    <3>1. byKey[k] \in Ids /\ StandsFor(k)
      BY DEF TableInv, TableShape
    <3>2. denotes'[byKey'[k]] = denotes[byKey[k]]
      BY <2>1, <2>2, <3>1
    <3>5. byKey'[k] \in Ids'
      BY <2>1, <2>2, <3>1
    <3>3. CASE \E p \in PrimitiveKinds : k = Primitive(p) /\ denotes[byKey[k]] = [kind |-> p]
      BY <3>2, <3>3, <3>5 DEF StandsFor
    <3>4. CASE \E r \in Requests : k = Key(Made(r)) /\ denotes[byKey[k]] = Meaning(r)
      <4>1. PICK r \in Requests : k = Key(Made(r)) /\ denotes[byKey[k]] = Meaning(r)
        BY <3>4
      <4>2. r \in Requests' /\ denotes'[byKey'[k]] = Meaning(r)'
        BY <2>1, <3>2, <4>1
      <4> QED
        BY <3>5, <4>1, <4>2 DEF StandsFor
    <3> QED
      BY <3>1, <3>3, <3>4 DEF StandsFor
  <2>5. byKey'[key] \in Ids' /\ StandsFor(key)'
    BY <2>1, <2>2 DEF StandsFor
  <2>6. \A i \in Ids' : \E k \in DOMAIN byKey' : byKey'[k] = i
    BY <2>1, <2>2 DEF TableInv, TableShape
  <2>7. ASSUME NEW i \in Ids PROVE denotes[i] # Meaning(q)
    <3>1. PICK k \in DOMAIN byKey : byKey[k] = i
      BY DEF TableInv, TableShape
    <3>2. CASE \E p \in PrimitiveKinds : denotes[i] = [kind |-> p]
      <4>1. PICK p \in PrimitiveKinds : denotes[i] = [kind |-> p]
        BY <3>2
      <4>2. denotes[i].kind = p
        BY <4>1
      <4>3. Meaning(q).kind = q.make /\ q.make \notin PrimitiveKinds
        BY MeaningKind, RequestKind
      <4> QED
        BY <4>2, <4>3
    <3>3. CASE \E r \in Requests : k = Key(Made(r)) /\ denotes[i] = Meaning(r)
      BY <2>2, <3>1, <3>3, KeyIsMeaning
    <3> QED
      BY <3>1, <3>2, <3>3 DEF TableInv, TableShape, StandsFor
  <2>8. NoIdTwice'
    <3> SUFFICES ASSUME NEW i \in Ids', NEW j \in Ids', denotes'[i] = denotes'[j] PROVE i = j
      BY DEF NoIdTwice
    <3> QED
      BY <2>1, <2>2, <2>7 DEF TableInv, NoIdTwice
  <2> QED
    BY <2>2, <2>3, <2>4, <2>5, <2>6, <2>8 DEF TableInv, TableShape
<1> QED
  BY <1>1, <1>2 DEF TypesNext

\* The invariant gives the property.
LEMMA TableInvSuffices == TableInv => SameIdSameType
<1> SUFFICES ASSUME TableInv PROVE SameIdSameType
  OBVIOUS
<1>1. ASSUME NEW q \in Requests, Key(Made(q)) \in DOMAIN byKey
      PROVE  denotes[byKey[Key(Made(q))]] = Meaning(q)
  <2>1. StandsFor(Key(Made(q)))
    BY <1>1 DEF TableInv, TableShape
  <2>2. ~\E p \in PrimitiveKinds : Key(Made(q)) = Primitive(p)
    <3>1. Key(Made(q)).kind = q.make /\ q.make \notin PrimitiveKinds
      BY KeyOfMade, RequestKind
    <3>2. \A p \in PrimitiveKinds : Primitive(p).kind = p
      BY DEF Primitive, Type
    <3> QED
      BY <3>1, <3>2
  <2> QED
    BY <2>1, <2>2, KeyIsMeaning DEF StandsFor
<1> QED
  BY <1>1 DEF SameIdSameType, TableInv, NoIdTwice

\* TypeId comparison is type comparison: Table.Intern gives one id to equal
\* types and different ids to different types, however they were built up.
THEOREM InternIsTypeEquality == TypesSpec => []SameIdSameType
<1>1. TypesInit => TableInv
  BY TableInvAtFirst
<1>2. TableInv /\ [TypesNext]_typeVars => TableInv'
  BY TableInvKept
<1>3. TableInv => SameIdSameType
  BY TableInvSuffices
<1> QED
  BY <1>1, <1>2, <1>3, PTL DEF TypesSpec

-----------------------------------------------------------------------------
(* Reaching modules along imports *)

Graph == [Modules -> SUBSET Modules]

\* What a module reaches is closed under imports, and is the least such set.
LEMMA ReachIsClosed ==
  ASSUME NEW g \in Graph, NEW m \in Modules
  PROVE  Reach(g, m) \subseteq Modules /\ g[m] \subseteq Reach(g, m) /\ Closed(g, Reach(g, m))
BY DEF Graph, Reach, Closed

\* What a module imports, closed under imports, holds all it reaches.
LEMMA ReachIsLeast ==
  ASSUME NEW g \in Graph, NEW m \in Modules, NEW S \in SUBSET Modules,
         g[m] \subseteq S, Closed(g, S)
  PROVE  Reach(g, m) \subseteq S
BY DEF Reach

\* There is a path from x to y, perhaps an empty one.
Leads(g, x, y) == x = y \/ y \in Reach(g, x)

\* An import is a path.
LEMMA EdgesLead ==
  ASSUME NEW g \in Graph, NEW x \in Modules, NEW y \in g[x]
  PROVE  Leads(g, x, y) /\ y \in Modules
BY ReachIsClosed DEF Leads

\* Paths compose.
LEMMA LeadsOn ==
  ASSUME NEW g \in Graph, NEW x \in Modules, NEW y \in Modules, NEW z \in Modules,
         Leads(g, x, y), Leads(g, y, z)
  PROVE  Leads(g, x, z)
<1>1. CASE y \in Reach(g, x) /\ z \in Reach(g, y)
  <2>1. g[y] \subseteq Reach(g, x) /\ Closed(g, Reach(g, x)) /\ Reach(g, x) \in SUBSET Modules
    BY <1>1, ReachIsClosed DEF Closed
  <2>2. Reach(g, y) \subseteq Reach(g, x)
    BY <2>1, ReachIsLeast
  <2> QED
    BY <1>1, <2>2 DEF Leads
<1> QED
  BY <1>1 DEF Leads

\* Paths do not leave a closed set.
LEMMA LeadsInside ==
  ASSUME NEW g \in Graph, NEW S \in SUBSET Modules, Closed(g, S),
         NEW x \in S, NEW y, Leads(g, x, y)
  PROVE  y \in S
<1>1. g[x] \subseteq S /\ x \in Modules
  BY DEF Closed
<1>2. Reach(g, x) \subseteq S
  BY <1>1, ReachIsLeast
<1> QED
  BY <1>2 DEF Leads

-----------------------------------------------------------------------------
(* The search: g is the graph, ind and low are the numbers given so far, on
   the modules on the stack, fr the calls of strong *)

Call == [v : Modules, left : SUBSET Modules]

Numbered(ind, low, on, fr) ==
  /\ DOMAIN ind \subseteq Modules
  /\ ind \in [DOMAIN ind -> Nat] /\ low \in [DOMAIN ind -> Nat]
  /\ \A x, y \in DOMAIN ind : ind[x] = ind[y] => x = y
  /\ on \subseteq DOMAIN ind
  /\ fr \in Seq(Call)

\* A call is of a module on the stack, and callers were entered before.
Nested(g, ind, on, fr) ==
  /\ \A k \in 1 .. Len(fr) : fr[k].v \in on /\ fr[k].left \subseteq g[fr[k].v]
  /\ \A j, k \in 1 .. Len(fr) : j < k => ind[fr[j].v] < ind[fr[k].v]

\* y is an import of x that the call of x has yet to visit.
Pending(fr, x, y) == \E k \in 1 .. Len(fr) : fr[k].v = x /\ y \in fr[k].left

\* Modules off the stack import only such modules; those on it have visited all
\* but the pending imports.
Visited(g, ind, on, fr) ==
  /\ \A x \in DOMAIN ind \ on : g[x] \subseteq DOMAIN ind \ on
  /\ \A x \in on : \A y \in g[x] : y \in DOMAIN ind \/ Pending(fr, x, y)

\* A call leads to what was entered after it, and everything on the stack leads
\* to a call that was entered before it.
Linked(g, ind, on, fr) ==
  /\ \A k \in 1 .. Len(fr) : \A x \in on : ind[fr[k].v] <= ind[x] => Leads(g, fr[k].v, x)
  /\ \A x \in on : \E k \in 1 .. Len(fr) : ind[fr[k].v] <= ind[x] /\ Leads(g, x, fr[k].v)

\* The low link of a call is the number of a module on the stack it leads to.
LowIsReal(g, ind, low, on, fr) ==
  \A k \in 1 .. Len(fr) :
    /\ low[fr[k].v] <= ind[fr[k].v]
    /\ \E y \in on : ind[y] = low[fr[k].v] /\ Leads(g, fr[k].v, y)

\* The part of the stack a call has to answer for.
Part(ind, fr, k, x) == ind[fr[k].v] <= ind[x] /\ (k < Len(fr) => ind[x] < ind[fr[k + 1].v])

\* No visited import out of that part goes below the low link.
LowIsLow(g, ind, low, on, fr) ==
  \A k \in 1 .. Len(fr) : \A x, y \in on :
    Part(ind, fr, k, x) /\ y \in g[x] /\ ~Pending(fr, x, y) => low[fr[k].v] <= ind[y]

\* How a step changes the calls and the low links: the call on top goes on past
\* w, or returns, and the link of v is lowered to k.
Moved(fr, fr2, w) ==
  \A k \in 1 .. Len(fr) :
    /\ fr2[k].v = fr[k].v
    /\ fr2[k].left = IF k = Len(fr) THEN fr[k].left \ {w} ELSE fr[k].left
Dropped(fr, fr2) == Len(fr2) = Len(fr) - 1 /\ \A k \in 1 .. Len(fr) - 1 : fr2[k] = fr[k]
Lowered(low, v, k) == [low EXCEPT ![v] = Lesser(@, k)]

Search(g, ind, low, on, fr) ==
  /\ Numbered(ind, low, on, fr) /\ Nested(g, ind, on, fr) /\ Visited(g, ind, on, fr)
  /\ Linked(g, ind, on, fr) /\ LowIsReal(g, ind, low, on, fr) /\ LowIsLow(g, ind, low, on, fr)

-----------------------------------------------------------------------------
(* strong(w) begins, called by the call on top or by the outer loop *)

LEMMA SearchEnters ==
  ASSUME NEW g \in Graph, NEW ind, NEW low, NEW on, NEW fr, Search(g, ind, low, on, fr),
         NEW w \in Modules, w \notin DOMAIN ind,
         NEW idx \in Nat, \A x \in DOMAIN ind : ind[x] < idx,
         NEW n \in Nat, n = Len(fr), n > 0 => w \in g[fr[n].v],
         NEW fr2 \in Seq(Call), Len(fr2) = n + 1,
         fr2[n + 1].v = w, fr2[n + 1].left = g[w],
         Moved(fr, fr2, w),
         NEW ind2, ind2 = Insert(ind, w, idx),
         NEW low2, low2 = Insert(low, w, idx)
  PROVE  Search(g, ind2, low2, on \cup {w}, fr2)
<1> USE DEF Insert
<1> /\ \A k \in 1 .. n : fr2[k].v = fr[k].v
    /\ \A k \in 1 .. n : fr2[k].left = IF k = n THEN fr[k].left \ {w} ELSE fr[k].left
  BY DEF Moved
<1> DEFINE on2 == on \cup {w}
<1>0. /\ on \subseteq DOMAIN ind /\ DOMAIN ind \subseteq Modules /\ DOMAIN low = DOMAIN ind
      /\ w \notin on /\ fr \in Seq(Call)
      /\ \A x \in DOMAIN ind : ind[x] \in Nat /\ low[x] \in Nat
      /\ \A k \in 1 .. n : fr[k].v \in on
  BY DEF Search, Numbered, Nested
<1>1. /\ DOMAIN ind2 = DOMAIN ind \cup {w} /\ ind2[w] = idx /\ low2[w] = idx
      /\ \A x \in DOMAIN ind : ind2[x] = ind[x] /\ low2[x] = low[x] /\ x # w
  BY <1>0
<1>2. Numbered(ind2, low2, on2, fr2)
  <2>1. ind2 \in [DOMAIN ind2 -> Nat] /\ low2 \in [DOMAIN ind2 -> Nat]
    BY <1>0
  <2>2. \A x, y \in DOMAIN ind2 : ind2[x] = ind2[y] => x = y
    BY <1>0, <1>1 DEF Search, Numbered
  <2> QED
    BY <1>0, <1>1, <2>1, <2>2 DEF Numbered
<1>3. \A k \in 1 .. n + 1 : k \in 1 .. n \/ k = n + 1
  OBVIOUS
<1>4. Nested(g, ind2, on2, fr2)
  <2>1. ASSUME NEW k \in 1 .. n + 1 PROVE fr2[k].v \in on2 /\ fr2[k].left \subseteq g[fr2[k].v]
    BY <1>0, <1>3 DEF Search, Nested
  <2>2. ASSUME NEW j \in 1 .. n + 1, NEW k \in 1 .. n + 1, j < k PROVE ind2[fr2[j].v] < ind2[fr2[k].v]
    <3>1. j \in 1 .. n
      BY <2>2
    <3>2. CASE k = n + 1
      BY <1>0, <1>1, <3>1, <3>2
    <3>3. CASE k \in 1 .. n
      BY <1>0, <1>1, <2>2, <3>1, <3>3 DEF Search, Nested
    <3> QED
      BY <1>3, <3>2, <3>3
  <2> QED
    BY <2>1, <2>2 DEF Nested
<1>5. ASSUME NEW x \in on, NEW y \in g[x], y # w PROVE Pending(fr2, x, y) <=> Pending(fr, x, y)
  <2>1. ASSUME NEW k \in 1 .. n PROVE y \in fr2[k].left <=> y \in fr[k].left
    BY <1>5
  <2>2. x # w /\ fr2[n + 1].v = w
    BY <1>0
  <2>3. ASSUME Pending(fr, x, y) PROVE Pending(fr2, x, y)
    <3>1. PICK k \in 1 .. n : fr[k].v = x /\ y \in fr[k].left
      BY <2>3 DEF Pending
    <3>2. k \in 1 .. Len(fr2) /\ fr2[k].v = x /\ y \in fr2[k].left
      BY <2>1, <3>1
    <3> QED
      BY <3>2 DEF Pending
  <2>4. ASSUME Pending(fr2, x, y) PROVE Pending(fr, x, y)
    <3>1. PICK k \in 1 .. n + 1 : fr2[k].v = x /\ y \in fr2[k].left
      BY <2>4 DEF Pending
    <3>2. k \in 1 .. n
      BY <1>3, <2>2, <3>1
    <3>3. fr[k].v = x /\ y \in fr[k].left
      BY <2>1, <3>1, <3>2
    <3> QED
      BY <3>2, <3>3 DEF Pending
  <2> QED
    BY <2>3, <2>4
<1>6. ASSUME NEW y \in g[w] PROVE Pending(fr2, w, y)
  <2>1. n + 1 \in 1 .. Len(fr2)
    OBVIOUS
  <2> QED
    BY <2>1, <1>6 DEF Pending
<1>7. Visited(g, ind2, on2, fr2)
  <2>1. DOMAIN ind2 \ on2 = DOMAIN ind \ on
    BY <1>0, <1>1
  <2>2. ASSUME NEW x \in on2, NEW y \in g[x] PROVE y \in DOMAIN ind2 \/ Pending(fr2, x, y)
    <3>1. CASE x = w
      BY <1>6, <2>2, <3>1
    <3>2. CASE x \in on /\ y # w
      <4>1. y \in DOMAIN ind \/ Pending(fr, x, y)
        BY <3>2, <2>2 DEF Search, Visited
      <4> QED
        BY <1>1, <1>5, <2>2, <3>2, <4>1
    <3> QED
      BY <1>1, <2>2, <3>1, <3>2
  <2> QED
    BY <2>1, <2>2 DEF Search, Visited
<1>8. Linked(g, ind2, on2, fr2)
  <2>1. ASSUME NEW k \in 1 .. n + 1, NEW x \in on2, ind2[fr2[k].v] <= ind2[x] PROVE Leads(g, fr2[k].v, x)
    <3>1. CASE k = n + 1
      <4>1. ind2[x] >= idx /\ (x \in DOMAIN ind \/ x = w)
        BY <1>0, <1>1, <2>1, <3>1
      <4>2. x = w
        BY <1>0, <1>1, <4>1
      <4> QED
        BY <3>1, <4>2 DEF Leads
    <3>2. CASE k \in 1 .. n /\ x \in on
      <4>1. ind[fr[k].v] <= ind[x]
        BY <1>0, <1>1, <2>1, <3>2
      <4> QED
        BY <3>2, <4>1 DEF Search, Linked
    <3>3. CASE k \in 1 .. n /\ x = w
      <4>1. n \in 1 .. n /\ w \in g[fr[n].v] /\ fr[n].v \in on /\ fr[k].v \in on
        BY <1>0, <3>3
      <4>2. ind[fr[k].v] <= ind[fr[n].v]
        BY <1>0, <3>3, <4>1 DEF Search, Nested
      <4>3. Leads(g, fr[k].v, fr[n].v)
        BY <3>3, <4>1, <4>2 DEF Search, Linked
      <4>4. Leads(g, fr[n].v, w)
        BY <1>0, <4>1, EdgesLead
      <4>5. fr[k].v \in Modules /\ fr[n].v \in Modules
        BY <1>0, <4>1
      <4> QED
        BY <3>3, <4>3, <4>4, <4>5, LeadsOn
    <3> QED
      BY <1>3, <3>1, <3>2, <3>3
  <2>2. ASSUME NEW x \in on2
        PROVE  \E k \in 1 .. n + 1 : ind2[fr2[k].v] <= ind2[x] /\ Leads(g, x, fr2[k].v)
    <3>1. CASE x = w
      BY <3>1, <1>1 DEF Leads
    <3>2. CASE x \in on
      <4>1. PICK k \in 1 .. n : ind[fr[k].v] <= ind[x] /\ Leads(g, x, fr[k].v)
        BY <3>2 DEF Search, Linked
      <4>2. ind2[fr2[k].v] <= ind2[x] /\ fr2[k].v = fr[k].v /\ k \in 1 .. n + 1
        BY <1>0, <1>1, <3>2, <4>1
      <4> QED
        BY <4>1, <4>2
    <3> QED
      BY <3>1, <3>2
  <2> QED
    BY <2>1, <2>2 DEF Linked
<1>9. LowIsReal(g, ind2, low2, on2, fr2)
  <2>1. ASSUME NEW k \in 1 .. n + 1
        PROVE  /\ low2[fr2[k].v] <= ind2[fr2[k].v]
               /\ \E y \in on2 : ind2[y] = low2[fr2[k].v] /\ Leads(g, fr2[k].v, y)
    <3>1. CASE k = n + 1
      BY <1>1, <3>1 DEF Leads
    <3>2. CASE k \in 1 .. n
      <4>1. PICK y \in on : ind[y] = low[fr[k].v] /\ Leads(g, fr[k].v, y)
        BY <3>2 DEF Search, LowIsReal
      <4>2. low[fr[k].v] <= ind[fr[k].v]
        BY <3>2 DEF Search, LowIsReal
      <4> QED
        BY <1>0, <1>1, <3>2, <4>1, <4>2
    <3> QED
      BY <1>3, <3>1, <3>2
  <2> QED
    BY <2>1 DEF LowIsReal
<1>10. LowIsLow(g, ind2, low2, on2, fr2)
  <2>1. ASSUME NEW k \in 1 .. n + 1, NEW x \in on2, NEW y \in on2,
               Part(ind2, fr2, k, x), y \in g[x], ~Pending(fr2, x, y)
        PROVE  low2[fr2[k].v] <= ind2[y]
    <3>1. x \in on
      BY <1>6, <2>1
    <3>2. k \in 1 .. n
      BY <1>0, <1>1, <1>3, <2>1, <3>1 DEF Part
    <3>3. low[fr[k].v] <= ind[fr[k].v] /\ fr[k].v \in on
      BY <1>0, <3>2 DEF Search, LowIsReal
    <3>4. CASE y = w
      <4>1. low2[fr2[k].v] = low[fr[k].v] /\ ind[fr[k].v] < idx
        BY <1>0, <1>1, <3>2, <3>3
      <4> QED
        BY <1>0, <1>1, <3>3, <3>4, <4>1
    <3>5. CASE y # w
      <4>1. ~Pending(fr, x, y) /\ y \in on
        BY <1>5, <2>1, <3>1, <3>5
      <4>2. Part(ind, fr, k, x)
        <5>1. ind[fr[k].v] <= ind[x]
          BY <1>0, <1>1, <2>1, <3>1, <3>2 DEF Part
        <5>2. k < n => ind[x] < ind[fr[k + 1].v]
          <6>1. k < n => k + 1 \in 1 .. n /\ k < Len(fr2)
            BY <3>2
          <6> QED
            BY <1>0, <1>1, <2>1, <3>1, <6>1 DEF Part
        <5> QED
          BY <5>1, <5>2 DEF Part
      <4>3. low[fr[k].v] <= ind[y]
        BY <2>1, <3>1, <3>2, <4>1, <4>2 DEF Search, LowIsLow
      <4> QED
        BY <1>0, <1>1, <3>2, <3>3, <4>1, <4>3
    <3> QED
      BY <3>4, <3>5
  <2> QED
    BY <2>1 DEF LowIsLow
<1> QED
  BY <1>2, <1>4, <1>7, <1>8, <1>9, <1>10 DEF Search

-----------------------------------------------------------------------------
(* The call on top visits a module that has its number *)

LEMMA SearchSees ==
  ASSUME NEW g \in Graph, NEW ind, NEW low, NEW on, NEW fr, Search(g, ind, low, on, fr),
         NEW n \in Nat, n = Len(fr), n > 0,
         NEW w \in DOMAIN ind, w \in fr[n].left,
         NEW fr2 \in Seq(Call), Len(fr2) = n,
         Moved(fr, fr2, w),
         NEW low2, low2 = IF w \in on THEN Lowered(low, fr[n].v, ind[w]) ELSE low
  PROVE  Search(g, ind, low2, on, fr2)
<1> USE DEF Lowered
<1> /\ \A k \in 1 .. n : fr2[k].v = fr[k].v
    /\ \A k \in 1 .. n : fr2[k].left = IF k = n THEN fr[k].left \ {w} ELSE fr[k].left
  BY DEF Moved
<1> DEFINE v == fr[n].v
<1>0. /\ on \subseteq DOMAIN ind /\ DOMAIN ind \subseteq Modules /\ DOMAIN low = DOMAIN ind
      /\ fr \in Seq(Call) /\ n \in 1 .. n
      /\ \A x \in DOMAIN ind : ind[x] \in Nat /\ low[x] \in Nat
      /\ \A k \in 1 .. n : fr[k].v \in on
      /\ w \in g[v]
  BY DEF Search, Numbered, Nested
<1>1. /\ DOMAIN low2 = DOMAIN ind
      /\ \A x \in DOMAIN ind : low2[x] \in Nat /\ low2[x] <= low[x] /\ (x # v => low2[x] = low[x])
      /\ w \in on => low2[v] <= ind[w]
      /\ low2[v] = low[v] \/ (w \in on /\ low2[v] = ind[w])
  BY <1>0 DEF Lesser
<1>2. Numbered(ind, low2, on, fr2)
  <2>1. low2 \in [DOMAIN ind -> Nat]
    BY <1>0 DEF Search, Numbered, Lesser
  <2> QED
    BY <2>1 DEF Search, Numbered
<1>3. Nested(g, ind, on, fr2)
  BY <1>0 DEF Search, Nested
<1>4. ASSUME NEW x \in on, NEW y \in g[x], Pending(fr, x, y), ~Pending(fr2, x, y) PROVE x = v /\ y = w
  BY <1>4 DEF Pending
<1>5. Visited(g, ind, on, fr2)
  BY <1>4 DEF Search, Visited
<1>6. Linked(g, ind, on, fr2)
  BY DEF Search, Linked
<1>7. LowIsReal(g, ind, low2, on, fr2)
  <2>1. ASSUME NEW k \in 1 .. n
        PROVE  /\ low2[fr[k].v] <= ind[fr[k].v]
               /\ \E y \in on : ind[y] = low2[fr[k].v] /\ Leads(g, fr[k].v, y)
    <3>1. PICK y \in on : ind[y] = low[fr[k].v] /\ Leads(g, fr[k].v, y)
      BY DEF Search, LowIsReal
    <3>2. low[fr[k].v] <= ind[fr[k].v] /\ fr[k].v \in DOMAIN ind
      BY <1>0 DEF Search, LowIsReal
    <3>3. CASE low2[fr[k].v] = low[fr[k].v]
      BY <3>1, <3>2, <3>3
    <3>4. CASE low2[fr[k].v] # low[fr[k].v]
      <4>1. fr[k].v = v /\ w \in on /\ low2[v] = ind[w]
        BY <1>1, <3>2, <3>4
      <4>2. Leads(g, v, w)
        BY <1>0, EdgesLead
      <4> QED
        BY <1>0, <1>1, <3>2, <4>1, <4>2
    <3> QED
      BY <3>3, <3>4
  <2> QED
    BY <2>1 DEF LowIsReal
<1>8. LowIsLow(g, ind, low2, on, fr2)
  <2>1. ASSUME NEW k \in 1 .. n, NEW x \in on, NEW y \in on,
               Part(ind, fr2, k, x), y \in g[x], ~Pending(fr2, x, y)
        PROVE  low2[fr2[k].v] <= ind[y]
    <3>1. Part(ind, fr, k, x)
      <4>1. k < n => k + 1 \in 1 .. n
        OBVIOUS
      <4> QED
        BY <2>1, <4>1 DEF Part
    <3>2. CASE ~Pending(fr, x, y)
      <4>1. low[fr[k].v] <= ind[y]
        BY <2>1, <3>1, <3>2 DEF Search, LowIsLow
      <4>2. low2[fr[k].v] <= low[fr[k].v] /\ low2[fr[k].v] \in Nat /\ low[fr[k].v] \in Nat /\ ind[y] \in Nat
        BY <1>0, <1>1
      <4> QED
        BY <4>1, <4>2
    <3>3. CASE Pending(fr, x, y)
      <4>1. x = v /\ y = w
        BY <1>4, <2>1, <3>3
      <4>2. k = n
        <5>1. k < n => k + 1 \in 1 .. n /\ ind[fr[k + 1].v] <= ind[fr[n].v]
          <6>1. k < n => k + 1 \in 1 .. n
            OBVIOUS
          <6>2. k + 1 = n \/ k + 1 < n \/ k = n
            OBVIOUS
          <6> QED
            BY <1>0, <6>1, <6>2 DEF Search, Nested
        <5>2. k < n => ind[v] < ind[fr[k + 1].v]
          BY <3>1, <4>1 DEF Part
        <5> QED
          BY <1>0, <5>1, <5>2
      <4> QED
        BY <1>1, <2>1, <4>1, <4>2
    <3> QED
      BY <3>2, <3>3
  <2> QED
    BY <2>1 DEF LowIsLow
<1> QED
  BY <1>2, <1>3, <1>5, <1>6, <1>7, <1>8 DEF Search

-----------------------------------------------------------------------------
(* The call on top returns *)

\* The modules on the stack from v on.
Above(ind, on, v) == {x \in on : ind[v] <= ind[x]}
Below(ind, on, v) == {x \in on : ind[x] < ind[v]}

\* A call that has visited everything and whose low link is its own number is
\* on top of a strongly connected component.
LEMMA RootIsAComponent ==
  ASSUME NEW g \in Graph, NEW ind, NEW low, NEW on, NEW fr, Search(g, ind, low, on, fr),
         NEW n \in Nat, n = Len(fr), n > 0, fr[n].left = {},
         NEW v, v = fr[n].v, low[v] = ind[v],
         NEW scc, scc = Above(ind, on, v)
  PROVE  /\ v \in scc /\ scc \subseteq Modules
         /\ \A x \in scc : g[x] \subseteq (DOMAIN ind \ on) \cup scc
         /\ \A x \in scc : Leads(g, v, x) /\ Leads(g, x, v)
         /\ \A x \in Modules : Leads(g, v, x) /\ Leads(g, x, v) => x \in scc
<1> USE DEF Above
<1> DEFINE done == DOMAIN ind \ on
<1>0. /\ on \subseteq DOMAIN ind /\ DOMAIN ind \subseteq Modules
      /\ fr \in Seq(Call) /\ n \in 1 .. n
      /\ \A x \in DOMAIN ind : ind[x] \in Nat /\ low[x] \in Nat
      /\ \A k \in 1 .. n : fr[k].v \in on
      /\ v \in on
  BY DEF Search, Numbered, Nested
<1>1. v \in scc /\ scc \subseteq Modules
  BY <1>0
<1>2. ASSUME NEW x \in scc, NEW y \in g[x] PROVE y \in done \cup scc /\ ~Pending(fr, x, y)
  <2>1. ~Pending(fr, x, y)
    <3> SUFFICES ASSUME NEW k \in 1 .. n, fr[k].v = x, y \in fr[k].left PROVE FALSE
      BY DEF Pending
    <3>1. k = n
      <4>1. k < n => ind[fr[k].v] < ind[v]
        BY <1>0 DEF Search, Nested
      <4> QED
        BY <1>0, <1>2, <4>1
    <3> QED
      BY <3>1
  <2>2. y \in DOMAIN ind
    BY <1>2, <2>1 DEF Search, Visited
  <2>3. y \in on => low[v] <= ind[y]
    <3>1. Part(ind, fr, n, x)
      BY <1>2 DEF Part
    <3> QED
      BY <1>0, <1>2, <2>1, <3>1 DEF Search, LowIsLow
  <2> QED
    BY <2>1, <2>2, <2>3
<1>3. Closed(g, done) /\ Closed(g, done \cup scc) /\ done \cup scc \in SUBSET Modules
  BY <1>0, <1>2 DEF Closed, Search, Visited
<1>4. ASSUME NEW x \in scc PROVE Leads(g, v, x) /\ Leads(g, x, v)
  <2>1. Leads(g, v, x)
    BY <1>0, <1>4 DEF Search, Linked
  <2>2. PICK k \in 1 .. n : ind[fr[k].v] <= ind[x] /\ Leads(g, x, fr[k].v)
    BY <1>4 DEF Search, Linked
  <2>3. fr[k].v \in done \cup scc
    <3>1. x \in done \cup scc
      BY <1>4
    <3> HIDE DEF done
    <3> QED
      BY <1>3, <2>2, <3>1, LeadsInside
  <2>4. ind[v] <= ind[fr[k].v]
    BY <1>0, <2>3
  <2>5. k = n
    <3>1. k < n => ind[fr[k].v] < ind[v]
      BY <1>0 DEF Search, Nested
    <3> QED
      BY <1>0, <2>4, <3>1
  <2> QED
    BY <2>1, <2>2, <2>5
<1>5. ASSUME NEW x \in Modules, Leads(g, v, x), Leads(g, x, v) PROVE x \in scc
  <2>1. x \in done \cup scc
    <3>1. v \in done \cup scc
      BY <1>1
    <3> HIDE DEF done
    <3> QED
      BY <1>3, <1>5, <3>1, LeadsInside
  <2>2. x \notin done
    <3>1. v \notin done /\ done \in SUBSET Modules
      BY <1>0
    <3> HIDE DEF done
    <3> QED
      BY <1>3, <1>5, <3>1, LeadsInside
  <2> QED
    BY <2>1, <2>2
<1> QED
  BY <1>1, <1>2, <1>4, <1>5


\* The component is popped.
LEMMA SearchPops ==
  ASSUME NEW g \in Graph, NEW ind, NEW low, NEW on, NEW fr, Search(g, ind, low, on, fr),
         NEW n \in Nat, n = Len(fr), n > 0, fr[n].left = {},
         NEW v, v = fr[n].v, low[v] = ind[v],
         NEW fr2 \in Seq(Call), Dropped(fr, fr2),
         NEW on2, on2 = Below(ind, on, v)
  PROVE  Search(g, ind, low, on2, fr2)
<1> USE DEF Dropped, Below
<1> DEFINE scc == {x \in on : ind[v] <= ind[x]}
           done == DOMAIN ind \ on
           done2 == DOMAIN ind \ on2
<1>0. /\ on \subseteq DOMAIN ind /\ DOMAIN ind \subseteq Modules
      /\ fr \in Seq(Call) /\ n \in 1 .. n /\ 1 .. n - 1 \subseteq 1 .. n
      /\ \A x \in DOMAIN ind : ind[x] \in Nat /\ low[x] \in Nat
      /\ \A k \in 1 .. n : fr[k].v \in on
      /\ v \in on
  BY DEF Search, Numbered, Nested
<1>1. \A k \in 1 .. n - 1 : fr[k].v \in on2 /\ ind[fr[k].v] < ind[v]
  BY <1>0 DEF Search, Nested
<1>2. Numbered(ind, low, on2, fr2)
  BY DEF Search, Numbered
<1>3. Nested(g, ind, on2, fr2)
  BY <1>0, <1>1 DEF Search, Nested
<1>4. ASSUME NEW x \in on2, NEW y PROVE Pending(fr2, x, y) <=> Pending(fr, x, y)
  <2>1. \A k \in 1 .. n : k \in 1 .. n - 1 \/ k = n
    OBVIOUS
  <2> QED
    BY <1>0, <2>1 DEF Pending
<1>5. Visited(g, ind, on2, fr2)
  <2>1. done2 = done \cup scc
    BY <1>0
  <2>2. \A x \in scc : g[x] \subseteq done \cup scc
    <3>1. \A x \in Above(ind, on, v) : g[x] \subseteq (DOMAIN ind \ on) \cup Above(ind, on, v)
      BY RootIsAComponent
    <3> QED
      BY <3>1 DEF Above
  <2>3. \A x \in done : g[x] \subseteq done
    BY DEF Search, Visited
  <2>4. \A x \in done2 : g[x] \subseteq done2
    <3> HIDE DEF done, done2, scc
    <3> QED
      BY <2>1, <2>2, <2>3
  <2>5. \A x \in on2 : \A y \in g[x] : y \in DOMAIN ind \/ Pending(fr2, x, y)
    BY <1>4 DEF Search, Visited
  <2> QED
    BY <2>4, <2>5 DEF Visited
<1>6. Linked(g, ind, on2, fr2)
  <2>1. ASSUME NEW k \in 1 .. n - 1, NEW x \in on2, ind[fr2[k].v] <= ind[x] PROVE Leads(g, fr2[k].v, x)
    BY <1>0, <2>1 DEF Search, Linked
  <2>2. ASSUME NEW x \in on2 PROVE \E k \in 1 .. n - 1 : ind[fr2[k].v] <= ind[x] /\ Leads(g, x, fr2[k].v)
    <3>1. PICK k \in 1 .. n : ind[fr[k].v] <= ind[x] /\ Leads(g, x, fr[k].v)
      BY <2>2 DEF Search, Linked
    <3>2. k # n
      BY <1>0, <2>2, <3>1
    <3>3. k \in 1 .. n - 1
      BY <3>2
    <3> QED
      BY <3>1, <3>3
  <2> QED
    BY <2>1, <2>2 DEF Linked
<1>7. LowIsReal(g, ind, low, on2, fr2)
  <2>1. ASSUME NEW k \in 1 .. n - 1
        PROVE  /\ low[fr[k].v] <= ind[fr[k].v]
               /\ \E y \in on2 : ind[y] = low[fr[k].v] /\ Leads(g, fr[k].v, y)
    <3>1. PICK y \in on : ind[y] = low[fr[k].v] /\ Leads(g, fr[k].v, y)
      BY <1>0 DEF Search, LowIsReal
    <3>2. low[fr[k].v] <= ind[fr[k].v]
      BY <1>0 DEF Search, LowIsReal
    <3>3. y \in on2
      BY <1>0, <1>1, <3>1, <3>2
    <3> QED
      BY <3>1, <3>2, <3>3
  <2> QED
    BY <2>1 DEF LowIsReal
<1>8. LowIsLow(g, ind, low, on2, fr2)
  <2>1. ASSUME NEW k \in 1 .. n - 1, NEW x \in on2, NEW y \in on2,
               Part(ind, fr2, k, x), y \in g[x], ~Pending(fr2, x, y)
        PROVE  low[fr2[k].v] <= ind[y]
    <3>1. Part(ind, fr, k, x)
      <4>1. k + 1 \in 1 .. n - 1 \/ k + 1 = n
        OBVIOUS
      <4> QED
        BY <2>1, <4>1 DEF Part
    <3> QED
      BY <1>0, <1>4, <2>1, <3>1 DEF Search, LowIsLow
  <2> QED
    BY <2>1 DEF LowIsLow
<1> QED
  BY <1>2, <1>3, <1>5, <1>6, <1>7, <1>8 DEF Search

\* The caller goes on with a part of the stack that the call has grown.
LEMMA SearchReturns ==
  ASSUME NEW g \in Graph, NEW ind, NEW low, NEW on, NEW fr, Search(g, ind, low, on, fr),
         NEW n \in Nat, n = Len(fr), n > 0, fr[n].left = {},
         NEW v, v = fr[n].v, low[v] # ind[v],
         NEW fr2 \in Seq(Call), Dropped(fr, fr2),
         NEW low2, low2 = Lowered(low, fr[n - 1].v, low[v])
  PROVE  n > 1 /\ Search(g, ind, low2, on, fr2)
<1> USE DEF Dropped, Lowered
<1>0. /\ on \subseteq DOMAIN ind /\ DOMAIN ind \subseteq Modules /\ DOMAIN low = DOMAIN ind
      /\ fr \in Seq(Call) /\ n \in 1 .. n /\ 1 .. n - 1 \subseteq 1 .. n
      /\ \A x \in DOMAIN ind : ind[x] \in Nat /\ low[x] \in Nat
      /\ \A k \in 1 .. n : fr[k].v \in on
      /\ v \in on
  BY DEF Search, Numbered, Nested
<1>1. PICK z \in on : ind[z] = low[v] /\ ind[z] < ind[v] /\ Leads(g, v, z)
  BY <1>0 DEF Search, LowIsReal
<1>2. PICK c \in 1 .. n : ind[fr[c].v] <= ind[z] /\ Leads(g, z, fr[c].v)
  BY DEF Search, Linked
<1>3. c # n
  BY <1>0, <1>1, <1>2
<1>4. n > 1 /\ c \in 1 .. n - 1 /\ n - 1 \in 1 .. n - 1 /\ n - 1 \in 1 .. n
  BY <1>3
<1> DEFINE u == fr[n - 1].v
<1>5. /\ u \in on /\ DOMAIN low2 = DOMAIN ind
      /\ \A x \in DOMAIN ind : low2[x] \in Nat /\ low2[x] <= low[x] /\ (x # u => low2[x] = low[x])
      /\ low2[u] <= low[v]
      /\ low2[u] = low[u] \/ low2[u] = low[v]
  <2>1. u \in DOMAIN low /\ v \in DOMAIN low /\ low[u] \in Nat /\ low[v] \in Nat
    BY <1>0, <1>4
  <2>2. DOMAIN low2 = DOMAIN low /\ low2[u] = Lesser(low[u], low[v])
    BY <2>1
  <2>3. \A x \in DOMAIN ind : x # u => low2[x] = low[x]
    BY <1>0
  <2> QED
    BY <1>0, <1>4, <2>1, <2>2, <2>3 DEF Lesser
<1>6. Numbered(ind, low2, on, fr2)
  <2>1. low2 \in [DOMAIN ind -> Nat]
    BY <1>5
  <2> QED
    BY <2>1 DEF Search, Numbered
<1>7. Nested(g, ind, on, fr2)
  BY <1>0 DEF Search, Nested
<1>8. ASSUME NEW x, NEW y PROVE Pending(fr2, x, y) <=> Pending(fr, x, y)
  <2>1. \A k \in 1 .. n : k \in 1 .. n - 1 \/ k = n
    OBVIOUS
  <2> QED
    BY <1>0, <2>1 DEF Pending
<1>9. Visited(g, ind, on, fr2)
  BY <1>8 DEF Search, Visited
<1>10. Linked(g, ind, on, fr2)
  <2>1. ASSUME NEW k \in 1 .. n - 1, NEW x \in on, ind[fr2[k].v] <= ind[x] PROVE Leads(g, fr2[k].v, x)
    BY <1>0, <2>1 DEF Search, Linked
  <2>2. ASSUME NEW x \in on PROVE \E k \in 1 .. n - 1 : ind[fr2[k].v] <= ind[x] /\ Leads(g, x, fr2[k].v)
    <3>1. PICK k \in 1 .. n : ind[fr[k].v] <= ind[x] /\ Leads(g, x, fr[k].v)
      BY <2>2 DEF Search, Linked
    <3>2. CASE k # n
      <4>1. k \in 1 .. n - 1
        BY <3>2
      <4> QED
        BY <3>1, <4>1
    <3>3. CASE k = n
      <4>1. x \in Modules /\ v \in Modules /\ z \in Modules /\ fr[c].v \in Modules
        BY <1>0
      <4>2. Leads(g, x, v)
        BY <3>1, <3>3
      <4>3. Leads(g, x, z)
        BY <1>1, <4>1, <4>2, LeadsOn
      <4>4. Leads(g, x, fr[c].v)
        BY <1>2, <4>1, <4>3, LeadsOn
      <4>5. ind[fr[c].v] <= ind[x]
        BY <1>0, <1>1, <1>2, <3>1, <3>3
      <4> QED
        BY <1>4, <4>4, <4>5
    <3> QED
      BY <3>2, <3>3
  <2> QED
    BY <2>1, <2>2 DEF Linked
<1>11. LowIsReal(g, ind, low2, on, fr2)
  <2>1. ASSUME NEW k \in 1 .. n - 1
        PROVE  /\ low2[fr[k].v] <= ind[fr[k].v]
               /\ \E y \in on : ind[y] = low2[fr[k].v] /\ Leads(g, fr[k].v, y)
    <3>1. PICK y \in on : ind[y] = low[fr[k].v] /\ Leads(g, fr[k].v, y)
      BY <1>0 DEF Search, LowIsReal
    <3>2. low[fr[k].v] <= ind[fr[k].v] /\ fr[k].v \in DOMAIN ind
      BY <1>0 DEF Search, LowIsReal
    <3>3. low2[fr[k].v] <= ind[fr[k].v]
      <4>1. /\ low2[fr[k].v] <= low[fr[k].v]
            /\ low2[fr[k].v] \in Nat /\ low[fr[k].v] \in Nat /\ ind[fr[k].v] \in Nat
        BY <1>0, <1>5, <3>2
      <4> QED
        BY <3>2, <4>1
    <3>4. CASE low2[fr[k].v] = low[fr[k].v]
      BY <3>1, <3>3, <3>4
    <3>5. CASE low2[fr[k].v] # low[fr[k].v]
      <4>1. fr[k].v = u /\ low2[u] = low[v]
        BY <1>5, <3>2, <3>5
      <4>2. ind[u] < ind[v] /\ u \in Modules /\ v \in Modules /\ z \in Modules
        BY <1>0, <1>4 DEF Search, Nested
      <4>3. Leads(g, u, v)
        <5>1. ind[u] <= ind[v] /\ n - 1 \in 1 .. Len(fr)
          BY <1>0, <1>4, <4>2
        <5>2. \A k2 \in 1 .. Len(fr) : \A x \in on : ind[fr[k2].v] <= ind[x] => Leads(g, fr[k2].v, x)
          BY DEF Search, Linked
        <5> QED
          BY <1>0, <5>1, <5>2
      <4>4. Leads(g, u, z)
        BY <1>1, <4>2, <4>3, LeadsOn
      <4> QED
        BY <1>1, <3>3, <4>1, <4>4
    <3> QED
      BY <3>4, <3>5
  <2> QED
    BY <2>1 DEF LowIsReal
<1>12. LowIsLow(g, ind, low2, on, fr2)
  <2>1. ASSUME NEW k \in 1 .. n - 1, NEW x \in on, NEW y \in on,
               Part(ind, fr2, k, x), y \in g[x], ~Pending(fr2, x, y)
        PROVE  low2[fr2[k].v] <= ind[y]
    <3>1. ~Pending(fr, x, y) /\ ind[x] \in Nat /\ ind[y] \in Nat /\ ind[v] \in Nat
      BY <1>0, <1>8, <2>1
    <3>2. fr[k].v \in DOMAIN ind /\ low2[fr[k].v] <= low[fr[k].v]
      BY <1>0, <1>5
    <3>3. CASE Part(ind, fr, k, x)
      <4>1. low[fr[k].v] <= ind[y]
        BY <1>0, <2>1, <3>1, <3>3 DEF Search, LowIsLow
      <4>2. fr2[k] = fr[k] /\ low2[fr[k].v] \in Nat /\ low[fr[k].v] \in Nat
        BY <1>0, <1>5, <3>2
      <4> QED
        BY <3>1, <3>2, <4>1, <4>2
    <3>4. CASE ~Part(ind, fr, k, x)
      <4>1. k = n - 1
        <5>1. k < n - 1 => k + 1 \in 1 .. n - 1
          OBVIOUS
        <5> QED
          BY <2>1, <3>4, <5>1 DEF Part
      <4>2. ind[v] <= ind[x]
        BY <2>1, <3>1, <3>4, <4>1 DEF Part
      <4>3. Part(ind, fr, n, x)
        BY <4>2 DEF Part
      <4>4. low[v] <= ind[y]
        BY <1>0, <2>1, <3>1, <4>3 DEF Search, LowIsLow
      <4>5. low2[u] <= low[v] /\ low2[u] \in Nat /\ low[v] \in Nat
        BY <1>0, <1>5
      <4> QED
        BY <3>1, <4>1, <4>4, <4>5
    <3> QED
      BY <3>3, <3>4
  <2> QED
    BY <2>1 DEF LowIsLow
<1> QED
  BY <1>4, <1>6, <1>7, <1>9, <1>10, <1>11, <1>12 DEF Search

-----------------------------------------------------------------------------
(* Components and the reported cycles *)

LEMMA ModulesAreFinite == IsFiniteSet(Modules)
<1> DEFINE f == [i \in DOMAIN Order |-> Order[i]]
<1>1. IsFiniteSet(DOMAIN Order)
  <2>1. Len(Order) \in Int /\ DOMAIN Order = 1 .. Len(Order)
    BY TreesAssumption
  <2> QED
    BY <2>1, FS_Interval
<1>2. f \in Surjection(DOMAIN Order, Modules)
  BY DEF Surjection, Modules
<1> QED
  BY <1>1, <1>2, FS_Surjection

\* What is strongly connected with a module of a cycle is its component.
LEMMA ComponentOfCycle ==
  ASSUME NEW g \in Graph, NEW S \in SUBSET Modules, NEW v \in S, v \in Reach(g, v),
         \A x \in S : Leads(g, v, x) /\ Leads(g, x, v),
         \A x \in Modules : Leads(g, v, x) /\ Leads(g, x, v) => x \in S,
         NEW m \in S
  PROVE  m \in Reach(g, m) /\ Component(g, m) = S
<1>1. ASSUME NEW x \in S, NEW y \in S PROVE y \in Reach(g, x)
  <2>1. x \in Modules /\ y \in Modules /\ v \in Modules /\ Leads(g, x, v) /\ Leads(g, v, y)
    OBVIOUS
  <2>2. v \in Reach(g, x)
    BY <2>1 DEF Leads
  <2>3. Closed(g, Reach(g, x)) /\ Reach(g, x) \in SUBSET Modules
    BY <2>1, ReachIsClosed
  <2> QED
    BY <2>1, <2>2, <2>3, LeadsInside
<1>2. ASSUME NEW w \in Component(g, m) PROVE w \in S
  <2>1. w \in Reach(g, m) /\ m \in Reach(g, w) /\ w \in Modules /\ v \in Modules /\ m \in Modules
    BY ReachIsClosed DEF Component
  <2>2. Leads(g, v, m) /\ Leads(g, m, w) /\ Leads(g, w, m) /\ Leads(g, m, v)
    BY <2>1 DEF Leads
  <2>3. Leads(g, v, w) /\ Leads(g, w, v)
    BY <2>1, <2>2, LeadsOn
  <2> QED
    BY <2>1, <2>3
<1>3. S \subseteq Component(g, m)
  BY <1>1 DEF Component
<1> QED
  BY <1>1, <1>2, <1>3

\* A component of one module that does not import itself is no cycle.
LEMMA NoCycleAlone ==
  ASSUME NEW g \in Graph, NEW v \in Modules, NEW done \in SUBSET Modules, Closed(g, done),
         v \notin done, g[v] \subseteq done
  PROVE  v \notin Reach(g, v)
BY ReachIsLeast

\* The modules of done that are in a cycle have been reported, each component once.
Cyclic(g, done) == {x \in done : x \in Reach(g, x)}
Reported(g, done, cyc) ==
  /\ cyc \in Seq(SUBSET Modules)
  /\ {cyc[i] : i \in DOMAIN cyc} = {Component(g, m) : m \in Cyclic(g, done)}
  /\ \A i, j \in DOMAIN cyc : cyc[i] = cyc[j] => i = j

\* Reporting the component S, if it is a cycle, after those of done.
LEMMA ReportsComponent ==
  ASSUME NEW g \in Graph, NEW done \in SUBSET Modules, Closed(g, done),
         NEW S \in SUBSET Modules, NEW v \in S, S \cap done = {},
         \A x \in S : g[x] \subseteq done \cup S,
         \A x \in S : Leads(g, v, x) /\ Leads(g, x, v),
         \A x \in Modules : Leads(g, v, x) /\ Leads(g, x, v) => x \in S,
         NEW cyc, Reported(g, done, cyc),
         NEW cyc2, cyc2 = IF Cardinality(S) > 1 \/ v \in g[v] THEN Append(cyc, S) ELSE cyc
  PROVE  Reported(g, done \cup S, cyc2)
<1>0. cyc \in Seq(SUBSET Modules) /\ v \in Modules /\ g[v] \subseteq Modules
  BY DEF Reported, Graph
<1>1. CASE Cardinality(S) > 1 \/ v \in g[v]
  <2>1. v \in Reach(g, v)
    <3>1. CASE v \in g[v]
      BY <1>0, <3>1, ReachIsClosed
    <3>2. CASE Cardinality(S) > 1
      <4>1. PICK x \in S : x # v
        <5>1. S = {v} => Cardinality(S) = 1
          BY FS_Singleton
        <5> QED
          BY <3>2, <5>1
      <4>2. x \in Reach(g, v) /\ v \in Reach(g, x) /\ x \in Modules
        BY <4>1 DEF Leads
      <4>3. Closed(g, Reach(g, v)) /\ Reach(g, v) \in SUBSET Modules /\ Leads(g, x, v)
        BY <1>0, ReachIsClosed
      <4> QED
        BY <4>2, <4>3, LeadsInside
    <3> QED
      BY <1>1, <3>1, <3>2
  <2>2. \A m \in S : m \in Reach(g, m) /\ Component(g, m) = S
    BY <2>1, ComponentOfCycle
  <2>3. {Component(g, m) : m \in Cyclic(g, done \cup S)} = {Component(g, m) : m \in Cyclic(g, done)} \cup {S}
    BY <2>2 DEF Cyclic
  <2>4. /\ cyc2 = Append(cyc, S) /\ cyc2 \in Seq(SUBSET Modules) /\ Len(cyc2) = Len(cyc) + 1
        /\ DOMAIN cyc = 1 .. Len(cyc) /\ DOMAIN cyc2 = 1 .. Len(cyc) + 1 /\ Len(cyc) \in Nat
        /\ \A i \in 1 .. Len(cyc) : cyc2[i] = cyc[i]
        /\ cyc2[Len(cyc) + 1] = S
    BY <1>0, <1>1
  <2>5. {cyc2[i] : i \in DOMAIN cyc2} = {cyc[i] : i \in DOMAIN cyc} \cup {S}
    BY <2>4
  <2>6. ASSUME NEW i \in DOMAIN cyc PROVE cyc[i] # S
    <3>1. PICK m \in Cyclic(g, done) : cyc[i] = Component(g, m)
      BY DEF Reported
    <3>2. m \in done /\ m \in Modules /\ m \in Reach(g, m)
      BY <3>1 DEF Cyclic
    <3>3. Reach(g, m) \subseteq done
      BY <3>2, ReachIsLeast DEF Closed
    <3>4. m \in Component(g, m)
      BY <3>2 DEF Component
    <3> QED
      BY <3>1, <3>2, <3>4
  <2>7. \A i, j \in DOMAIN cyc2 : cyc2[i] = cyc2[j] => i = j
    <3>1. \A i \in DOMAIN cyc2 : i \in DOMAIN cyc \/ i = Len(cyc) + 1
      BY <2>4
    <3> QED
      BY <2>4, <2>6, <3>1 DEF Reported
  <2> QED
    BY <2>3, <2>4, <2>5, <2>7 DEF Reported
<1>2. CASE ~(Cardinality(S) > 1 \/ v \in g[v])
  <2>1. S = {v}
    <3>1. IsFiniteSet(S)
      BY ModulesAreFinite, FS_Subset
    <3>2. Cardinality(S) \in Nat /\ (Cardinality(S) = 0 <=> S = {}) /\ (Cardinality(S) = 1 <=> \E x : S = {x})
      BY <3>1, FS_CardinalityType, FS_EmptySet, FS_Singleton
    <3> QED
      BY <1>2, <3>2
  <2>2. v \notin Reach(g, v)
    <3>1. g[v] \subseteq done /\ v \notin done
      BY <1>2, <2>1
    <3> QED
      BY <1>0, <3>1, NoCycleAlone
  <2>3. Cyclic(g, done \cup S) = Cyclic(g, done)
    BY <2>1, <2>2 DEF Cyclic
  <2> QED
    BY <1>2, <2>3 DEF Reported
<1> QED
  BY <1>1, <1>2

-----------------------------------------------------------------------------
(* The stack of modules, in the order of their numbers *)

Elements(st) == {st[i] : i \in DOMAIN st}
From(st, at) == {st[i] : i \in at .. Len(st)}
Sorted(ind, st) ==
  /\ st \in Seq(Modules)
  /\ \A i, j \in 1 .. Len(st) : i < j => ind[st[i]] < ind[st[j]]

\* The first k elements of a sequence.
LEMMA FrontOf ==
  ASSUME NEW S, NEW s \in Seq(S), NEW k \in 0 .. Len(s)
  PROVE  /\ SubSeq(s, 1, k) \in Seq(S) /\ Len(SubSeq(s, 1, k)) = k
         /\ \A i \in 1 .. k : SubSeq(s, 1, k)[i] = s[i]
OBVIOUS

\* A new module has the greatest number and goes on top.
LEMMA StackGrows ==
  ASSUME NEW ind, NEW st, Sorted(ind, st), Elements(st) \subseteq DOMAIN ind,
         NEW w \in Modules, w \notin DOMAIN ind, NEW idx, \A x \in DOMAIN ind : ind[x] < idx,
         NEW ind2, ind2 = Insert(ind, w, idx)
  PROVE  Sorted(ind2, Append(st, w)) /\ Elements(Append(st, w)) = Elements(st) \cup {w}
<1> USE DEF Insert
<1> DEFINE s2 == Append(st, w)
           n == Len(st)
<1>1. /\ s2 \in Seq(Modules) /\ Len(s2) = n + 1 /\ s2[n + 1] = w
      /\ \A i \in 1 .. n : s2[i] = st[i]
      /\ n \in Nat /\ DOMAIN s2 = 1 .. n + 1 /\ DOMAIN st = 1 .. n
  BY DEF Sorted
<1>2. \A i \in 1 .. n : st[i] \in DOMAIN ind /\ ind2[st[i]] = ind[st[i]]
  BY <1>1 DEF Elements
<1>3. ind2[w] = idx
  OBVIOUS
<1> HIDE DEF s2, n
<1>4. ASSUME NEW i \in 1 .. n + 1, NEW j \in 1 .. n + 1, i < j PROVE ind2[s2[i]] < ind2[s2[j]]
  <2>1. i \in 1 .. n /\ (j \in 1 .. n \/ j = n + 1)
    BY <1>1, <1>4
  <2>2. CASE j = n + 1
    BY <1>1, <1>2, <1>3, <2>1, <2>2
  <2>3. CASE j \in 1 .. n
    <3>1. ind[st[i]] < ind[st[j]]
      BY <1>4, <2>1, <2>3 DEF Sorted, n
    <3> QED
      BY <1>1, <1>2, <2>1, <2>3, <3>1
  <2> QED
    BY <2>1, <2>2, <2>3
<1>5. Elements(s2) = Elements(st) \cup {w}
  BY <1>1 DEF Elements
<1>6. Sorted(ind2, s2)
  BY <1>1, <1>4 DEF Sorted
<1> QED
  BY <1>5, <1>6 DEF s2

\* What is popped down to v are the modules numbered from v on.
LEMMA StackSplits ==
  ASSUME NEW ind, NEW st, Sorted(ind, st), Elements(st) \subseteq DOMAIN ind,
         \A x \in DOMAIN ind : ind[x] \in Nat,
         NEW at \in 1 .. Len(st), NEW v, v = st[at]
  PROVE  /\ From(st, at) = Above(ind, Elements(st), v)
         /\ Sorted(ind, SubSeq(st, 1, at - 1))
         /\ Elements(SubSeq(st, 1, at - 1)) = Below(ind, Elements(st), v)
<1> USE DEF From, Below
<1> DEFINE s2 == SubSeq(st, 1, at - 1)
           n == Len(st)
<1>0. n \in Nat /\ DOMAIN st = 1 .. n /\ st \in Seq(Modules)
  BY DEF Sorted
<1>1. \A i \in 1 .. n : st[i] \in Modules
  BY <1>0
<1>2. /\ s2 \in Seq(Modules) /\ Len(s2) = at - 1 /\ DOMAIN s2 = 1 .. at - 1
      /\ \A i \in 1 .. at - 1 : s2[i] = st[i]
  BY <1>0, <1>1, SubSeqProperties
<1>3. \A i \in 1 .. n : ind[st[i]] \in Nat
  BY <1>0 DEF Elements
<1>4. \A i \in 1 .. n : i < at => ind[st[i]] < ind[v]
  BY DEF Sorted
<1>5. \A i \in 1 .. n : at <= i => ind[v] <= ind[st[i]]
  BY <1>0, <1>3 DEF Sorted
<1> HIDE DEF s2, n
<1>6. {st[i] : i \in at .. n} = Above(ind, Elements(st), v)
  BY <1>0, <1>3, <1>4, <1>5 DEF Elements, Above, n
<1>7. Sorted(ind, s2)
  BY <1>0, <1>2 DEF Sorted, n
<1>8. Elements(s2) = {x \in Elements(st) : ind[x] < ind[v]}
  <2>1. ASSUME NEW x \in Elements(s2) PROVE x \in Elements(st) /\ ind[x] < ind[v]
    <3>1. PICK i \in 1 .. at - 1 : x = st[i]
      BY <1>2 DEF Elements
    <3>2. i \in 1 .. n /\ i < at
      BY <1>0 DEF n
    <3> QED
      BY <1>0, <1>4, <3>1, <3>2 DEF Elements
  <2>2. ASSUME NEW x \in Elements(st), ind[x] < ind[v] PROVE x \in Elements(s2)
    <3>1. PICK i \in 1 .. n : x = st[i]
      BY <1>0 DEF Elements
    <3>2. ind[v] \in Nat /\ ind[x] \in Nat
      BY <1>3, <3>1 DEF n
    <3>3. i \in 1 .. at - 1
      BY <1>0, <1>5, <2>2, <3>1, <3>2
    <3> QED
      BY <1>2, <3>1, <3>3 DEF Elements
  <2> QED
    BY <2>1, <2>2
<1> QED
  BY <1>6, <1>7, <1>8 DEF s2, n

-----------------------------------------------------------------------------
(* detectImportCycles *)

On == Elements(sccStack)
Done == DOMAIN indices \ On
Counted(ind) == \A x \in DOMAIN ind : ind[x] < Cardinality(DOMAIN ind)

\* Before the pass the search has not begun, after it every module was visited.
Idle ==
  /\ indices = [m \in {} |-> 0] /\ lowlink = [m \in {} |-> 0]
  /\ sccStack = <<>> /\ frames = <<>> /\ cycles = <<>>

CyclesInv ==
  /\ edges \in Graph
  /\ pass.name \in {"start", "index", "imports"} => Idle
  /\ pass.name \in {"paths", "visibility", "done"} => frames = <<>> /\ DOMAIN indices = Modules
  /\ Search(edges, indices, lowlink, On, frames)
  /\ Sorted(indices, sccStack) /\ Counted(indices)
  /\ Reported(edges, Done, cycles)

\* A search that has not begun.
LEMMA IdleSearch ==
  ASSUME edges \in Graph, Idle
  PROVE  /\ Search(edges, indices, lowlink, On, frames)
         /\ Sorted(indices, sccStack) /\ Counted(indices)
         /\ Reported(edges, Done, cycles)
<1>0. On = {} /\ DOMAIN indices = {} /\ frames = <<>> /\ sccStack = <<>> /\ cycles = <<>> /\ Done = {}
  BY DEF Idle, On, Elements, Done
<1>1. Numbered(indices, lowlink, On, frames)
  BY <1>0 DEF Numbered, Idle
<1>2. Len(frames) = 0 /\ 1 .. Len(frames) = {}
  BY <1>0
<1>3. /\ Nested(edges, indices, On, frames) /\ Visited(edges, indices, On, frames)
      /\ Linked(edges, indices, On, frames) /\ LowIsReal(edges, indices, lowlink, On, frames)
      /\ LowIsLow(edges, indices, lowlink, On, frames)
  BY <1>0, <1>2 DEF Nested, Visited, Linked, LowIsReal, LowIsLow
<1>4. Sorted(indices, sccStack) /\ Counted(indices)
  BY <1>0 DEF Sorted, Counted
<1>5. Reported(edges, Done, cycles)
  BY <1>0 DEF Reported, Cyclic
<1> QED
  BY <1>1, <1>3, <1>4, <1>5 DEF Search

\* strong(w) begins.
LEMMA EnterKeeps ==
  ASSUME CyclesInv, NEW w \in Modules, ~Seen(w), NEW callers \in Seq(Call), Enter(w, callers),
         edges' = edges, cycles' = cycles,
         Len(callers) = Len(frames),
         Len(frames) > 0 => w \in edges[frames[Len(frames)].v],
         Moved(frames, callers, w)
  PROVE  /\ Search(edges, indices', lowlink', On', frames')
         /\ Sorted(indices', sccStack') /\ Counted(indices')
         /\ Reported(edges, Done', cycles')
<1> DEFINE idx == Cardinality(DOMAIN indices)
<1>0. /\ edges \in Graph /\ Search(edges, indices, lowlink, On, frames) /\ Sorted(indices, sccStack)
      /\ Counted(indices) /\ w \notin DOMAIN indices
      /\ On \subseteq DOMAIN indices /\ DOMAIN indices \in SUBSET Modules
      /\ frames \in Seq(Call) /\ DOMAIN lowlink = DOMAIN indices
  BY DEF CyclesInv, Search, Numbered, Seen
<1>1. IsFiniteSet(DOMAIN indices) /\ idx \in Nat
  BY <1>0, ModulesAreFinite, FS_Subset, FS_CardinalityType
<1>2. \A x \in DOMAIN indices : indices[x] < idx
  BY <1>0 DEF Counted
<1>3. /\ indices' = Insert(indices, w, idx) /\ lowlink' = Insert(lowlink, w, idx)
      /\ sccStack' = Append(sccStack, w)
      /\ frames' = Append(callers, [v |-> w, left |-> edges[w]])
  BY DEF Enter
<1>4. /\ frames' \in Seq(Call) /\ Len(frames') = Len(frames) + 1
      /\ frames'[Len(frames) + 1].v = w /\ frames'[Len(frames) + 1].left = edges[w]
      /\ \A k \in 1 .. Len(frames) : frames'[k] = callers[k]
  <2>1. [v |-> w, left |-> edges[w]] \in Call /\ Len(frames) \in Nat
    BY <1>0 DEF Call, Graph
  <2> QED
    BY <1>3, <2>1
<1> HIDE DEF idx
<1>5. Sorted(indices', sccStack') /\ On' = On \cup {w}
  BY <1>0, <1>2, <1>3, StackGrows DEF On
<1>6. Search(edges, indices', lowlink', On \cup {w}, frames')
  <2>1. Len(frames) \in Nat
    BY <1>0
  <2>2. Moved(frames, frames', w)
    BY <1>4 DEF Moved
  <2> QED
    BY <1>0, <1>1, <1>2, <1>3, <1>4, <2>1, <2>2, SearchEnters
<1>7. DOMAIN indices' = DOMAIN indices \cup {w} /\ Done' = Done
  BY <1>0, <1>3, <1>5 DEF Done, Insert
<1>8. Counted(indices')
  <2>1. Cardinality(DOMAIN indices') = idx + 1
    <3>1. Cardinality(DOMAIN indices \cup {w}) = Cardinality(DOMAIN indices) + 1
      BY <1>0, <1>1, FS_AddElement
    <3> QED
      BY <1>7, <3>1 DEF idx
  <2>2. \A x \in DOMAIN indices : indices[x] \in Nat
    BY DEF CyclesInv, Search, Numbered
  <2> QED
    BY <1>1, <1>2, <1>3, <1>7, <2>1, <2>2 DEF Counted, Insert
<1>9. Reported(edges, Done', cycles')
  BY <1>7 DEF CyclesInv
<1> QED
  BY <1>5, <1>6, <1>8, <1>9

\* The outer loop calls strong.
LEMMA StrongRootKeeps ==
  ASSUME CyclesInv, StrongRoot
  PROVE  CyclesInv'
<1>1. PICK callers : callers = <<>>
  OBVIOUS
<1>2. PICK v \in Modules : ~Seen(v) /\ Enter(v, callers)
  BY <1>1 DEF StrongRoot, IsFirst
<1>3. /\ edges' = edges /\ cycles' = cycles /\ pass' = pass /\ pass.name = "cycles" /\ frames = <<>>
      /\ edges \in Graph
  BY DEF StrongRoot, CyclesInv
<1>4. callers \in Seq(Call) /\ Len(callers) = Len(frames) /\ ~(Len(frames) > 0) /\ Moved(frames, callers, v)
  BY <1>1, <1>3 DEF Moved
<1>5. /\ Search(edges, indices', lowlink', On', frames')
      /\ Sorted(indices', sccStack') /\ Counted(indices')
      /\ Reported(edges, Done', cycles')
  BY <1>2, <1>3, <1>4, EnterKeeps
<1> QED
  BY <1>3, <1>5 DEF CyclesInv

\* The frames after the loop on top has gone on to w.
LEMMA PassedFrames ==
  ASSUME CyclesInv, NEW w \in Modules, Visits(w)
  PROVE  /\ Len(frames) \in Nat /\ Len(frames) > 0 /\ frames \in Seq(Call)
         /\ edges' = edges /\ cycles' = cycles /\ pass' = pass /\ pass.name = "cycles"
         /\ w \in frames[Len(frames)].left /\ w \in edges[frames[Len(frames)].v]
         /\ Passed(w) \in Seq(Call) /\ Len(Passed(w)) = Len(frames)
         /\ Moved(frames, Passed(w), w)
<1> DEFINE n == Len(frames)
<1>1. frames \in Seq(Call) /\ frames # <<>> /\ n \in Nat /\ n > 0 /\ n \in 1 .. n
  BY DEF CyclesInv, Search, Numbered, Visits
<1>2. w \in frames[n].left /\ edges' = edges /\ cycles' = cycles /\ pass' = pass /\ pass.name = "cycles"
  BY DEF Visits, IsFirst, Frame
<1>3. frames[n].v \in Modules /\ frames[n].left \in SUBSET Modules
  <2>1. frames[n] \in Call
    BY <1>1
  <2> QED
    BY <2>1 DEF Call
<1>4. w \in edges[frames[n].v]
  BY <1>1, <1>2 DEF CyclesInv, Search, Nested
<1> DEFINE f == [v |-> frames[n].v, left |-> frames[n].left \ {w}]
<1>5. f \in Call /\ f.v = frames[n].v /\ f.left = frames[n].left \ {w}
  BY <1>3 DEF Call
<1>6. Passed(w) = [frames EXCEPT ![n] = f]
  BY DEF Passed, Frame
<1> HIDE DEF f, n
<1>7. Passed(w) \in Seq(Call) /\ Len(Passed(w)) = n /\ \A k \in 1 .. n : Passed(w)[k] = IF k = n THEN f ELSE frames[k]
  BY <1>1, <1>5, <1>6 DEF n
<1> QED
  BY <1>1, <1>2, <1>4, <1>5, <1>7 DEF n, Moved

\* The loop of a call meets a module without a number, and calls strong.
LEMMA StrongNewKeeps ==
  ASSUME CyclesInv, StrongNew
  PROVE  CyclesInv'
<1>1. PICK w \in Modules : Visits(w) /\ ~Seen(w) /\ Enter(w, Passed(w))
  BY DEF StrongNew
<1>2. /\ Len(frames) \in Nat /\ Len(frames) > 0 /\ frames \in Seq(Call)
      /\ edges' = edges /\ cycles' = cycles /\ pass' = pass /\ pass.name = "cycles"
      /\ w \in edges[frames[Len(frames)].v]
      /\ Passed(w) \in Seq(Call) /\ Len(Passed(w)) = Len(frames)
      /\ Moved(frames, Passed(w), w)
  BY <1>1, PassedFrames
<1>3. /\ Search(edges, indices', lowlink', On', frames')
      /\ Sorted(indices', sccStack') /\ Counted(indices')
      /\ Reported(edges, Done', cycles')
  BY <1>1, <1>2, EnterKeeps
<1> QED
  BY <1>2, <1>3 DEF CyclesInv

\* The loop of a call meets a module that has its number.
LEMMA StrongSeenKeeps ==
  ASSUME CyclesInv, StrongSeen
  PROVE  CyclesInv'
<1>1. PICK w \in Modules :
        /\ Visits(w) /\ Seen(w)
        /\ lowlink' = IF OnStack(w) THEN [lowlink EXCEPT ![Frame.v] = Lesser(@, indices[w])] ELSE lowlink
        /\ frames' = Passed(w)
        /\ indices' = indices /\ sccStack' = sccStack
  BY DEF StrongSeen
<1> DEFINE n == Len(frames)
<1>2. /\ n \in Nat /\ n > 0 /\ frames \in Seq(Call)
      /\ edges' = edges /\ cycles' = cycles /\ pass' = pass /\ pass.name = "cycles"
      /\ w \in frames[n].left
      /\ frames' \in Seq(Call) /\ Len(frames') = n
      /\ Moved(frames, frames', w)
  BY <1>1, PassedFrames
<1>3. edges \in Graph /\ Search(edges, indices, lowlink, On, frames) /\ w \in DOMAIN indices
  BY <1>1 DEF CyclesInv, Seen
<1>4. lowlink' = IF w \in On THEN Lowered(lowlink, frames[n].v, indices[w]) ELSE lowlink
  BY <1>1 DEF On, Elements, OnStack, Frame, Lowered
<1> HIDE DEF n
<1>5. Search(edges, indices, lowlink', On, frames')
  BY <1>2, <1>3, <1>4, SearchSees DEF n
<1>6. On' = On /\ Done' = Done /\ indices' = indices /\ sccStack' = sccStack
  BY <1>1 DEF On, Done
<1> QED
  BY <1>2, <1>5, <1>6 DEF CyclesInv

\* A call returns, and pops its component when it is a root.
LEMMA StrongReturnKeeps ==
  ASSUME CyclesInv, StrongReturn
  PROVE  CyclesInv'
<1> DEFINE n == Len(frames)
           v == frames[n].v
           at == CHOOSE i \in DOMAIN sccStack : sccStack[i] = v
           root == lowlink[v] = indices[v]
           scc == From(sccStack, at)
<1>1. /\ edges' = edges /\ indices' = indices /\ pass' = pass /\ pass.name = "cycles"
      /\ frames # <<>> /\ frames[n].left = {}
      /\ cycles' = IF root /\ (Cardinality(scc) > 1 \/ v \in edges[v]) THEN Append(cycles, scc) ELSE cycles
      /\ sccStack' = IF root THEN SubSeq(sccStack, 1, at - 1) ELSE sccStack
      /\ frames' = SubSeq(frames, 1, n - 1)
      /\ lowlink' = IF n = 1 THEN lowlink
                    ELSE Lowered(lowlink, frames[n - 1].v, lowlink[v])
  BY DEF StrongReturn, Frame, From, Lowered
<1>2. /\ edges \in Graph /\ Search(edges, indices, lowlink, On, frames) /\ Sorted(indices, sccStack)
      /\ Counted(indices) /\ Reported(edges, Done, cycles)
      /\ frames \in Seq(Call) /\ n \in Nat /\ n > 0
      /\ On \subseteq DOMAIN indices /\ DOMAIN indices \in SUBSET Modules
      /\ \A x \in DOMAIN indices : indices[x] \in Nat /\ lowlink[x] \in Nat
      /\ v \in On
  <2>1. frames \in Seq(Call) /\ n \in Nat /\ n > 0 /\ n \in 1 .. Len(frames)
    BY <1>1 DEF CyclesInv, Search, Numbered
  <2> QED
    BY <2>1 DEF CyclesInv, Search, Numbered, Nested
<1>3. frames' \in Seq(Call) /\ Dropped(frames, frames')
  <2>1. n - 1 \in 0 .. Len(frames)
    BY <1>2
  <2>2. frames' = SubSeq(frames, 1, n - 1) /\ frames \in Seq(Call)
    BY <1>1, <1>2
  <2> HIDE DEF v, at, root, scc
  <2> QED
    BY <2>1, <2>2, FrontOf DEF Dropped
<1>4. at \in 1 .. Len(sccStack) /\ v = sccStack[at]
  <2>1. \E i \in DOMAIN sccStack : sccStack[i] = v
    BY <1>2 DEF On, Elements
  <2>2. DOMAIN sccStack = 1 .. Len(sccStack)
    BY <1>2 DEF Sorted
  <2> QED
    BY <2>1, <2>2
<1> HIDE DEF n, v, at, root, scc
<1>5. CASE ~root
  <2>1. lowlink[v] # indices[v] /\ v = frames[n].v /\ n = Len(frames) /\ frames[n].left = {}
    BY <1>1, <1>5 DEF root, v, n
  <2>2. n > 1 /\ Search(edges, indices, Lowered(lowlink, frames[n - 1].v, lowlink[v]), On, frames')
    BY <1>2, <1>3, <2>1, SearchReturns
  <2>3. n > 1 /\ Search(edges, indices, lowlink', On, frames')
    BY <1>1, <2>2
  <2>4. sccStack' = sccStack /\ On' = On /\ Done' = Done /\ cycles' = cycles
    BY <1>1, <1>5 DEF On, Done
  <2> QED
    BY <1>1, <1>2, <2>3, <2>4 DEF CyclesInv
<1>6. CASE root
  <2>1. lowlink[v] = indices[v] /\ v = frames[n].v /\ n = Len(frames) /\ frames[n].left = {}
    BY <1>1, <1>6 DEF root, v, n
  <2>2. lowlink' = lowlink
    <3>1. CASE n = 1
      BY <1>1, <3>1
    <3>2. CASE n # 1
      <4> DEFINE u == frames[n - 1].v
      <4>1. n - 1 \in 1 .. Len(frames) /\ n \in 1 .. Len(frames) /\ n - 1 < n
        BY <1>2, <2>1, <3>2
      <4>2. u \in On /\ lowlink[u] <= indices[u] /\ indices[u] < indices[v]
        BY <2>1, <4>1 DEF CyclesInv, Search, LowIsReal, Nested
      <4>3. u \in DOMAIN indices /\ v \in DOMAIN indices
        BY <1>2, <4>2
      <4>4. lowlink[u] \in Nat /\ indices[u] \in Nat /\ indices[v] \in Nat
        BY <1>2, <4>3
      <4>5. Lesser(lowlink[u], lowlink[v]) = lowlink[u]
        BY <2>1, <4>2, <4>4 DEF Lesser
      <4>6. lowlink \in [DOMAIN indices -> Nat]
        BY DEF CyclesInv, Search, Numbered
      <4>7. lowlink' = [lowlink EXCEPT ![u] = Lesser(@, lowlink[v])]
        BY <1>1, <3>2 DEF Lowered
      <4> HIDE DEF u
      <4> QED
        BY <4>3, <4>5, <4>6, <4>7
    <3> QED
      BY <3>1, <3>2
  <2>3. /\ scc = Above(indices, On, v) /\ Sorted(indices, sccStack')
        /\ On' = Below(indices, On, v)
    <3>1. sccStack' = SubSeq(sccStack, 1, at - 1)
      BY <1>1, <1>6
    <3>2. Elements(sccStack) \subseteq DOMAIN indices
      BY <1>2 DEF On
    <3> QED
      BY <1>2, <1>4, <3>1, <3>2, StackSplits DEF On, scc
  <2>4. Search(edges, indices, lowlink, On', frames')
    BY <1>2, <1>3, <2>1, <2>3, SearchPops
  <2>5. /\ v \in scc /\ scc \subseteq Modules
        /\ \A x \in scc : edges[x] \subseteq Done \cup scc
        /\ \A x \in scc : Leads(edges, v, x) /\ Leads(edges, x, v)
        /\ \A x \in Modules : Leads(edges, v, x) /\ Leads(edges, x, v) => x \in scc
    <3>1. edges \in Graph /\ Search(edges, indices, lowlink, On, frames) /\ n \in Nat /\ n > 0
      BY <1>2
    <3>2. scc = Above(indices, On, v)
      BY <2>3
    <3> QED
      BY <2>1, <3>1, <3>2, RootIsAComponent DEF Done
  <2>6. Done' = Done \cup scc /\ scc \cap Done = {}
    <3>1. Done' = DOMAIN indices \ On'
      BY <1>1 DEF Done
    <3> QED
      BY <1>2, <2>3, <3>1 DEF Done, Above, Below
  <2>7. Closed(edges, Done) /\ Done \in SUBSET Modules
    BY <1>2 DEF Closed, Search, Visited, Done
  <2>8. cycles' = IF Cardinality(scc) > 1 \/ v \in edges[v] THEN Append(cycles, scc) ELSE cycles
    BY <1>1, <1>6
  <2>9. Reported(edges, Done \cup scc, cycles')
    BY <1>2, <2>5, <2>6, <2>7, <2>8, ReportsComponent
  <2> QED
    BY <1>1, <1>2, <2>2, <2>3, <2>4, <2>6, <2>9 DEF CyclesInv
<1> QED
  BY <1>5, <1>6

\* An import adds an edge between modules.
LEMMA ImportKeepsGraph ==
  ASSUME edges \in Graph, ResolveOneImport
  PROVE  edges' \in Graph
<1> DEFINE imp == Imports[pass.at]
           m == Order[pass.mod]
           to == IF imp.path \in Modules THEN imp.path ELSE Prefix(imp.path)
<1>1. CASE Target(imp) = NoSymbol
  BY <1>1 DEF ResolveOneImport
<1>2. CASE Target(imp) # NoSymbol
  <2>1. edges' = [edges EXCEPT ![m] = @ \cup {to}]
    BY <1>2 DEF ResolveOneImport
  <2>2. to \in Modules
    BY <1>2 DEF Target
  <2> HIDE DEF to, m
  <2> QED
    BY <2>1, <2>2 DEF Graph
<1> QED
  BY <1>1, <1>2

\* Every action keeps the invariant of the search.
LEMMA CyclesInvHolds == ResolveSpec => []CyclesInv
<1>1. ResolveInit => CyclesInv
  <2> SUFFICES ASSUME ResolveInit PROVE CyclesInv
    OBVIOUS
  <2>1. edges \in Graph /\ Idle /\ pass.name = "start"
    BY DEF ResolveInit, Graph, Idle, Begin
  <2> QED
    BY <2>1, IdleSearch DEF CyclesInv
<1>2. CyclesInv /\ [ResolveNext]_resolveVars => CyclesInv'
  <2> SUFFICES ASSUME CyclesInv, [ResolveNext]_resolveVars PROVE CyclesInv'
    OBVIOUS
  <2>0. ASSUME edges' = edges, tarjan' = tarjan, cycles' = cycles,
               pass'.name \in {"start", "index", "imports"} => pass.name \in {"start", "index", "imports"},
               pass'.name \in {"paths", "visibility", "done"} =>
                 pass.name \in {"paths", "visibility", "done"} \/ (frames = <<>> /\ DOMAIN indices = Modules)
        PROVE  CyclesInv'
    <3>1. /\ indices' = indices /\ lowlink' = lowlink /\ sccStack' = sccStack /\ frames' = frames
          /\ On' = On /\ Done' = Done
      BY <2>0 DEF tarjan, On, Done
    <3>2. Idle' <=> Idle
      BY <2>0, <3>1 DEF Idle
    <3> QED
      BY <2>0, <3>1, <3>2 DEF CyclesInv
  <2>1. CASE BuildGraph
    BY <2>0, <2>1 DEF BuildGraph, Begin
  <2>2. CASE Index
    BY <2>0, <2>2 DEF Index, Begin
  <2>3. CASE ResolveOneImport
    <3>1. edges' \in Graph
      BY <2>3, ImportKeepsGraph DEF CyclesInv
    <3>2. pass.name = "imports" /\ pass'.name \in {"imports"} /\ Idle'
      BY <2>3 DEF ResolveOneImport, CyclesInv, Idle, tarjan
    <3>3. (edges \in Graph /\ Idle =>
             /\ Search(edges, indices, lowlink, On, frames)
             /\ Sorted(indices, sccStack) /\ Counted(indices)
             /\ Reported(edges, Done, cycles))'
      BY IdleSearch, PTL
    <3> QED
      BY <3>1, <3>2, <3>3 DEF CyclesInv
  <2>4. CASE NextModule
    BY <2>0, <2>4 DEF NextModule
  <2>5. CASE ImportsDone
    BY <2>0, <2>5 DEF ImportsDone, Begin
  <2>6. CASE StrongRoot
    BY <2>6, StrongRootKeeps
  <2>7. CASE StrongNew
    BY <2>7, StrongNewKeeps
  <2>8. CASE StrongSeen
    BY <2>8, StrongSeenKeeps
  <2>9. CASE StrongReturn
    BY <2>9, StrongReturnKeeps
  <2>10. CASE CyclesDone
    <3>1. DOMAIN indices = Modules
      BY <2>10 DEF CyclesDone, Seen, CyclesInv, Search, Numbered
    <3> QED
      BY <2>0, <2>10, <3>1 DEF CyclesDone, Begin
  <2>11. CASE ResolveAllPaths
    BY <2>0, <2>11 DEF ResolveAllPaths, Begin
  <2>12. CASE EnforceVisibility
    BY <2>0, <2>12 DEF EnforceVisibility, Begin
  <2>13. CASE UNCHANGED resolveVars
    BY <2>0, <2>13 DEF resolveVars
  <2> QED
    BY <2>1, <2>2, <2>3, <2>4, <2>5, <2>6, <2>7, <2>8, <2>9, <2>10, <2>11, <2>12, <2>13 DEF ResolveNext
<1> QED
  BY <1>1, <1>2, PTL DEF ResolveSpec

\* When the pass is over, detectImportCycles has reported exactly the import
\* cycles, each strongly connected component in one diagnostic, whatever the
\* modules and their imports.
THEOREM ReportsEveryCycleOnce == ResolveSpec => []CyclesReportedOnce
<1>1. CyclesInv => CyclesReportedOnce
  <2> SUFFICES ASSUME CyclesInv, pass.name \in {"paths", "visibility", "done"}
               PROVE  /\ {cycles[i] : i \in DOMAIN cycles} =
                           {Component(edges, m) : m \in {x \in Modules : x \in Reach(edges, x)}}
                      /\ \A i, j \in DOMAIN cycles : cycles[i] = cycles[j] => i = j
    BY DEF CyclesReportedOnce
  <2>1. frames = <<>> /\ DOMAIN indices = Modules /\ Reported(edges, Done, cycles)
    BY DEF CyclesInv
  <2>2. On = {}
    <3>1. Len(frames) = 0 /\ 1 .. Len(frames) = {}
      BY <2>1
    <3> QED
      BY <3>1 DEF CyclesInv, Search, Linked
  <2>3. Cyclic(edges, Done) = {x \in Modules : x \in Reach(edges, x)}
    BY <2>1, <2>2 DEF Cyclic, Done
  <2> QED
    BY <2>1, <2>3 DEF Reported
<1> QED
  BY <1>1, CyclesInvHolds, PTL

-----------------------------------------------------------------------------
(* Visibility along re-exports *)

LEMMA ModulesArePaths == Modules \subseteq Seq(STRING)
BY TreesAssumption DEF Modules

\* A submodule of a submodule is a submodule (isDescendant).
LEMMA DescendantsDescend ==
  ASSUME NEW a \in Modules, NEW b \in Modules, NEW c \in Modules, IsDescendant(a, b), IsDescendant(b, c)
  PROVE  IsDescendant(a, c)
<1>1. a \in Seq(STRING) /\ b \in Seq(STRING) /\ c \in Seq(STRING)
  BY ModulesArePaths
<1>2. /\ Len(a) \in Nat /\ Len(b) \in Nat /\ Len(c) \in Nat /\ Len(a) <= Len(b) /\ Len(b) <= Len(c)
      /\ SubSeq(b, 1, Len(a)) = a /\ SubSeq(c, 1, Len(b)) = b
  BY <1>1 DEF IsDescendant
<1>3. \A i \in 1 .. Len(b) : b[i] = c[i]
  <2>1. Len(b) \in 0 .. Len(c)
    BY <1>2
  <2> QED
    BY <1>1, <1>2, <2>1, FrontOf
<1>4. \A i \in 1 .. Len(a) : a[i] = b[i]
  <2>1. Len(a) \in 0 .. Len(b)
    BY <1>2
  <2> QED
    BY <1>1, <1>2, <2>1, FrontOf
<1> DEFINE s == SubSeq(c, 1, Len(a))
<1>5. s \in Seq(STRING) /\ Len(s) = Len(a) /\ \A i \in 1 .. Len(a) : s[i] = c[i]
  <2>1. Len(a) \in 0 .. Len(c)
    BY <1>2
  <2> QED
    BY <1>1, <2>1, FrontOf
<1> HIDE DEF s
<1>6. s = a
  <2>1. \A i \in 1 .. Len(a) : i \in 1 .. Len(b)
    BY <1>2
  <2>2. \A i \in 1 .. Len(s) : s[i] = a[i]
    BY <1>3, <1>4, <1>5, <2>1
  <2> QED
    BY <1>1, <1>5, <2>2, SeqEqual
<1> QED
  BY <1>2, <1>6 DEF IsDescendant, s

\* at holds the symbols that followAlias passes in n hops from s.
Follows(at, s, n) ==
  at[0] = s /\ (\A i \in 1 .. n : at[i] = Hop(at[i - 1])) /\ FollowAlias(s, n) = at[n]

\* The hops of followAlias stay in a set that each of them stays in.
LEMMA FollowsHops ==
  ASSUME NEW V, NEW s \in V, \A x \in V : Hop(x) \in V, NEW n \in Nat
  PROVE  \E at \in [0 .. n -> V] : Follows(at, s, n)
<1> DEFINE step == [i \in 1 .. n |-> [x \in V |-> Hop(x)]]
           at == CHOOSE f : f = [k \in 0 .. n |-> IF k = 0 THEN s ELSE Hop(f[k - 1])]
<1>1. step \in [1 .. n -> [V -> V]]
  OBVIOUS
<1>2. PICK g \in [0 .. n -> V] : IsLoop(g, n, s, step)
  <2> HIDE DEF step
  <2> QED
    BY <1>1, LoopExists
<1>3. g[0] = s /\ \A i \in 1 .. n : g[i] = Hop(g[i - 1])
  <2>1. \A i \in 1 .. n : g[i - 1] \in V
    BY <1>2
  <2> QED
    BY <1>2, <2>1 DEF IsLoop
<1>4. g = [k \in 0 .. n |-> IF k = 0 THEN s ELSE Hop(g[k - 1])]
  <2>1. \A k \in 0 .. n : g[k] = IF k = 0 THEN s ELSE Hop(g[k - 1])
    BY <1>3
  <2> QED
    BY <1>2, <2>1
<1>5. at = [k \in 0 .. n |-> IF k = 0 THEN s ELSE Hop(at[k - 1])]
  BY <1>4
<1>6. FollowAlias(s, n) = at[n]
  BY DEF FollowAlias
<1>7. at[0] = s /\ \A i \in 1 .. n : at[i] = Hop(at[i - 1])
  <2> HIDE DEF at
  <2> QED
    BY <1>5
<1> HIDE DEF at
<1> DEFINE S == {i \in 0 .. n : at[i] \in V}
<1>8. 0 \in S
  BY <1>7
<1>9. \A i \in 1 .. n : i - 1 \in S => i \in S
  BY <1>7
<1>10. 0 .. n \subseteq S
  <2> HIDE DEF S
  <2> QED
    BY <1>8, <1>9, PrefixInduction
<1>11. at \in [0 .. n -> V]
  BY <1>5, <1>10
<1>12. Follows(at, s, n)
  BY <1>6, <1>7 DEF Follows
<1> QED
  BY <1>11, <1>12

\* Known is a set of symbols that contains what the scopes and the bindings
\* hold and the targets of its aliases.  An alias has the visibility of its
\* target, and the import that made it has a binding.
Holds(Known) ==
  /\ \A x \in Known : x.mod \in Modules
  /\ \A x \in Known : x.kind = "alias" =>
       /\ x.target \in Known /\ x.vis = x.target.vis
       /\ \E b \in bindings : b.site = "import" /\ b.mod = x.mod /\ b.sym = x.target
  /\ \A m \in Modules : \A n \in DOMAIN scopes[m] : scopes[m][n] \in Known
  /\ \A b \in bindings : b.sym \in Known /\ b.mod \in Modules

\* Resolving a name ends at a known symbol or at none.
LEMMA FollowsKnown ==
  ASSUME NEW Known, Holds(Known), NEW s \in Known \cup {NoSymbol}, NEW n \in Nat
  PROVE  FollowAlias(s, n) \in Known \cup {NoSymbol}
<1> DEFINE V == Known \cup {NoSymbol}
<1>1. \A x \in V : Hop(x) \in V
  BY DEF Holds, Hop, NoSymbol
<1> HIDE DEF V
<1>2. s \in V
  BY DEF V
<1>3. PICK at \in [0 .. n -> V] : Follows(at, s, n)
  BY <1>1, <1>2, FollowsHops
<1>4. n \in 0 .. n
  OBVIOUS
<1>5. at[n] \in V /\ at[n] = FollowAlias(s, n)
  BY <1>3, <1>4 DEF Follows
<1> QED
  BY <1>5 DEF V

\* A name in the scope of a module.
LEMMA LooksUpKnown ==
  ASSUME NEW Known, Holds(Known), NEW m \in Modules, NEW n
  PROVE  /\ Lookup(m, n) \in Known \cup {NoSymbol}
         /\ FollowAlias(Lookup(m, n), MaxHops) \in Known \cup {NoSymbol}
<1>1. Lookup(m, n) \in Known \cup {NoSymbol}
  BY DEF Lookup, Holds
<1> QED
  BY <1>1, FollowsKnown DEF MaxHops

\* A variant of a known enum.
LEMMA FindsKnownVariant ==
  ASSUME NEW Known, Holds(Known), NEW enum \in Known, NEW n
  PROVE  VariantOf(enum, n) \in Known \cup {NoSymbol}
<1>1. enum.mod \in Modules
  BY DEF Holds
<1> QED
  BY <1>1, LooksUpKnown DEF VariantOf

\* A path from a module on.
LEMMA WalksToKnown ==
  ASSUME NEW Known, Holds(Known), NEW m \in Modules, NEW rest \in Seq(STRING), rest # <<>>
  PROVE  WalkModulePath(m, rest) \in Known \cup {NoSymbol}
<1> DEFINE n == Len(rest)
           cur(i) == m \o SubSeq(rest, 1, i)
           enumAt(i) == i = n - 2 /\ EnumIn(cur(i), rest[n - 1]) # NoSymbol
           stops(i) == i = n - 1 \/ enumAt(i) \/ cur(i + 1) \notin Modules
           first(k) == stops(k) /\ \A j \in 0 .. k - 1 : ~stops(j)
           i == CHOOSE k \in 0 .. n - 1 : stops(k) /\ \A j \in 0 .. k - 1 : ~stops(j)
<1>1. n \in Nat /\ n > 0
  OBVIOUS
<1>2. WalkModulePath(m, rest) =
        IF i = n - 1 THEN FollowAlias(Lookup(cur(i), rest[n]), MaxHops)
        ELSE IF enumAt(i) THEN VariantOf(EnumIn(cur(i), rest[n - 1]), rest[n])
        ELSE NoSymbol
  BY DEF WalkModulePath
<1>3. cur(0) = m
  <2>1. m \in Seq(STRING) /\ SubSeq(rest, 1, 0) = <<>>
    BY ModulesArePaths
  <2> QED
    BY <2>1
<1>4. i \in 0 .. n - 1 /\ stops(i) /\ \A j \in 0 .. i - 1 : ~stops(j)
  <2> DEFINE S == {k \in 0 .. n - 1 : stops(k)}
  <2>1. S \in SUBSET Nat /\ n - 1 \in S
    BY <1>1
  <2>2. \E k \in S : \A j \in S : k <= j
    <3> HIDE DEF S
    <3> QED
      BY <2>1, LeastOf
  <2>3. PICK k \in 0 .. n - 1 : stops(k) /\ \A j \in 0 .. n - 1 : stops(j) => k <= j
    BY <2>2
  <2>4. \A j \in 0 .. k - 1 : j \in 0 .. n - 1 /\ ~(k <= j)
    OBVIOUS
  <2>5. \E k2 \in 0 .. n - 1 : stops(k2) /\ \A j \in 0 .. k2 - 1 : ~stops(j)
    <3> HIDE DEF stops
    <3> QED
      BY <2>3, <2>4
  <2> HIDE DEF stops
  <2> QED
    BY <2>5
<1> HIDE DEF i
<1>5. cur(i) \in Modules
  <2>1. CASE i = 0
    BY <1>3, <2>1
  <2>2. CASE i # 0
    <3>1. i - 1 \in 0 .. i - 1 /\ (i - 1) + 1 = i
      BY <1>1, <1>4, <2>2
    <3>2. ~stops(i - 1)
      BY <1>4, <3>1
    <3>3. cur((i - 1) + 1) \in Modules
      BY <3>2
    <3> QED
      BY <3>1, <3>3
  <2> QED
    BY <2>1, <2>2
<1> HIDE DEF cur
<1>6. FollowAlias(Lookup(cur(i), rest[n]), MaxHops) \in Known \cup {NoSymbol}
  BY <1>5, LooksUpKnown
<1>7. ASSUME enumAt(i) PROVE VariantOf(EnumIn(cur(i), rest[n - 1]), rest[n]) \in Known \cup {NoSymbol}
  <2>1. EnumIn(cur(i), rest[n - 1]) # NoSymbol
    BY <1>7
  <2>2. EnumIn(cur(i), rest[n - 1]) \in Known \cup {NoSymbol}
    BY <1>5, LooksUpKnown DEF EnumIn
  <2> QED
    BY <2>1, <2>2, FindsKnownVariant
<1> HIDE DEF enumAt
<1> QED
  BY <1>2, <1>6, <1>7

\* A path of any form (resolvePath).
LEMMA ResolvesToKnown ==
  ASSUME NEW Known, Holds(Known), NEW m \in Modules, NEW p \in Seq(STRING), p # <<>>
  PROVE  ResolvePath(m, p) \in Known \cup {NoSymbol}
<1> DEFINE first == FollowAlias(Lookup(m, p[1]), MaxHops)
<1>1. first \in Known \cup {NoSymbol}
  BY LooksUpKnown
<1>2. Len(p) \in Nat /\ Len(p) > 0
  OBVIOUS
<1>3. ASSUME Len(p) # 1 PROVE Tail(p) \in Seq(STRING) /\ Tail(p) # <<>>
  <2>1. PICK t : t = Tail(p)
    OBVIOUS
  <2>2. Len(t) = Len(p) - 1 /\ t \in Seq(STRING)
    BY <1>2, <2>1
  <2>3. t # <<>>
    BY <1>2, <1>3, <2>2
  <2> QED
    BY <2>1, <2>2, <2>3
<1>4. ViaModuleGraph(p) \in Known \cup {NoSymbol}
  <2> DEFINE starts == {i \in 1 .. Len(p) - 1 : SubSeq(p, 1, i) \in Modules}
             longest == CHOOSE i \in starts : \A j \in starts : j <= i
             rest == SubSeq(p, longest + 1, Len(p))
  <2>1. CASE starts = {}
    BY <2>1 DEF ViaModuleGraph
  <2>2. CASE starts # {}
    <3>1. longest \in starts
      <4>1. \E i \in starts : \A j \in starts : j <= i
        <5> DEFINE back == {Len(p) - i : i \in starts}
        <5>1. back \in SUBSET Nat /\ back # {}
          BY <1>2, <2>2
        <5>2. PICK k \in back : \A j \in back : k <= j
          <6> HIDE DEF back
          <6> QED
            BY <5>1, LeastOf
        <5>3. PICK i \in starts : k = Len(p) - i
          BY <5>2
        <5>4. \A j \in starts : Len(p) - i <= Len(p) - j
          BY <5>2, <5>3
        <5>5. \A j \in starts : j <= i
          BY <1>2, <5>4
        <5> QED
          BY <5>5
      <4> HIDE DEF starts
      <4> QED
        BY <4>1
    <3>2. longest \in 1 .. Len(p) - 1 /\ SubSeq(p, 1, longest) \in Modules
      BY <3>1
    <3>3. ViaModuleGraph(p) = WalkModulePath(SubSeq(p, 1, longest), rest)
      BY <2>2 DEF ViaModuleGraph
    <3> HIDE DEF longest
    <3>4. rest \in Seq(STRING) /\ rest # <<>>
      <4>1. \A i \in longest + 1 .. Len(p) : p[i] \in STRING
        BY <3>2
      <4>2. rest \in Seq(STRING) /\ Len(rest) = Len(p) - longest
        BY <1>2, <3>2, <4>1, SubSeqProperties
      <4> HIDE DEF rest, starts
      <4> QED
        BY <1>2, <3>2, <4>2
    <3> HIDE DEF rest
    <3> QED
      BY <3>2, <3>3, <3>4, WalksToKnown
  <2> QED
    BY <2>1, <2>2
<1>5. ASSUME first \in Known, Len(p) # 1 PROVE WalkModulePath(first.mod, Tail(p)) \in Known \cup {NoSymbol}
  <2>1. first.mod \in Modules
    BY <1>5 DEF Holds
  <2> QED
    BY <1>3, <1>5, <2>1, WalksToKnown
<1>6. ASSUME first \in Known, first.kind = "alias", Len(p) # 1
      PROVE  WalkModulePath(first.target.mod, Tail(p)) \in Known \cup {NoSymbol}
  <2>1. first.target.mod \in Modules
    BY <1>6 DEF Holds
  <2> QED
    BY <1>3, <1>6, <2>1, WalksToKnown
<1>7. ASSUME first \in Known PROVE VariantOf(first, p[2]) \in Known \cup {NoSymbol}
  BY <1>7, FindsKnownVariant
<1>8. ResolvePath(m, p) =
        IF Len(p) = 1 THEN first
        ELSE IF first = NoSymbol THEN ViaModuleGraph(p)
        ELSE IF first.kind = "enum" /\ Len(p) = 2 THEN VariantOf(first, p[2])
        ELSE IF first.kind = "module" THEN WalkModulePath(first.mod, Tail(p))
        ELSE IF first.kind = "alias" /\ first.target.kind = "module"
          THEN WalkModulePath(first.target.mod, Tail(p))
        ELSE NoSymbol
  BY DEF ResolvePath
<1> HIDE DEF first
<1> QED
  BY <1>1, <1>4, <1>5, <1>6, <1>7, <1>8

\* Resolving every use binds finitely many names.
LEMMA UsesAreFinite ==
  ASSUME tree \in Trees, ResolveAllPaths, IsFiniteSet(bindings)
  PROVE  IsFiniteSet(bindings')
<1> DEFINE Of(m) == {[mod |-> m, use |-> u] : u \in {v \in tree.uses[m] : IsPath(m, v)}}
           uses == UNION {Of(m) : m \in Modules}
           lost == {u \in uses : ResolvePath(u.mod, u.use.path) = NoSymbol}
           bound(u) == [site |-> u.use.kind, mod |-> u.mod, path |-> u.use.path,
                        sym |-> ResolvePath(u.mod, u.use.path)]
<1>1. bindings' = bindings \cup {bound(u) : u \in uses \ lost}
  BY DEF ResolveAllPaths
<1>2. \A m \in Modules : IsFiniteSet(Of(m))
  <2> TAKE m \in Modules
  <2> DEFINE T == {v \in tree.uses[m] : IsPath(m, v)}
             f == [u \in T |-> [mod |-> m, use |-> u]]
  <2>1. IsFiniteSet(tree.uses[m])
    BY TreesAssumption DEF Modules
  <2>2. IsFiniteSet(T)
    <3>1. T \in SUBSET tree.uses[m]
      OBVIOUS
    <3> HIDE DEF T
    <3> QED
      BY <2>1, <3>1, FS_Subset
  <2>3. f \in Surjection(T, Of(m))
    <3> HIDE DEF T
    <3>1. Of(m) = {[mod |-> m, use |-> u] : u \in T}
      BY DEF T
    <3> HIDE DEF Of
    <3> QED
      BY <3>1 DEF Surjection
  <2> HIDE DEF T, f, Of
  <2> QED
    BY <2>2, <2>3, FS_Surjection
<1> HIDE DEF Of
<1>3. IsFiniteSet(uses)
  <2> DEFINE f == [m \in Modules |-> Of(m)]
             S == {Of(m) : m \in Modules}
  <2>1. f \in Surjection(Modules, S)
    BY DEF Surjection
  <2>2. IsFiniteSet(S)
    <3> HIDE DEF f, S
    <3> QED
      BY <2>1, ModulesAreFinite, FS_Surjection
  <2>3. \A T \in S : IsFiniteSet(T)
    BY <1>2
  <2>4. uses = UNION S
    OBVIOUS
  <2> HIDE DEF S, uses
  <2>5. IsFiniteSet(UNION S)
    BY <2>2, <2>3, FS_UNION
  <2> QED
    BY <2>4, <2>5
<1>4. IsFiniteSet(uses \ lost)
  <2>1. uses \ lost \in SUBSET uses
    OBVIOUS
  <2> HIDE DEF uses, lost
  <2> QED
    BY <1>3, <2>1, FS_Subset
<1>5. IsFiniteSet({bound(u) : u \in uses \ lost})
  <2> HIDE DEF uses, lost, bound
  <2> DEFINE U == uses \ lost
             f == [u \in U |-> bound(u)]
             B == {bound(u) : u \in U}
  <2>1. f \in Surjection(U, B)
    BY DEF Surjection
  <2> HIDE DEF f, B, U
  <2>2. IsFiniteSet(B)
    BY <1>4, <2>1, FS_Surjection DEF U
  <2> QED
    BY <2>2 DEF B, U
<1> HIDE DEF bound, uses, lost
<1> QED
  BY <1>1, <1>5, FS_Union

VisibilityInv ==
  /\ pass.name # "start" => tree \in Trees
  /\ pass.mod \in Nat \ {0}
  /\ DOMAIN scopes = Modules
  /\ IsFiniteSet(bindings)
  /\ pass.name \in {"start", "index"} => bindings = {}
  /\ \E Known : Holds(Known)
  /\ pass.name = "done" => \A b \in bindings : Refused(b) \/ IsVisibleFrom(b.sym, b.mod)

\* The items and variants of every module.
LEMMA IndexKeeps ==
  ASSUME VisibilityInv, Index
  PROVE  VisibilityInv'
<1> DEFINE Names(m) == {Declared(m, p).name : p \in Places(m)}
           Known == UNION {{Declared(m, First(m, n)) : n \in Names(m)} : m \in Modules}
<1>1. /\ scopes' = [m \in Modules |-> [n \in Names(m) |-> Declared(m, First(m, n))]]
      /\ bindings' = bindings /\ bindings = {} /\ tree' = tree /\ tree \in Trees
      /\ pass'.name = "imports" /\ pass'.mod = 1
  BY DEF Index, VisibilityInv, Begin
<1>2. \A m, p : Declared(m, p).mod = m /\ Declared(m, p).kind # "alias"
  BY DEF Declared, Symbol
<1>3. \E K : Holds(K)'
  <2> HIDE DEF Names
  <2>1. \A x \in Known : x.mod \in Modules /\ x.kind # "alias"
    BY <1>2
  <2>2. \A m \in Modules : \A n \in DOMAIN scopes'[m] : scopes'[m][n] \in Known
    BY <1>1
  <2>3. \A b \in bindings' : b.sym \in Known
    BY <1>1
  <2>4. PICK K : K = Known
    OBVIOUS
  <2> HIDE DEF Known
  <2>5. Holds(K)'
    BY <1>1, <2>1, <2>2, <2>3, <2>4 DEF Holds
  <2> QED
    BY <2>5
<1> QED
  BY <1>1, <1>3, FS_EmptySet DEF VisibilityInv

\* An import binds its alias to a known symbol.
LEMMA ImportKeeps ==
  ASSUME VisibilityInv, ResolveOneImport
  PROVE  VisibilityInv'
<1> DEFINE imp == Imports[pass.at]
           m == Order[pass.mod]
           target == Target(imp)
           alias == [kind |-> "alias", mod |-> m, name |-> imp.as, vis |-> AliasVis(target),
                     target |-> target]
           bound == [site |-> "import", mod |-> m, path |-> imp.path, sym |-> target]
<1>1. /\ tree' = tree /\ tree \in Trees /\ pass'.name = "imports" /\ pass'.mod = pass.mod
      /\ pass.mod \in Nat \ {0} /\ pass.mod <= Len(Order)
  <2>1. pass' = [pass EXCEPT !.at = @ + 1]
    BY DEF ResolveOneImport
  <2> QED
    BY <2>1 DEF ResolveOneImport, VisibilityInv
<1>2. m \in Modules
  BY <1>1, TreesAssumption DEF Modules
<1>3. PICK Known : Holds(Known)
  BY DEF VisibilityInv
<1>4. CASE target = NoSymbol
  <2>1. scopes' = scopes /\ bindings' = bindings
    BY <1>4 DEF ResolveOneImport
  <2>2. Holds(Known)'
    BY <1>3, <2>1 DEF Holds
  <2> QED
    BY <1>1, <2>1, <2>2 DEF VisibilityInv
<1>5. CASE target # NoSymbol
  <2> DEFINE Known2 == Known \cup {target, alias}
  <2>1. /\ bindings' = bindings \cup {bound}
        /\ \/ scopes' = scopes
           \/ scopes' = [scopes EXCEPT ![m] = Insert(@, imp.as, alias)]
    BY <1>5 DEF ResolveOneImport
  <2>2. target \in Known \/ (target.mod \in Modules /\ target.kind = "module")
    <3>1. CASE imp.path \in Modules
      BY <3>1 DEF Target, ModuleSymbol, Symbol
    <3>2. CASE imp.path \notin Modules
      BY <1>3, <1>5, <3>2, LooksUpKnown DEF Target
    <3> QED
      BY <3>1, <3>2
  <2>3. alias.kind = "alias" /\ alias.mod = m /\ alias.target = target /\ alias.vis = target.vis
    BY DEF AliasVis
  <2>4. bound.site = "import" /\ bound.mod = m /\ bound.sym = target
    OBVIOUS
  <2> HIDE DEF alias, bound, target
  <2>5. \A x \in Known2 : x.mod \in Modules
    BY <1>2, <1>3, <2>2, <2>3 DEF Holds
  <2>6. ASSUME NEW x \in Known2, x.kind = "alias"
        PROVE  /\ x.target \in Known2 /\ x.vis = x.target.vis
               /\ \E b \in bindings' : b.site = "import" /\ b.mod = x.mod /\ b.sym = x.target
    <3>1. CASE x \in Known
      BY <1>3, <2>1, <2>6, <3>1 DEF Holds
    <3>2. CASE x \notin Known
      <4>1. x = alias
        BY <2>2, <2>6, <3>2
      <4> QED
        BY <2>1, <2>3, <2>4, <4>1
    <3> QED
      BY <3>1, <3>2
  <2>7. DOMAIN scopes' = Modules
    BY <2>1 DEF VisibilityInv
  <2>8. ASSUME NEW k \in Modules, NEW n \in DOMAIN scopes'[k] PROVE scopes'[k][n] \in Known2
    <3>1. CASE scopes' = scopes
      BY <1>3, <2>8, <3>1 DEF Holds
    <3>2. CASE scopes' = [scopes EXCEPT ![m] = Insert(@, imp.as, alias)]
      <4>1. scopes'[k] = IF k = m THEN Insert(scopes[m], imp.as, alias) ELSE scopes[k]
        BY <1>2, <3>2 DEF VisibilityInv
      <4>2. CASE k = m
        <5>1. n \in DOMAIN scopes[m] \cup {imp.as} /\ scopes'[k][n] = IF n = imp.as THEN alias ELSE scopes[m][n]
          BY <2>8, <4>1, <4>2 DEF Insert
        <5> QED
          BY <1>2, <1>3, <5>1 DEF Holds
      <4>3. CASE k # m
        BY <1>3, <2>8, <4>1, <4>3 DEF Holds
      <4> QED
        BY <4>2, <4>3
    <3> QED
      BY <2>1, <3>1, <3>2
  <2>9. \A b \in bindings' : b.sym \in Known2 /\ b.mod \in Modules
    BY <1>2, <1>3, <2>1, <2>4 DEF Holds
  <2>10. PICK K : K = Known2
    OBVIOUS
  <2> HIDE DEF Known2
  <2>11. Holds(K)'
    BY <2>5, <2>6, <2>8, <2>9, <2>10 DEF Holds
  <2>12. IsFiniteSet(bindings')
    BY <2>1, FS_AddElement DEF VisibilityInv
  <2> QED
    BY <1>1, <2>7, <2>11, <2>12 DEF VisibilityInv
<1> QED
  BY <1>4, <1>5

\* Every use is bound to a known symbol.
LEMMA PathsKeep ==
  ASSUME VisibilityInv, ResolveAllPaths
  PROVE  VisibilityInv'
<1>1. /\ tree' = tree /\ tree \in Trees /\ scopes' = scopes /\ pass'.name = "visibility" /\ pass'.mod = 1
      /\ IsFiniteSet(bindings)
  BY DEF ResolveAllPaths, VisibilityInv, Begin
<1>2. PICK Known : Holds(Known)
  BY DEF VisibilityInv
<1>3. ASSUME NEW b \in bindings' PROVE b \in bindings \/ (b.sym \in Known /\ b.mod \in Modules)
  <2>1. b \in bindings \/ \E m \in Modules : \E u \in tree.uses[m] :
          b.mod = m /\ b.sym = ResolvePath(m, u.path) /\ ResolvePath(m, u.path) # NoSymbol
    BY <1>3 DEF ResolveAllPaths
  <2>2. ASSUME NEW m \in Modules, NEW u \in tree.uses[m], ResolvePath(m, u.path) # NoSymbol
        PROVE  ResolvePath(m, u.path) \in Known
    <3>1. u.path \in Seq(STRING) /\ u.path # <<>>
      BY <1>1, TreesAssumption DEF Modules
    <3> QED
      BY <1>2, <2>2, <3>1, ResolvesToKnown
  <2> QED
    BY <2>1, <2>2
<1>4. bindings \subseteq bindings'
  BY DEF ResolveAllPaths
<1>5. Holds(Known)'
  BY <1>1, <1>2, <1>3, <1>4 DEF Holds
<1>6. IsFiniteSet(bindings')
  BY <1>1, UsesAreFinite
<1> QED
  BY <1>1, <1>5, <1>6 DEF VisibilityInv

\* Every action keeps the invariant of the symbols.
LEMMA VisibilityInvHolds == ResolveSpec => []VisibilityInv
<1>1. ResolveInit => VisibilityInv
  <2> SUFFICES ASSUME ResolveInit PROVE VisibilityInv
    OBVIOUS
  <2>1. /\ pass.name = "start" /\ pass.mod = 1 /\ bindings = {}
        /\ scopes = [m \in Modules |-> [n \in {} |-> NoSymbol]]
    BY DEF ResolveInit, Begin
  <2>2. Holds({})
    BY <2>1 DEF Holds
  <2> QED
    BY <2>1, <2>2, FS_EmptySet DEF VisibilityInv
<1>2. VisibilityInv /\ [ResolveNext]_resolveVars => VisibilityInv'
  <2> SUFFICES ASSUME VisibilityInv, [ResolveNext]_resolveVars PROVE VisibilityInv'
    OBVIOUS
  <2>0. ASSUME scopes' = scopes, bindings' = bindings, pass'.mod \in Nat \ {0},
               pass'.name # "start" => tree' \in Trees,
               pass'.name \in {"start", "index"} => pass.name \in {"start", "index"},
               pass'.name = "done" => \A b \in bindings : Refused(b)' \/ IsVisibleFrom(b.sym, b.mod)
        PROVE  VisibilityInv'
    <3>1. PICK Known : Holds(Known)
      BY DEF VisibilityInv
    <3>2. Holds(Known)'
      BY <2>0, <3>1 DEF Holds
    <3> QED
      BY <2>0, <3>2 DEF VisibilityInv
  <2>1. CASE BuildGraph
    BY <2>0, <2>1 DEF BuildGraph, Begin
  <2>2. CASE Index
    BY <2>2, IndexKeeps
  <2>3. CASE ResolveOneImport
    BY <2>3, ImportKeeps
  <2>4. CASE NextModule
    <3>1. pass' = [pass EXCEPT !.mod = @ + 1, !.at = 1] /\ pass.name = "imports" /\ pass.mod \in Nat \ {0}
      BY <2>4 DEF NextModule, VisibilityInv
    <3>2. pass'.name = "imports" /\ pass'.mod \in Nat \ {0}
      BY <3>1
    <3> QED
      BY <2>0, <2>4, <3>1, <3>2 DEF NextModule, VisibilityInv
  <2>5. CASE ImportsDone
    BY <2>0, <2>5 DEF ImportsDone, Begin, VisibilityInv
  <2>6. CASE StrongRoot
    BY <2>0, <2>6 DEF StrongRoot, VisibilityInv
  <2>7. CASE StrongNew
    BY <2>0, <2>7 DEF StrongNew, Visits, VisibilityInv
  <2>8. CASE StrongSeen
    BY <2>0, <2>8 DEF StrongSeen, Visits, VisibilityInv
  <2>9. CASE StrongReturn
    BY <2>0, <2>9 DEF StrongReturn, VisibilityInv
  <2>10. CASE CyclesDone
    BY <2>0, <2>10 DEF CyclesDone, Begin, VisibilityInv
  <2>11. CASE ResolveAllPaths
    BY <2>11, PathsKeep
  <2>12. CASE EnforceVisibility
    <3>1. ASSUME NEW b \in bindings PROVE Refused(b)' \/ IsVisibleFrom(b.sym, b.mod)
      <4> SUFFICES ASSUME ~IsVisibleFrom(b.sym, b.mod) PROVE Refused(b)'
        OBVIOUS
      <4>1. [what |-> "visibility", site |-> b.site, mod |-> b.mod, path |-> b.path] \in refused'
        BY <2>12 DEF EnforceVisibility
      <4> QED
        BY <4>1 DEF Refused
    <3> QED
      BY <2>0, <2>12, <3>1 DEF EnforceVisibility, Begin, VisibilityInv
  <2>13. CASE UNCHANGED resolveVars
    BY <2>0, <2>13 DEF resolveVars, VisibilityInv, Refused
  <2> QED
    BY <2>1, <2>2, <2>3, <2>4, <2>5, <2>6, <2>7, <2>8, <2>9, <2>10, <2>11, <2>12, <2>13 DEF ResolveNext
<1> QED
  BY <1>1, <1>2, PTL DEF ResolveSpec

\* What an import may re-export: an alias that m sees has a target that m sees.
LEMMA TargetIsVisible ==
  ASSUME NEW x, NEW m \in Modules, x.mod \in Modules, x.target.mod \in Modules,
         x.vis = x.target.vis, IsVisibleFrom(x, m), IsVisibleFrom(x.target, x.mod)
  PROVE  IsVisibleFrom(x.target, m)
<1>1. CASE x.target.vis = "pub(mod)" /\ IsDescendant(x.target.mod, x.mod) /\ IsDescendant(x.mod, m)
  BY <1>1, DescendantsDescend DEF IsVisibleFrom
<1> QED
  BY <1>1 DEF IsVisibleFrom

\* However long the chain of re-exports, and whatever the modules are called: a
\* name that was accepted, in a tree whose imports were accepted, stands for an
\* item its module may see (bindImportAlias, followAlias, enforceVisibility).
THEOREM AcceptedNamesAreSeen == ResolveSpec => []AcceptedNamesAreVisible
<1>1. VisibilityInv => AcceptedNamesAreVisible
  <2> SUFFICES ASSUME VisibilityInv, pass.name = "done", \A r \in refused : r.site # "import",
                      NEW b \in bindings, ~Refused(b), NEW hops \in 0 .. Cardinality(bindings)
               PROVE  IsVisibleFrom(FollowAlias(b.sym, hops), b.mod)
    BY DEF AcceptedNamesAreVisible
  <2>1. PICK Known : Holds(Known)
    BY DEF VisibilityInv
  <2>2. hops \in Nat
    BY FS_CardinalityType DEF VisibilityInv
  <2>3. \A x \in Known : Hop(x) \in Known
    BY <2>1 DEF Holds, Hop
  <2>4. b.sym \in Known
    BY <2>1 DEF Holds
  <2>5. PICK at \in [0 .. hops -> Known] : Follows(at, b.sym, hops)
    BY <2>2, <2>3, <2>4, FollowsHops
  <2> DEFINE S == {k \in 0 .. hops : IsVisibleFrom(at[k], b.mod)}
  <2>6. 0 \in S
    BY <2>2, <2>5 DEF Follows, VisibilityInv
  <2>7. ASSUME NEW i \in 1 .. hops, i - 1 \in S PROVE i \in S
    <3> DEFINE x == at[i - 1]
    <3>1. x \in Known /\ IsVisibleFrom(x, b.mod) /\ at[i] = Hop(x)
      BY <2>2, <2>5, <2>7 DEF Follows
    <3> HIDE DEF x
    <3>2. CASE x.kind # "alias"
      BY <3>1, <3>2 DEF Hop
    <3>3. CASE x.kind = "alias"
      <4>1. /\ x.mod \in Modules /\ x.target.mod \in Modules /\ x.vis = x.target.vis
            /\ \E c \in bindings : c.site = "import" /\ c.mod = x.mod /\ c.sym = x.target
        BY <2>1, <3>1, <3>3 DEF Holds
      <4>2. PICK c \in bindings : c.site = "import" /\ c.mod = x.mod /\ c.sym = x.target
        BY <4>1
      <4>3. ~Refused(c)
        BY <4>2 DEF Refused
      <4>4. IsVisibleFrom(x.target, x.mod)
        BY <4>2, <4>3 DEF VisibilityInv
      <4>5. IsVisibleFrom(x.target, b.mod)
        <5>1. b.mod \in Modules
          BY <2>1 DEF Holds
        <5> QED
          BY <3>1, <4>1, <4>4, <5>1, TargetIsVisible
      <4> QED
        BY <3>1, <3>3, <4>5 DEF Hop
    <3> QED
      BY <3>2, <3>3
  <2>8. hops \in S
    <3> HIDE DEF S
    <3>1. 0 .. hops \subseteq S
      BY <2>2, <2>6, <2>7, PrefixInduction
    <3> QED
      BY <2>2, <3>1
  <2> QED
    BY <2>5, <2>8 DEF Follows
<1> QED
  BY <1>1, VisibilityInvHolds, PTL

-----------------------------------------------------------------------------
(* Monomorphization.  Only concrete instances reach code generation, for   *)
(* every program and every type.                                           *)

\* What the passes that have run have left.
MonoInv ==
  /\ phase # "start" => input \in Sources
  /\ phase \in {"specialize", "rewrite", "done"} =>
       /\ wanted = {InstanceKey(c) : c \in {d \in Considered : Fits(d)}}
       /\ rejected = {c \in Considered : ~Fits(c)}
  /\ phase \in {"rewrite", "done"} => copies = {SpecializeFn(key) : key \in wanted}
  /\ phase = "done" => output = {RewriteItem(input[i]) : i \in DOMAIN input \ Generics} \cup copies

\* The passes read the program and the index of its generic functions.
LEMMA ReadsTheSame ==
  ASSUME UNCHANGED <<input, bySymbol>>
  PROVE  /\ Considered' = Considered /\ Generics' = Generics
         /\ \A c : Fits(c)' <=> Fits(c)
         /\ \A key : SpecializeFn(key)' = SpecializeFn(key)
         /\ \A f : RewriteItem(f)' = RewriteItem(f)
<1>1. Considered' = Considered
  BY DEF Considered, Calls
<1>2. Generics' = Generics
  BY DEF Generics, IsGeneric
<1>3. \A c : Fits(c)' <=> Fits(c)
  BY DEF Fits
<1>4. \A key : SpecializeFn(key)' = SpecializeFn(key)
  BY DEF SpecializeFn
<1>5. \A c : RewriteCall(c)' = RewriteCall(c)
  BY <1>1, <1>3 DEF RewriteCall, InstanceKey
<1>6. \A f : RewriteItem(f)' = RewriteItem(f)
  BY <1>5 DEF RewriteItem
<1> QED
  BY <1>1, <1>2, <1>3, <1>4, <1>6

LEMMA Collected ==
  ASSUME UNCHANGED <<input, bySymbol, wanted, rejected>>, MonoInv,
         phase \in {"specialize", "rewrite", "done"}
  PROVE  /\ input' \in Sources
         /\ wanted' = {InstanceKey(c) : c \in {d \in Considered' : Fits(d)'}}
         /\ rejected' = {c \in Considered' : ~Fits(c)'}
<1>1. Considered' = Considered /\ \A c : Fits(c)' <=> Fits(c)
  BY ReadsTheSame
<1> QED
  BY <1>1 DEF MonoInv

LEMMA MonoInvHolds == MonoSpec => []MonoInv
<1>1. MonoInit => MonoInv
  BY DEF MonoInit, MonoInv
<1>2. MonoInv /\ [MonoNext]_monoVars => MonoInv'
  <2> SUFFICES ASSUME MonoInv, [MonoNext]_monoVars PROVE MonoInv'
    OBVIOUS
  <2>1. CASE NewMono
    BY <2>1 DEF NewMono, MonoInv
  <2>2. CASE IndexGenerics
    BY <2>2 DEF IndexGenerics, MonoInv
  <2>3. CASE CollectInstantiations
    <3>1. UNCHANGED <<input, bySymbol>>
      BY <2>3 DEF CollectInstantiations
    <3>2. Considered' = Considered
      BY <3>1, ReadsTheSame
    <3>3. \A c : Fits(c)' <=> Fits(c)
      BY <3>1, ReadsTheSame
    <3>4. /\ wanted' = {InstanceKey(c) : c \in {d \in Considered : Fits(d)}}
          /\ rejected' = {c \in Considered : ~Fits(c)}
          /\ phase' = "specialize"
      BY <2>3 DEF CollectInstantiations
    <3>5. {InstanceKey(c) : c \in {d \in Considered : Fits(d)}}
            = {InstanceKey(c) : c \in {d \in Considered' : Fits(d)'}}
      BY <3>2, <3>3
    <3>6. {c \in Considered : ~Fits(c)} = {c \in Considered' : ~Fits(c)'}
      BY <3>2, <3>3
    <3>7. input' \in Sources
      BY <2>3 DEF CollectInstantiations, MonoInv
    <3> QED
      BY <3>4, <3>5, <3>6, <3>7 DEF MonoInv, InstanceKey
  <2>4. CASE SpecializeAll
    <3>1. UNCHANGED <<input, bySymbol, wanted, rejected>> /\ phase = "specialize" /\ phase' = "rewrite"
      BY <2>4 DEF SpecializeAll
    <3>2. copies' = {SpecializeFn(key) : key \in wanted}
      BY <2>4 DEF SpecializeAll
    <3>3. \A key : SpecializeFn(key)' = SpecializeFn(key)
      BY <3>1, ReadsTheSame
    <3>4. {SpecializeFn(key) : key \in wanted} = {SpecializeFn(key)' : key \in wanted'}
      BY <3>1, <3>3
    <3> QED
      BY <3>1, <3>2, <3>4, Collected DEF MonoInv
  <2>5. CASE BuildOutput
    <3>1. UNCHANGED <<input, bySymbol, wanted, rejected, copies>> /\ phase = "rewrite" /\ phase' = "done"
      BY <2>5 DEF BuildOutput
    <3>2. output' = {RewriteItem(input[i]) : i \in DOMAIN input \ Generics} \cup copies
      BY <2>5 DEF BuildOutput
    <3>3. \A key : SpecializeFn(key)' = SpecializeFn(key)
      BY <3>1, ReadsTheSame
    <3>4. {SpecializeFn(key) : key \in wanted} = {SpecializeFn(key)' : key \in wanted'}
      BY <3>1, <3>3
    <3>5. \A f : RewriteItem(f)' = RewriteItem(f)
      BY <3>1, ReadsTheSame
    <3>6. DOMAIN input' \ Generics' = DOMAIN input \ Generics
      BY <3>1, ReadsTheSame
    <3>7. \A i : RewriteItem(input[i])' = RewriteItem(input[i])
      BY <3>1, <3>5
    <3>8. {RewriteItem(input[i]) : i \in DOMAIN input \ Generics}
            = {RewriteItem(input[i])' : i \in (DOMAIN input \ Generics)'}
      BY <3>6, <3>7
    <3>9. (output = {RewriteItem(input[i]) : i \in DOMAIN input \ Generics} \cup copies)'
      BY <3>1, <3>2, <3>8
    <3>10. (copies = {SpecializeFn(key) : key \in wanted})'
      BY <3>1, <3>4 DEF MonoInv
    <3>11. (/\ input \in Sources
           /\ wanted = {InstanceKey(c) : c \in {d \in Considered : Fits(d)}}
           /\ rejected = {c \in Considered : ~Fits(c)})'
      BY <3>1, Collected
    <3> QED
      BY <3>9, <3>10, <3>11, Zenon DEF MonoInv
  <2>6. CASE UNCHANGED monoVars
    <3>1. UNCHANGED <<input, phase, bySymbol, wanted, rejected, copies, output>>
      BY <2>6 DEF monoVars
    <3>2. (phase # "start" => input \in Sources)'
      BY <3>1 DEF MonoInv
    <3>3. (phase \in {"specialize", "rewrite", "done"} =>
             /\ wanted = {InstanceKey(c) : c \in {d \in Considered : Fits(d)}}
             /\ rejected = {c \in Considered : ~Fits(c)})'
      BY <3>1, Collected
    <3>4. {SpecializeFn(key) : key \in wanted} = {SpecializeFn(key)' : key \in wanted'}
      BY <3>1, ReadsTheSame
    <3>5. (phase \in {"rewrite", "done"} => copies = {SpecializeFn(key) : key \in wanted})'
      BY <3>1, <3>4 DEF MonoInv
    <3>6. \A i : RewriteItem(input[i])' = RewriteItem(input[i])
      BY <3>1, ReadsTheSame
    <3>7. {RewriteItem(input[i]) : i \in DOMAIN input \ Generics}
            = {RewriteItem(input[i])' : i \in (DOMAIN input \ Generics)'}
      BY <3>1, <3>6, ReadsTheSame
    <3>8. (phase = "done" => output = {RewriteItem(input[i]) : i \in DOMAIN input \ Generics} \cup copies)'
      BY <3>1, <3>7 DEF MonoInv
    <3> QED
      BY <3>2, <3>3, <3>5, <3>8, Zenon DEF MonoInv
  <2> QED
    BY <2>1, <2>2, <2>3, <2>4, <2>5, <2>6 DEF MonoNext
<1> QED
  BY <1>1, <1>2, PTL DEF MonoSpec

\* substType stops at the types it does not rebuild, the language at none: the
\* same, of a type without a parameter under those.
LEMMA SubstIsInstantiation ==
  ASSUME NEW t, IsType(t), ~HidesParam(t), NEW subst,
         \A g \in DOMAIN subst : g[<<>>].kind = "Param"
  PROVE  SubstType(t, subst) = Instantiated(t, subst)
<1>1. ASSUME NEW p \in DOMAIN t, PartAt(t, p) \in DOMAIN subst PROVE t[p].kind = "Param"
  <2>1. p \in Seq(Nat)
    BY DEF IsType
  <2>2. p \in Prefixes(p) /\ SubSeq(p, Len(p) + 1, Len(p)) = <<>>
    BY <2>1 DEF Prefixes
  <2>3. p \o <<>> = p
    BY <2>1
  <2>4. PartAt(t, p)[<<>>] = t[p]
    BY <2>2, <2>3 DEF PartAt
  <2> QED
    BY <1>1, <2>4
<1>2. ASSUME NEW p \in DOMAIN t, PartAt(t, p) \in DOMAIN subst, NEW q \in Enclosing(p)
      PROVE  t[q].kind \in Rebuilt /\ PartAt(t, q) \notin DOMAIN subst
  <2>1. q \in DOMAIN t
    BY DEF Enclosing, IsType
  <2>2. t[q].kind \in Rebuilt
    BY <1>1, <1>2 DEF HidesParam
  <2>3. "Param" \notin Rebuilt
    BY DEF Rebuilt
  <2> QED
    BY <1>1, <2>1, <2>2, <2>3
<1>3. {p \in DOMAIN t : /\ PartAt(t, p) \in DOMAIN subst
                        /\ \A q \in Enclosing(p) : t[q].kind \in Rebuilt /\ PartAt(t, q) \notin DOMAIN subst}
      = {p \in DOMAIN t : PartAt(t, p) \in DOMAIN subst}
  BY <1>2
<1> QED
  BY <1>3, Zenon DEF SubstType, Instantiated

LEMMA NothingToReplace ==
  ASSUME NEW t, IsType(t), NEW subst, DOMAIN subst = {}
  PROVE  Instantiated(t, subst) = t
<1>1. Instantiated(t, subst) = Graft(t, subst, {})
  BY Zenon DEF Instantiated
<1>2. {p \in DOMAIN t : {} \cap Prefixes(p) = {}} = DOMAIN t
  OBVIOUS
<1>3. UNION {{a \o q : q \in DOMAIN subst[PartAt(t, a)]} : a \in {}} = {}
  OBVIOUS
<1>4. Graft(t, subst, {}) = [p \in DOMAIN t |-> t[p]]
  <2> DEFINE kept == {p \in DOMAIN t : {} \cap Prefixes(p) = {}}
             new == UNION {{a \o q : q \in DOMAIN subst[PartAt(t, a)]} : a \in {}}
             root(p) == CHOOSE a \in {} : a \in Prefixes(p)
             grafted(p) == subst[PartAt(t, root(p))][SubSeq(p, Len(root(p)) + 1, Len(p))]
  <2>1. Graft(t, subst, {}) = [p \in kept \cup new |-> IF p \in kept THEN t[p] ELSE grafted(p)]
    BY DEF Graft
  <2>2. kept = DOMAIN t /\ kept \cup new = DOMAIN t
    BY <1>2, <1>3
  <2> HIDE DEF kept, new, grafted
  <2> QED
    BY <2>1, <2>2
<1> QED
  BY <1>1, <1>4 DEF IsType

\* Each symbol is one item's, and the program is as the bridge makes it.
LEMMA ProgramOfItems ==
  ASSUME MonoInv, phase # "start", NEW i \in DOMAIN input
  PROVE  /\ IsItem(input[i], input) /\ input[i].item \in {"fn", "method", "const"}
         /\ \A j \in DOMAIN input : input[j].sym = input[i].sym => j = i
         /\ ItemOf(input[i].sym) = input[i]
         /\ \A j \in DOMAIN input : IsGeneric(input[i]) /\ IsGeneric(input[j])
              /\ input[i].mod = input[j].mod /\ input[i].name[1] = input[j].name[1] => i = j
<1>1. input \in Sources
  BY DEF MonoInv
<1>2. IsItem(input[i], input) /\ input[i].item \in {"fn", "method", "const"}
  BY <1>1, SourcesAssumption
<1>3. \A j \in DOMAIN input : input[j].sym = input[i].sym => j = i
  BY <1>1, SourcesAssumption
<1>4. (CHOOSE j \in DOMAIN input : input[j].sym = input[i].sym) = i
  BY <1>3
<1>5. ItemOf(input[i].sym) = input[i]
  BY <1>4 DEF ItemOf
<1>6. ASSUME NEW j \in DOMAIN input, IsGeneric(input[i]), IsGeneric(input[j]),
             input[i].mod = input[j].mod, input[i].name[1] = input[j].name[1]
      PROVE  i = j
  <2>1. HasSymbol(input[i]) /\ HasSymbol(input[j])
    BY <1>6 DEF IsGeneric, HasSymbol
  <2> QED
    BY <1>1, <1>6, <2>1, SourcesAssumption
<1> QED
  BY <1>2, <1>3, <1>5, <1>6

\* An index that is right finds the generic function a symbol names.
LEMMA IndexFinds ==
  ASSUME MonoInv, phase # "start", Indexed, NEW t \in DOMAIN input
  PROVE  /\ input[t].sym \in DOMAIN bySymbol <=> IsGeneric(input[t])
         /\ IsGeneric(input[t]) => bySymbol[input[t].sym] = t
<1>1. DOMAIN bySymbol = {input[g].sym : g \in Generics}
  BY DEF Indexed
<1>2. \A g \in Generics : g \in DOMAIN input /\ IsGeneric(input[g])
  BY DEF Generics
<1>3. \A g \in DOMAIN input : input[g].sym = input[t].sym => g = t
  BY ProgramOfItems
<1>4. input[t].sym \in DOMAIN bySymbol => IsGeneric(input[t])
  BY <1>1, <1>2, <1>3
<1>5. IsGeneric(input[t]) => t \in Generics
  BY DEF Generics
<1>6. IsGeneric(input[t]) => input[t].sym \in DOMAIN bySymbol
  BY <1>1, <1>5
<1>7. ASSUME IsGeneric(input[t]) PROVE bySymbol[input[t].sym] = t
  <2>1. bySymbol[input[t].sym] = CHOOSE g \in Generics : input[g].sym = input[t].sym
    BY <1>1, <1>6, <1>7 DEF Indexed
  <2> QED
    BY <1>2, <1>3, <1>5, <1>7, <2>1
<1> QED
  BY <1>4, <1>6, <1>7

\* The copy a call asks for is the instance its type arguments ask for.
LEMMA CopyIsInstance ==
  ASSUME MonoInv, phase # "start", Indexed, NEW t \in DOMAIN input, IsGeneric(input[t]), NEW targs
  PROVE  /\ SpecializeFn([of |-> input[t].sym.of, targs |-> targs]).sym = [of |-> input[t].sym.of, targs |-> targs]
         /\ IsInstance(SpecializeFn([of |-> input[t].sym.of, targs |-> targs]), input[t], targs)
<1> DEFINE key == [of |-> input[t].sym.of, targs |-> targs]
           f == input[t]
           subst == [p \in {f.generics[i] : i \in DOMAIN f.generics} |->
                       targs[CHOOSE i \in DOMAIN f.generics : f.generics[i] = p]]
           substituted(ts) == [i \in DOMAIN ts |-> SubstType(ts[i], subst)]
           o == SpecializeFn(key)
<1>1. IsItem(f, input)
  BY ProgramOfItems
<1>2. input[bySymbol[Own(key.of)]] = f
  <2>1. Own(key.of) = f.sym
    BY <1>1 DEF IsItem
  <2> QED
    BY <2>1, IndexFinds
<1>3. key.targs = targs
  OBVIOUS
<1>4. o.sym = key /\ o.mod = f.mod /\ o.sig = substituted(f.sig) /\ o.types = substituted(f.types)
  BY <1>2, <1>3 DEF SpecializeFn
<1>5. \A g \in DOMAIN subst : g[<<>>].kind = "Param"
  BY <1>1 DEF IsItem
<1> HIDE DEF subst
<1>6. ASSUME NEW us, \A j \in DOMAIN us : IsType(us[j])
      PROVE  \A j \in DOMAIN us : ~HidesParam(us[j]) => substituted(us)[j] = Instantiated(us[j], subst)
  BY <1>5, <1>6, SubstIsInstantiation
<1>7. /\ \A j \in DOMAIN f.sig : ~HidesParam(f.sig[j]) => o.sig[j] = Instantiated(f.sig[j], subst)
      /\ \A j \in DOMAIN f.types : ~HidesParam(f.types[j]) => o.types[j] = Instantiated(f.types[j], subst)
  BY <1>1, <1>4, <1>6 DEF IsItem
<1>8. IsInstance(o, f, targs)
  BY <1>4, <1>7 DEF IsInstance, subst
<1> QED
  BY <1>4, <1>8

\* A function without parameters is its own instance.
LEMMA OwnInstance ==
  ASSUME MonoInv, phase # "start", NEW t \in DOMAIN input, HasSymbol(input[t]), ~IsGeneric(input[t]), NEW targs
  PROVE  /\ RewriteItem(input[t]).sym = input[t].sym
         /\ IsInstance(RewriteItem(input[t]), input[t], targs)
<1> DEFINE f == input[t]
           o == RewriteItem(f)
           subst == [p \in {f.generics[i] : i \in DOMAIN f.generics} |->
                       targs[CHOOSE i \in DOMAIN f.generics : f.generics[i] = p]]
<1>1. IsItem(f, input) /\ f.item \in {"fn", "method", "const"}
  BY ProgramOfItems
<1>2. f.generics = <<>>
  BY <1>1 DEF HasSymbol, IsGeneric, IsItem
<1>3. o.sym = f.sym /\ o.mod = f.mod /\ o.sig = f.sig /\ o.types = f.types
  BY <1>1 DEF RewriteItem, IsItem
<1>4. DOMAIN subst = {}
  BY <1>2
<1> HIDE DEF subst
<1>5. \A u : IsType(u) => Instantiated(u, subst) = u
  BY <1>4, NothingToReplace
<1>6. /\ \A j \in DOMAIN f.sig : o.sig[j] = Instantiated(f.sig[j], subst)
      /\ \A j \in DOMAIN f.types : o.types[j] = Instantiated(f.types[j], subst)
  BY <1>1, <1>3, <1>5 DEF IsItem
<1> QED
  BY <1>3, <1>6 DEF IsInstance, subst

\* A walked call of a function that is not generic, once the passes are done.
LEMMA CallsFindTheirInstances ==
  ASSUME MonoInv, phase = "done", rejected = {}, Indexed,
         NEW i \in DOMAIN input \ Generics, NEW k \in DOMAIN input[i].calls,
         input[i].calls[k].walked, input[i].item # "const"
  PROVE  \E after \in output : after.sym = input[i].sym /\
           \E o \in output : o.sym = after.calls[k].callee /\
             IsInstance(o, ItemOf(input[i].calls[k].callee), input[i].calls[k].targs)
<1> DEFINE c == input[i].calls[k]
           after == RewriteItem(input[i])
<1>1. IsItem(input[i], input) /\ IsCall(c, input)
  BY ProgramOfItems DEF IsItem
<1>2. after \in output /\ after.sym = input[i].sym /\ after.calls[k] = RewriteCall(c)
  <2>1. after \in output
    BY DEF MonoInv
  <2>2. after.sym = input[i].sym /\ after.calls = [x \in DOMAIN input[i].calls |-> RewriteCall(input[i].calls[x])]
    BY <1>1 DEF RewriteItem, IsItem
  <2> QED
    BY <2>1, <2>2
<1>3. PICK t \in DOMAIN input : input[t].sym = c.callee /\ HasSymbol(input[t])
  BY <1>1 DEF IsCall
<1>4. ItemOf(c.callee) = input[t]
  BY <1>3, ProgramOfItems
<1> HIDE DEF after
<1>5. CASE IsGeneric(input[t])
  <2>1. c.callee \in DOMAIN bySymbol
    BY <1>3, <1>5, IndexFinds
  <2>2. c \in Considered
    BY <2>1 DEF Considered, Calls
  <2>3. Fits(c)
    BY <2>2 DEF MonoInv
  <2>4. RewriteCall(c).callee = InstanceKey(c)
    BY <1>1, <2>2, <2>3 DEF RewriteCall, IsCall
  <2>5. SpecializeFn(InstanceKey(c)) \in output
    <3>1. InstanceKey(c) \in wanted
      BY <2>2, <2>3 DEF MonoInv
    <3>2. SpecializeFn(InstanceKey(c)) \in copies
      BY <3>1 DEF MonoInv
    <3> QED
      BY <3>2 DEF MonoInv
  <2>6. InstanceKey(c) = [of |-> input[t].sym.of, targs |-> c.targs]
    BY <1>3 DEF InstanceKey
  <2>7. SpecializeFn(InstanceKey(c)).sym = InstanceKey(c) /\ IsInstance(SpecializeFn(InstanceKey(c)), input[t], c.targs)
    BY <1>5, <2>6, CopyIsInstance
  <2> QED
    BY <1>2, <1>4, <2>4, <2>5, <2>7
<1>6. CASE ~IsGeneric(input[t])
  <2>1. c \notin Considered
    BY <1>3, <1>6, IndexFinds DEF Considered
  <2>2. RewriteCall(c) = c
    BY <2>1 DEF RewriteCall
  <2>3. RewriteItem(input[t]) \in output
    BY <1>6 DEF MonoInv, Generics
  <2>4. RewriteItem(input[t]).sym = c.callee /\ IsInstance(RewriteItem(input[t]), input[t], c.targs)
    BY <1>3, <1>6, OwnInstance
  <2> QED
    BY <1>2, <1>4, <2>2, <2>3, <2>4
<1> QED
  BY <1>5, <1>6

\* A copy is the one some call asked for.
AskedFor(o, t, c) ==
  /\ IsGeneric(input[t]) /\ IsCall(c, input)
  /\ o.sym = [of |-> input[t].sym.of, targs |-> c.targs]
  /\ o.mod = input[t].mod /\ o.name = MangledName(input[t], c.targs)
  /\ o.calls = [k \in DOMAIN input[t].calls |-> CopyCall(input[t].calls[k])]

LEMMA CopyOfACall ==
  ASSUME MonoInv, phase = "done", Indexed, NEW o \in copies
  PROVE  \E t \in DOMAIN input : \E c : AskedFor(o, t, c)
<1>1. PICK key \in wanted : o = SpecializeFn(key)
  BY DEF MonoInv
<1>2. PICK d \in Considered : key = InstanceKey(d)
  BY DEF MonoInv
<1>3. PICK i \in DOMAIN input : d \in Calls(input[i])
  BY DEF Considered
<1>4. PICK k \in DOMAIN input[i].calls : d = input[i].calls[k]
  BY <1>3 DEF Calls
<1>5. IsCall(d, input)
  BY <1>4, ProgramOfItems DEF IsItem
<1>6. PICK t \in DOMAIN input : input[t].sym = d.callee
  BY <1>5 DEF IsCall
<1>7. IsGeneric(input[t]) /\ bySymbol[input[t].sym] = t
  <2>1. d.callee \in DOMAIN bySymbol
    BY DEF Considered
  <2> QED
    BY <1>6, <2>1, IndexFinds
<1>8. key = [of |-> input[t].sym.of, targs |-> d.targs]
  BY <1>2, <1>6 DEF InstanceKey
<1>9. input[bySymbol[Own(key.of)]] = input[t]
  <2>1. Own(key.of) = input[t].sym
    BY <1>8, ProgramOfItems DEF IsItem
  <2> QED
    BY <1>7, <2>1
<1>10. key.targs = d.targs
  BY <1>8
<1>11. /\ o.sym = key /\ o.mod = input[t].mod /\ o.name = MangledName(input[t], d.targs)
       /\ o.calls = [j \in DOMAIN input[t].calls |-> CopyCall(input[t].calls[j])]
  BY <1>1, <1>9, <1>10 DEF SpecializeFn
<1> QED
  BY <1>5, <1>7, <1>8, <1>11 DEF AskedFor

LEMMA CopiesFindTheItemsTheyCall ==
  ASSUME MonoInv, phase = "done", Indexed, NEW o \in copies, NEW c \in Calls(o),
         ~IsGeneric(ItemOf(c.callee))
  PROVE  \E p \in output : p.sym = c.callee
<1>1. PICK t \in DOMAIN input : o.calls = [k \in DOMAIN input[t].calls |-> CopyCall(input[t].calls[k])]
  BY CopyOfACall DEF AskedFor
<1>2. PICK k \in DOMAIN input[t].calls : c = CopyCall(input[t].calls[k])
  BY <1>1 DEF Calls
<1>3. IsCall(input[t].calls[k], input)
  BY ProgramOfItems DEF IsItem
<1>4. c.callee = input[t].calls[k].callee
  BY <1>2, <1>3 DEF CopyCall, IsCall
<1>5. PICK u \in DOMAIN input : input[u].sym = c.callee /\ HasSymbol(input[u])
  BY <1>3, <1>4 DEF IsCall
<1>6. ~IsGeneric(input[u])
  BY <1>5, ProgramOfItems
<1>7. RewriteItem(input[u]) \in output
  BY <1>6 DEF MonoInv, Generics
<1> QED
  BY <1>5, <1>6, <1>7, OwnInstance

\* What a mangled name says of a type that has no parts.
LEMMA MangledAlike ==
  ASSUME NEW s, NEW t, IsType(s), IsType(t), s # t, MangledType(s) = MangledType(t),
         DOMAIN s = {<<>>}, DOMAIN t = {<<>>}, s[<<>>].kind # "Param"
  PROVE  s[<<>>].kind \in NominalTypes /\ s[<<>>].of.name = t[<<>>].of.name
<1> DEFINE a == s[<<>>]
           b == t[<<>>]
<1>1. /\ a \in [kind : STRING, of : [name : STRING, where : STRING]]
      /\ b \in [kind : STRING, of : [name : STRING, where : STRING]]
      /\ s = [p \in {<<>>} |-> a] /\ t = [p \in {<<>>} |-> b]
  BY DEF IsType
<1>2. a.kind = b.kind
  BY DEF MangledType
<1>3. a # b
  BY <1>1
<1>4. a.of # b.of
  BY <1>1, <1>2, <1>3
<1>5. a.kind \in NominalTypes
  <2>1. a.kind \in NominalTypes \cup {"Param"} \/ a.of = Undeclared
    BY DEF IsType
  <2>2. b.kind \in NominalTypes \cup {"Param"} \/ b.of = Undeclared
    BY DEF IsType
  <2> QED
    BY <1>2, <1>4, <2>1, <2>2
<1>6. a.of.name = b.of.name
  BY <1>2, <1>5 DEF MangledType
<1> QED
  BY <1>5, <1>6

LEMMA NamesCollideOnly ==
  ASSUME MonoInv, phase = "done", Indexed, NEW o \in copies, NEW p \in copies,
         o.mod = p.mod, o.name = p.name, o.sym # p.sym
  PROVE  \E j \in DOMAIN o.sym.targs :
           /\ o.sym.targs[j] # p.sym.targs[j]
           /\ \/ DOMAIN o.sym.targs[j] # {<<>>} \/ DOMAIN p.sym.targs[j] # {<<>>}
              \/ o.sym.targs[j][<<>>].kind = "Param"
              \/ /\ o.sym.targs[j][<<>>].kind \in NominalTypes
                 /\ o.sym.targs[j][<<>>].of.name = p.sym.targs[j][<<>>].of.name
<1>1. PICK t \in DOMAIN input : \E c : AskedFor(o, t, c)
  BY CopyOfACall
<1>2. PICK u \in DOMAIN input : \E c : AskedFor(p, u, c)
  BY CopyOfACall
<1> DEFINE named(ts) == [i \in DOMAIN ts |-> MangledType(ts[i])]
<1>3. PICK c : AskedFor(o, t, c)
  BY <1>1
<1>4. PICK d : AskedFor(p, u, d)
  BY <1>2
<1>5. o.name = <<input[t].name[1], named(c.targs)>> /\ p.name = <<input[u].name[1], named(d.targs)>>
  BY <1>3, <1>4 DEF AskedFor, MangledName
<1>6. input[t].name[1] = input[u].name[1] /\ named(c.targs) = named(d.targs)
  <2> DEFINE A == named(c.targs)
             B == named(d.targs)
  <2>1. <<input[t].name[1], A>> = <<input[u].name[1], B>>
    BY <1>5
  <2> HIDE DEF A, B
  <2>2. input[t].name[1] = input[u].name[1] /\ A = B
    BY <2>1
  <2> QED
    BY <2>2 DEF A, B
<1>7. t = u
  BY <1>3, <1>4, <1>6, ProgramOfItems DEF AskedFor
<1>8. c.targs # d.targs
  BY <1>3, <1>4, <1>7 DEF AskedFor
<1>9. DOMAIN c.targs = DOMAIN d.targs /\ \A j \in DOMAIN c.targs : MangledType(c.targs[j]) = MangledType(d.targs[j])
  <2>1. DOMAIN named(c.targs) = DOMAIN named(d.targs)
    BY <1>6
  <2>2. \A j \in DOMAIN c.targs : named(c.targs)[j] = named(d.targs)[j]
    BY <1>6
  <2> QED
    BY <2>1, <2>2
<1>10. PICK j \in DOMAIN c.targs : c.targs[j] # d.targs[j]
  <2>1. c.targs = [i \in DOMAIN c.targs |-> c.targs[i]] /\ d.targs = [i \in DOMAIN d.targs |-> d.targs[i]]
    BY <1>3, <1>4 DEF AskedFor, IsCall
  <2> QED
    BY <1>8, <1>9, <2>1
<1>11. IsType(c.targs[j]) /\ IsType(d.targs[j])
  BY <1>3, <1>4, <1>9 DEF AskedFor, IsCall
<1>12. o.sym.targs = c.targs /\ p.sym.targs = d.targs
  BY <1>3, <1>4 DEF AskedFor
<1>13. MangledType(c.targs[j]) = MangledType(d.targs[j])
  BY <1>9
<1>14. \/ DOMAIN c.targs[j] # {<<>>} \/ DOMAIN d.targs[j] # {<<>>}
       \/ c.targs[j][<<>>].kind = "Param"
       \/ /\ c.targs[j][<<>>].kind \in NominalTypes
          /\ c.targs[j][<<>>].of.name = d.targs[j][<<>>].of.name
  BY <1>10, <1>11, <1>13, MangledAlike
<1> QED
  BY <1>10, <1>12, <1>14

\* For every program the bridge can hand over, whatever its types: "only
\* concrete instantiations reach codegen" (buildOutput), as far as
\* OutputIsConcrete says they do.
THEOREM MonoOutputIsConcrete == MonoSpec => []OutputIsConcrete
<1>1. MonoInv => OutputIsConcrete
  <2> SUFFICES ASSUME MonoInv, phase = "done", rejected = {}, Indexed
               PROVE  OutputIsConcrete
    BY DEF OutputIsConcrete
  <2>1. ASSUME NEW i \in DOMAIN input \ Generics, NEW k \in DOMAIN input[i].calls,
               input[i].calls[k].walked /\ input[i].item # "const"
        PROVE  \E after \in output : after.sym = input[i].sym /\
                 \E o \in output : o.sym = after.calls[k].callee /\
                   IsInstance(o, ItemOf(input[i].calls[k].callee), input[i].calls[k].targs)
    BY <2>1, CallsFindTheirInstances
  <2>2. \A o \in copies : \A c \in Calls(o) :
          ~IsGeneric(ItemOf(c.callee)) => \E p \in output : p.sym = c.callee
    BY CopiesFindTheItemsTheyCall
  <2> QED
    BY <2>1, <2>2, NamesCollideOnly DEF OutputIsConcrete
<1> QED
  BY <1>1, MonoInvHolds, PTL

-----------------------------------------------------------------------------
(* Liveness.  The use-after-move check, for every function.                *)

Names == STRING \ {BlockMark}
Entries == [name : Names \cup {BlockMark}, gone : BOOLEAN]
Envs == [live : SUBSET Names, moved : SUBSET Names, used : SUBSET Names]
RunsOfFn == [scope : Seq(Entries), skip : Nat, left : BOOLEAN, bad : SUBSET Names]

LiveTypeOK ==
  /\ body \in Seq(Stmts) /\ nextStmt \in Nat
  /\ env \in Envs /\ run \in RunsOfFn
  /\ nextStmt = 0 => body = <<>> /\ run = RunStart /\ env.moved = {} /\ env.used = {}

\* Every name in scope is one the walk has met, and every value that is gone
\* one it has seen move.
Tracked(v, scope) ==
  \A i \in DOMAIN scope :
    /\ scope[i].name # BlockMark => scope[i].name \in v.live \cup v.moved
    /\ scope[i].gone => scope[i].name \in v.moved

\* The environments of the walk.
LEMMA WalkType ==
  ASSUME NEW v \in Envs, NEW s \in Stmts
  PROVE  /\ Read(v, s.val) \in Envs /\ Move(v, s.val) \in Envs /\ Bind(v, s.name) \in Envs
         /\ WalkMoveStmt(v, s) \in Envs
<1>1. /\ s.name \in Names /\ s.val.name \in Names
  BY DEF Stmts, Names
<1>2. \A u \in Envs : Read(u, s.val) \in Envs /\ Move(u, s.val) \in Envs /\ Bind(u, s.name) \in Envs
  BY <1>1 DEF Envs, Read, Move, Bind
<1> QED
  BY <1>2 DEF WalkMoveStmt

\* A statement changes no more of the run than its scope, its reads and
\* whether it has returned.
LEMMA DoesType ==
  ASSUME NEW r \in RunsOfFn, NEW s \in Stmts
  PROVE  /\ Reads(r, s.val) \in RunsOfFn /\ Moves(r, s) \in RunsOfFn /\ Binds(r, s) \in RunsOfFn
         /\ Does(r, s) \in RunsOfFn
<1>1. /\ s.name \in Names /\ s.val.name \in Names 
  BY DEF Stmts, Names
<1>2. \A q \in RunsOfFn : Reads(q, s.val) \in RunsOfFn
  BY <1>1 DEF RunsOfFn, Reads
<1>3. ASSUME NEW q \in RunsOfFn PROVE Moves(q, s) \in RunsOfFn
  <2> DEFINE scope == [i \in DOMAIN q.scope |->
                IF IsInnermost(q.scope, s.val.name, i) THEN [name |-> s.val.name, gone |-> TRUE] ELSE q.scope[i]]
  <2>1. q.scope \in Seq(Entries)
    BY DEF RunsOfFn
  <2>2. DOMAIN q.scope = 1 .. Len(q.scope) /\ Len(q.scope) \in Nat
    BY <2>1
  <2>3. ASSUME NEW i \in 1 .. Len(q.scope) PROVE scope[i] \in Entries
    <3>1. q.scope[i] \in Entries
      BY <2>1, ElementOfSeq
    <3>2. [name |-> s.val.name, gone |-> TRUE] \in Entries
      BY <1>1 DEF Entries
    <3> QED
      BY <2>2, <3>1, <3>2
  <2>4. scope \in Seq(Entries)
    <3>1. scope \in [1 .. Len(q.scope) -> Entries]
      <4>1. DOMAIN scope = 1 .. Len(q.scope) /\ scope = [i \in DOMAIN scope |-> scope[i]]
        BY <2>2
      <4> HIDE DEF scope
      <4> QED
        BY <2>3, <4>1
    <3> HIDE DEF scope
    <3>2. \A n \in Nat : [1 .. n -> Entries] \subseteq Seq(Entries)
      BY SeqDef
    <3> QED
      BY <2>2, <3>1, <3>2
  <2>5. Moves(q, s) = IF s.s \in Binders \cup {"owned"} /\ s.val.e = "path" /\ ~s.val.copy THEN [q EXCEPT !.scope = scope] ELSE q
    BY Zenon DEF Moves
  <2> HIDE DEF scope
  <2>6. [q EXCEPT !.scope = scope] \in RunsOfFn
    BY <2>4 DEF RunsOfFn
  <2> QED
    BY <2>5, <2>6
<1>4. ASSUME NEW q \in RunsOfFn PROVE Binds(q, s) \in RunsOfFn
  <2>1. q.scope \in Seq(Entries)
    BY DEF RunsOfFn
  <2>2. Binding(s.name) \in Entries
    BY <1>1 DEF Entries, Binding
  <2>3. Append(q.scope, Binding(s.name)) \in Seq(Entries)
    BY <2>1, <2>2, AppendProperties
  <2> QED
    BY <2>3 DEF RunsOfFn, Binds
<1>5. \A q \in RunsOfFn : [q EXCEPT !.left = (s.s = "return")] \in RunsOfFn
  BY DEF RunsOfFn
<1> QED
  BY <1>2, <1>3, <1>4, <1>5 DEF Does

\* A read of a moved value is diagnosed.
LEMMA ReadIsCaught ==
  ASSUME NEW v \in Envs, NEW r \in RunsOfFn, NEW s \in Stmts, Tracked(v, r.scope), r.bad \subseteq v.used,
         s.val.e # "unwalked"
  PROVE  LET w == IF s.val.e = "path" THEN Read(v, s.val) ELSE v
         IN  /\ w \in Envs /\ w.live = v.live /\ w.moved = v.moved
             /\ Reads(r, s.val).scope = r.scope /\ Reads(r, s.val).bad \subseteq w.used /\ r.bad \subseteq w.used
<1> DEFINE w == IF s.val.e = "path" THEN Read(v, s.val) ELSE v
<1>1. w \in Envs
  BY WalkType
<1>2. w.live = v.live /\ w.moved = v.moved /\ v.used \subseteq w.used
  BY DEF Envs, Read
<1>3. Reads(r, s.val).scope = r.scope
  BY DEF RunsOfFn, Reads
<1>4. Reads(r, s.val).bad \subseteq w.used
  <2>1. CASE s.val.e = "path" /\ \E i \in DOMAIN r.scope : IsInnermost(r.scope, s.val.name, i) /\ r.scope[i].gone
    <3>1. s.val.name \in v.moved
      BY <2>1 DEF Tracked, IsInnermost
    <3>2. w.used = v.used \cup {s.val.name}
      BY <2>1, <3>1 DEF Envs, Read
    <3>3. Reads(r, s.val).bad = r.bad \cup {s.val.name}
      BY <2>1 DEF RunsOfFn, Reads
    <3> QED
      BY <3>2, <3>3
  <2>2. CASE ~(s.val.e = "path" /\ \E i \in DOMAIN r.scope : IsInnermost(r.scope, s.val.name, i) /\ r.scope[i].gone)
    BY <1>2, <2>2 DEF Reads
  <2> QED
    BY <2>1, <2>2
<1> QED
  BY <1>1, <1>2, <1>3, <1>4

\* So is what a binding takes from a name: the walk sees it move.
LEMMA MoveIsSeen ==
  ASSUME NEW v \in Envs, NEW r \in RunsOfFn, NEW s \in Stmts, Tracked(v, r.scope), s.s = "owned" => s.val.copy
  PROVE  LET w == IF s.s \in Binders /\ s.val.e = "path" THEN Move(v, s.val) ELSE v
         IN  /\ w \in Envs /\ w.used = v.used /\ v.live \cup v.moved \subseteq w.live \cup w.moved
             /\ Tracked(w, Moves(r, s).scope) /\ Tracked(w, r.scope) /\ Moves(r, s).bad = r.bad
<1> DEFINE w == IF s.s \in Binders /\ s.val.e = "path" THEN Move(v, s.val) ELSE v
<1>1. w \in Envs
  BY WalkType
<1>2. w.used = v.used /\ v.live \cup v.moved \subseteq w.live \cup w.moved /\ v.moved \subseteq w.moved
  BY DEF Envs, Move
<1>3. Tracked(w, r.scope)
  BY <1>2 DEF Tracked
<1>4. Tracked(w, Moves(r, s).scope) /\ Moves(r, s).bad = r.bad
  <2>1. CASE s.s \in Binders \cup {"owned"} /\ s.val.e = "path" /\ ~s.val.copy
    <3>1. /\ Moves(r, s).scope = [i \in DOMAIN r.scope |->
                IF IsInnermost(r.scope, s.val.name, i) THEN [name |-> s.val.name, gone |-> TRUE] ELSE r.scope[i]]
          /\ Moves(r, s).bad = r.bad
      BY <2>1 DEF RunsOfFn, Moves
    <3>2. s.val.name # BlockMark
      BY DEF Stmts
    <3>3. ASSUME NEW i \in DOMAIN r.scope, IsInnermost(r.scope, s.val.name, i) PROVE s.val.name \in w.moved
      <4>1. s.val.name \in v.live \cup v.moved
        BY <3>2, <3>3 DEF Tracked, IsInnermost
      <4> QED
        BY <2>1, <4>1 DEF Move, Envs
    <3> QED
      BY <1>3, <3>1, <3>3 DEF Tracked
  <2>2. CASE ~(s.s \in Binders \cup {"owned"} /\ s.val.e = "path" /\ ~s.val.copy)
    BY <1>3, <2>2 DEF Moves
  <2> QED
    BY <2>1, <2>2
<1> QED
  BY <1>1, <1>2, <1>3, <1>4

\* And so is the name it binds.
LEMMA BindingIsSeen ==
  ASSUME NEW v \in Envs, NEW r \in RunsOfFn, NEW s \in Stmts, Tracked(v, r.scope),
         s.s # "destructure", s.s \in Binders => s.val.e # "none"
  PROVE  LET w == IF s.s \in {"let", "var"} /\ s.val.e # "none" THEN Bind(v, s.name) ELSE v
         IN  w.used = v.used /\ Tracked(w, Binds(r, s).scope) /\ Tracked(w, r.scope) /\ Binds(r, s).bad = r.bad
<1> DEFINE w == IF s.s \in {"let", "var"} /\ s.val.e # "none" THEN Bind(v, s.name) ELSE v
<1>1. w.used = v.used /\ v.live \subseteq w.live /\ w.moved = v.moved
  BY DEF Envs, Bind
<1>2. Tracked(w, r.scope)
  BY <1>1 DEF Tracked
<1>3. Tracked(w, Binds(r, s).scope) /\ Binds(r, s).bad = r.bad
  <2>1. CASE s.s \in Binders
    <3>1. Binds(r, s).scope = Append(r.scope, Binding(s.name)) /\ Binds(r, s).bad = r.bad
      BY <2>1 DEF RunsOfFn, Binds
    <3>2. s.name \in w.live
      BY <2>1 DEF Binders, Bind, Envs
    <3>3. r.scope \in Seq(Entries)
      BY DEF RunsOfFn
    <3>4. \A i \in DOMAIN Append(r.scope, Binding(s.name)) :
            \/ i \in DOMAIN r.scope /\ Append(r.scope, Binding(s.name))[i] = r.scope[i]
            \/ Append(r.scope, Binding(s.name))[i] = Binding(s.name)
      BY <3>3
    <3> QED
      BY <1>2, <3>1, <3>2, <3>4 DEF Tracked, Binding
  <2>2. CASE s.s \notin Binders
    BY <1>2, <2>2 DEF Binds
  <2> QED
    BY <2>1, <2>2
<1> QED
  BY <1>1, <1>2, <1>3

\* A statement the walk sees all of, reached or not.
LEMMA StatementIsCaught ==
  ASSUME NEW v \in Envs, NEW r \in RunsOfFn, NEW s \in Stmts, Tracked(v, r.scope), r.bad \subseteq v.used,
         s.val.e # "unwalked", s.s = "owned" => s.val.copy,
         s.s # "destructure", s.s \in Binders => s.val.e # "none"
  PROVE  /\ Tracked(WalkMoveStmt(v, s), Does(r, s).scope) /\ Does(r, s).bad \subseteq WalkMoveStmt(v, s).used
         /\ Tracked(WalkMoveStmt(v, s), r.scope) /\ r.bad \subseteq WalkMoveStmt(v, s).used
<1> DEFINE v1 == IF s.val.e = "path" THEN Read(v, s.val) ELSE v
           v2 == IF s.s \in Binders /\ s.val.e = "path" THEN Move(v1, s.val) ELSE v1
           v3 == IF s.s \in {"let", "var"} /\ s.val.e # "none" THEN Bind(v2, s.name) ELSE v2
           r1 == Reads(r, s.val)
           r2 == Moves(r1, s)
           r3 == Binds(r2, s)
<1>1. WalkMoveStmt(v, s) = v3
  BY Zenon DEF WalkMoveStmt
<1>2. r1 \in RunsOfFn /\ r2 \in RunsOfFn /\ r3 \in RunsOfFn
  BY DoesType
<1>3. Does(r, s).scope = r3.scope /\ Does(r, s).bad = r3.bad
  BY <1>2 DEF Does, RunsOfFn
<1>4. /\ v1 \in Envs /\ v1.live = v.live /\ v1.moved = v.moved
      /\ r1.scope = r.scope /\ r1.bad \subseteq v1.used /\ r.bad \subseteq v1.used
  BY ReadIsCaught
<1>5. Tracked(v1, r1.scope) /\ Tracked(v1, r.scope)
  BY <1>4 DEF Tracked
<1> HIDE DEF v1, r1
<1>6. v2 \in Envs /\ v2.used = v1.used /\ Tracked(v2, r2.scope) /\ Tracked(v2, r1.scope) /\ r2.bad = r1.bad
  BY <1>2, <1>4, <1>5, MoveIsSeen
<1>7. Tracked(v2, r.scope)
  BY <1>4, <1>6
<1> HIDE DEF v2, r2
<1>8. v3.used = v2.used /\ Tracked(v3, r3.scope) /\ r3.bad = r2.bad
  BY <1>2, <1>6, BindingIsSeen
<1>9. Tracked(v3, r.scope)
  BY <1>6, <1>7, BindingIsSeen
<1> QED
  BY <1>1, <1>3, <1>4, <1>6, <1>8, <1>9

\* What else a step does to a run.
LEMMA BlockType ==
  ASSUME NEW r \in RunsOfFn
  PROVE  /\ EnteredBlock(r) \in RunsOfFn
         /\ \A i \in DOMAIN EnteredBlock(r).scope :
              \/ i \in DOMAIN r.scope /\ EnteredBlock(r).scope[i] = r.scope[i]
              \/ EnteredBlock(r).scope[i] = Binding(BlockMark)
         /\ EnteredBlock(r).bad = r.bad
         /\ (\E i \in DOMAIN r.scope : IsInnermost(r.scope, BlockMark, i)) =>
              /\ LeftBlock(r) \in RunsOfFn
              /\ \A i \in DOMAIN LeftBlock(r).scope : i \in DOMAIN r.scope /\ LeftBlock(r).scope[i] = r.scope[i]
              /\ LeftBlock(r).bad = r.bad
<1>1. r.scope \in Seq(Entries)
  BY DEF RunsOfFn
<1>2. Binding(BlockMark) \in Entries
  BY DEF Binding, Entries
<1>3. Append(r.scope, Binding(BlockMark)) \in Seq(Entries)
  BY <1>1, <1>2, AppendProperties
<1>4. EnteredBlock(r) \in RunsOfFn /\ EnteredBlock(r).bad = r.bad
      /\ EnteredBlock(r).scope = Append(r.scope, Binding(BlockMark))
  BY <1>3 DEF EnteredBlock, RunsOfFn
<1>5. \A i \in DOMAIN EnteredBlock(r).scope :
        \/ i \in DOMAIN r.scope /\ EnteredBlock(r).scope[i] = r.scope[i]
        \/ EnteredBlock(r).scope[i] = Binding(BlockMark)
  <2> DEFINE entered == Append(r.scope, Binding(BlockMark))
  <2>1. /\ Len(r.scope) \in Nat /\ Len(entered) = Len(r.scope) + 1
        /\ \A i \in 1 .. Len(r.scope) : entered[i] = r.scope[i]
        /\ entered[Len(r.scope) + 1] = Binding(BlockMark)
    BY <1>1, <1>2, AppendProperties, LenProperties
  <2>2. DOMAIN entered = 1 .. Len(entered) /\ DOMAIN r.scope = 1 .. Len(r.scope)
    BY <1>1, <1>3, LenProperties
  <2> HIDE DEF entered
  <2>3. \A i \in 1 .. (Len(r.scope) + 1) : i \in 1 .. Len(r.scope) \/ i = Len(r.scope) + 1
    BY <2>1
  <2>4. \A i \in DOMAIN entered : (i \in DOMAIN r.scope /\ entered[i] = r.scope[i]) \/ entered[i] = Binding(BlockMark)
    BY <2>1, <2>2, <2>3
  <2>5. EnteredBlock(r).scope = entered
    BY <1>4 DEF entered
  <2> QED
    BY <2>4, <2>5
<1>6. ASSUME \E i \in DOMAIN r.scope : IsInnermost(r.scope, BlockMark, i)
      PROVE  /\ LeftBlock(r) \in RunsOfFn
             /\ \A i \in DOMAIN LeftBlock(r).scope : i \in DOMAIN r.scope /\ LeftBlock(r).scope[i] = r.scope[i]
             /\ LeftBlock(r).bad = r.bad
  <2> DEFINE m == CHOOSE i \in DOMAIN r.scope : IsInnermost(r.scope, BlockMark, i)
             outer == SubSeq(r.scope, 1, m - 1)
  <2>1. m \in 1 .. Len(r.scope)
    BY <1>1, <1>6
  <2> HIDE DEF m
  <2>2. m - 1 \in 0 .. Len(r.scope) /\ Len(r.scope) \in Nat
    BY <1>1, <2>1, LenProperties
  <2>3. outer \in Seq(Entries) /\ Len(outer) = m - 1 /\ \A i \in 1 .. (m - 1) : outer[i] = r.scope[i]
    BY <1>1, <2>1, <2>2, SubSeqProperties
  <2>4. DOMAIN outer = 1 .. (m - 1) /\ DOMAIN r.scope = 1 .. Len(r.scope)
    BY <1>1, <2>3, LenProperties
  <2> HIDE DEF outer
  <2>5. LeftBlock(r) = [r EXCEPT !.scope = outer]
    BY Zenon DEF LeftBlock, outer, m
  <2>6. [r EXCEPT !.scope = outer] \in RunsOfFn /\ LeftBlock(r).scope = outer /\ LeftBlock(r).bad = r.bad
    BY <2>3, <2>5 DEF RunsOfFn
  <2> QED
    BY <2>2, <2>3, <2>4, <2>5, <2>6
<1> QED
  BY <1>4, <1>5, <1>6

\* An if counts the branches it passes over.
LEMMA IfType ==
  ASSUME NEW r \in RunsOfFn, NEW q, q \in Taken(r) \/ q = Otherwise(r) \/ q = Joined(r)
  PROVE  q \in RunsOfFn /\ q.scope = r.scope /\ q.bad = r.bad
BY DEF RunsOfFn, Taken, Otherwise, Joined

\* The walk and the run keep their types.
LEMMA LiveTypeHolds == LiveSpec => []LiveTypeOK
<1>1. LiveInit => LiveTypeOK
  <2> SUFFICES ASSUME LiveInit PROVE LiveTypeOK
    OBVIOUS
  <2>1. RunStart \in RunsOfFn
    <3>1. Params \in Seq(Names)
      BY BodiesAssumption DEF Names
    <3>2. DOMAIN Params = 1 .. Len(Params) /\ Len(Params) \in Nat
      BY <3>1, LenProperties
    <3> DEFINE scope == [i \in DOMAIN Params |-> Binding(Params[i])]
    <3>3. \A i \in 1 .. Len(Params) : Binding(Params[i]) \in Entries
      BY <3>1, ElementOfSeq DEF Binding, Entries, Names
    <3>4. scope \in [1 .. Len(Params) -> Entries]
      BY <3>2, <3>3
    <3> HIDE DEF scope
    <3>5. scope \in Seq(Entries)
      BY <3>2, <3>4, SeqDef
    <3>6. RunStart = [scope |-> scope, skip |-> 0, left |-> FALSE, bad |-> {}]
      BY DEF RunStart, scope
    <3> QED
      BY <3>5, <3>6 DEF RunsOfFn
  <2> QED
    BY <2>1 DEF LiveInit, LiveTypeOK, Envs
<1>2. LiveTypeOK /\ [LiveNext]_liveVars => LiveTypeOK'
  <2> SUFFICES ASSUME LiveTypeOK, [LiveNext]_liveVars PROVE LiveTypeOK'
    OBVIOUS
  <2> USE DEF LiveTypeOK
  <2>1. CASE CheckFn
    <3>1. {Params[i] : i \in DOMAIN Params} \in SUBSET Names
      BY BodiesAssumption, ElementOfSeq, LenProperties DEF Names
    <3>2. env' \in Envs
      BY <2>1, <3>1 DEF CheckFn, Envs
    <3> QED
      BY <2>1, <3>2, BodiesAssumption DEF CheckFn
  <2>2. CASE WalkStmt
    <3>1. body[nextStmt] \in Stmts
      BY <2>2, ElementOfSeq, LenProperties DEF WalkStmt, Onwards
    <3> QED
      BY <2>2, <3>1, WalkType, DoesType DEF WalkStmt, Onwards
  <2>3. CASE WalkBlock
    BY <2>3, BlockType DEF WalkBlock, Onwards
  <2>4. CASE WalkIf
    BY <2>4, IfType DEF WalkIf, Onwards
  <2>5. CASE UNCHANGED liveVars
    BY <2>5 DEF liveVars
  <2> QED
    BY <2>1, <2>2, <2>3, <2>4, <2>5 DEF LiveNext
<1> QED
  BY <1>1, <1>2, PTL DEF LiveSpec

\* What the run has read that was gone, the walk has diagnosed.
CaughtInv == SeesAll => (nextStmt > 0 => Tracked(env, run.scope)) /\ run.bad \subseteq env.used

\* Whatever the branches taken.
LEMMA CaughtInvHolds == LiveSpec => []CaughtInv
<1>1. LiveInit => CaughtInv
  BY DEF LiveInit, CaughtInv, RunStart
<1>2. LiveTypeOK /\ LiveTypeOK' /\ CaughtInv /\ [LiveNext]_liveVars => CaughtInv'
  <2> SUFFICES ASSUME LiveTypeOK, LiveTypeOK', CaughtInv, [LiveNext]_liveVars, SeesAll'
               PROVE  (nextStmt' > 0 => Tracked(env', run'.scope)) /\ run'.bad \subseteq env'.used
    BY DEF CaughtInv
  <2>1. CASE CheckFn
    <3>1. run = RunStart /\ run' = run /\ env' = [env EXCEPT !.live = {Params[i] : i \in DOMAIN Params}]
      BY <2>1 DEF CheckFn, LiveTypeOK
    <3>2. env'.live = {Params[i] : i \in DOMAIN Params}
      BY <3>1 DEF LiveTypeOK, Envs
    <3>3. run.bad = {} /\ run.scope = [i \in DOMAIN Params |-> Binding(Params[i])]
      BY <3>1 DEF RunStart
    <3> QED
      BY <3>1, <3>2, <3>3 DEF Tracked, Binding
  <2>2. CASE Onwards /\ (WalkStmt \/ WalkBlock \/ WalkIf)
    <3>1. body' = body /\ SeesAll /\ nextStmt > 0 /\ nextStmt \in DOMAIN body
      BY <2>2, LenProperties DEF Onwards, LiveTypeOK, SeesAll, EntersAll, GivesAway
    <3>2. Tracked(env, run.scope) /\ run.bad \subseteq env.used
      BY <3>1 DEF CaughtInv
    <3>3. CASE WalkStmt
      <4>1. body[nextStmt] \in Stmts
        BY <3>1, ElementOfSeq, LenProperties DEF LiveTypeOK
      <4>2. /\ body[nextStmt].s # "destructure" /\ body[nextStmt].val.e # "unwalked"
            /\ body[nextStmt].s \in Binders => body[nextStmt].val.e # "none"
            /\ body[nextStmt].s = "owned" => body[nextStmt].val.copy
        BY <3>1 DEF SeesAll, EntersAll, GivesAway
      <4> QED
        BY <3>2, <3>3, <4>1, <4>2, StatementIsCaught DEF WalkStmt, LiveTypeOK
    <3>4. CASE WalkBlock
      <4>1. env' = env
        BY <3>4 DEF WalkBlock
      <4>2. run' = run \/ (run' = EnteredBlock(run)) \/
            (run' = LeftBlock(run) /\ \E i \in DOMAIN run.scope : IsInnermost(run.scope, BlockMark, i))
        BY <3>4 DEF WalkBlock
      <4> QED
        BY <3>2, <4>1, <4>2, BlockType DEF Tracked, Binding, LiveTypeOK
    <3>5. CASE WalkIf
      BY <3>2, <3>5, IfType DEF WalkIf, LiveTypeOK
    <3> QED
      BY <2>2, <3>3, <3>4, <3>5
  <2>3. CASE UNCHANGED liveVars
    BY <2>3 DEF liveVars, CaughtInv, SeesAll, EntersAll, GivesAway
  <2> QED
    BY <2>1, <2>2, <2>3 DEF LiveNext, WalkStmt, WalkBlock, WalkIf
<1> QED
  BY <1>1, <1>2, LiveTypeHolds, PTL DEF LiveSpec

-----------------------------------------------------------------------------
(* And in straight-line code every diagnostic is deserved.                 *)

\* The names the walk has met before the next statement.
Met == {Params[i] : i \in DOMAIN Params}
       \cup {body[k].name : k \in {j \in DOMAIN body : j < nextStmt /\ body[j].s \in Binders}}

\* What the walk knows, the run has: each name is bound, what the walk has seen
\* move is gone, and what it has diagnosed was read.
Deserved(v, r, met) ==
  /\ r.skip = 0 /\ v.used \subseteq r.bad
  /\ \A n \in v.live \cup v.moved : n \in met /\ \E i \in DOMAIN r.scope : IsInnermost(r.scope, n, i)
  /\ \A n \in v.moved : \E i \in DOMAIN r.scope : IsInnermost(r.scope, n, i) /\ r.scope[i].gone

\* A diagnostic is about a value the run reads after it is gone.
LEMMA ReadIsDeserved ==
  ASSUME NEW v \in Envs, NEW r \in RunsOfFn, NEW s \in Stmts, NEW met, Deserved(v, r, met)
  PROVE  LET w == IF s.val.e = "path" THEN Read(v, s.val) ELSE v
         IN  w \in Envs /\ Deserved(w, Reads(r, s.val), met)
<1> DEFINE w == IF s.val.e = "path" THEN Read(v, s.val) ELSE v
<1>1. w \in Envs
  BY WalkType
<1>2. w.live = v.live /\ w.moved = v.moved
  BY DEF Envs, Read
<1>3. Reads(r, s.val).scope = r.scope /\ Reads(r, s.val).skip = r.skip /\ r.bad \subseteq Reads(r, s.val).bad
  BY DEF RunsOfFn, Reads
<1>4. w.used \subseteq Reads(r, s.val).bad
  <2>1. CASE s.val.e = "path" /\ s.val.name \in v.moved
    <3>1. \E i \in DOMAIN r.scope : IsInnermost(r.scope, s.val.name, i) /\ r.scope[i].gone
      BY <2>1 DEF Deserved
    <3>2. Reads(r, s.val).bad = r.bad \cup {s.val.name}
      BY <2>1, <3>1 DEF RunsOfFn, Reads
    <3>3. w.used = v.used \cup {s.val.name}
      BY <2>1 DEF Envs, Read
    <3> QED
      BY <3>2, <3>3 DEF Deserved
  <2>2. CASE ~(s.val.e = "path" /\ s.val.name \in v.moved)
    <3>1. w = v
      BY <2>2 DEF Read
    <3> QED
      BY <1>3, <3>1 DEF Deserved
  <2> QED
    BY <2>1, <2>2
<1> HIDE DEF w
<1> QED
  BY <1>1, <1>2, <1>3, <1>4 DEF Deserved, w

\* What the walk sees move, a run without branches moves.
LEMMA MoveIsDone ==
  ASSUME NEW v \in Envs, NEW r \in RunsOfFn, NEW s \in Stmts, NEW met, Deserved(v, r, met)
  PROVE  LET w == IF s.s \in Binders /\ s.val.e = "path" THEN Move(v, s.val) ELSE v
         IN  w \in Envs /\ Deserved(w, Moves(r, s), met)
<1> DEFINE w == IF s.s \in Binders /\ s.val.e = "path" THEN Move(v, s.val) ELSE v
           n == s.val.name
<1>1. w \in Envs
  BY WalkType
<1>2. CASE s.s \in Binders \cup {"owned"} /\ s.val.e = "path" /\ ~s.val.copy
  <2> DEFINE after == [i \in DOMAIN r.scope |->
                IF IsInnermost(r.scope, n, i) THEN [name |-> n, gone |-> TRUE] ELSE r.scope[i]]
  <2>1. Moves(r, s).scope = after /\ Moves(r, s).skip = r.skip /\ Moves(r, s).bad = r.bad
    BY <1>2 DEF RunsOfFn, Moves
  <2>2. \A i \in DOMAIN r.scope : after[i].name = r.scope[i].name /\ (r.scope[i].gone => after[i].gone)
    BY DEF IsInnermost
  <2>3. \A i \in DOMAIN r.scope : IsInnermost(r.scope, n, i) => after[i].gone
    OBVIOUS
  <2>4. DOMAIN after = DOMAIN r.scope
    OBVIOUS
  <2> HIDE DEF after
  <2>5. \A m, i : IsInnermost(r.scope, m, i) => IsInnermost(after, m, i)
    BY <2>2, <2>4 DEF IsInnermost
  <2>6. /\ w.live \cup w.moved \subseteq v.live \cup v.moved /\ w.used = v.used
        /\ \A m \in w.moved : m \in v.moved \/ (m = n /\ n \in v.live)
    BY <1>2 DEF Move, Envs
  <2> HIDE DEF w, n
  <2>7. ASSUME NEW m \in w.live \cup w.moved
        PROVE  m \in met /\ \E i \in DOMAIN after : IsInnermost(after, m, i)
    BY <2>4, <2>5, <2>6 DEF Deserved
  <2>8. ASSUME NEW m \in w.moved
        PROVE  \E i \in DOMAIN after : IsInnermost(after, m, i) /\ after[i].gone
    <3>1. CASE m \in v.moved
      BY <2>2, <2>4, <2>5, <3>1 DEF Deserved
    <3>2. CASE m = n /\ n \in v.live
      BY <2>3, <2>4, <2>5, <3>2 DEF Deserved
    <3> QED
      BY <2>6, <3>1, <3>2
  <2>9. r.skip = 0 /\ w.used \subseteq r.bad
    BY <2>6 DEF Deserved
  <2> QED
    BY <1>1, <2>1, <2>7, <2>8, <2>9 DEF Deserved, w
<1>3. CASE ~(s.s \in Binders \cup {"owned"} /\ s.val.e = "path" /\ ~s.val.copy)
  BY <1>1, <1>3 DEF Moves, Move
<1> QED
  BY <1>2, <1>3

\* A name that is bound for the first time hides no other.
LEMMA BindingIsMet ==
  ASSUME NEW v \in Envs, NEW r \in RunsOfFn, NEW s \in Stmts, NEW met, NEW met2, Deserved(v, r, met),
         s.s # "destructure", met \subseteq met2, s.s \in Binders => s.name \notin met /\ s.name \in met2
  PROVE  LET w == IF s.s \in {"let", "var"} /\ s.val.e # "none" THEN Bind(v, s.name) ELSE v
         IN  Deserved(w, Binds(r, s), met2)
<1> DEFINE w == IF s.s \in {"let", "var"} /\ s.val.e # "none" THEN Bind(v, s.name) ELSE v
<1>1. CASE s.s \in Binders
  <2> DEFINE n == s.name
             scope == r.scope
             after == Append(scope, Binding(n))
  <2>1. Binds(r, s).scope = after /\ Binds(r, s).skip = r.skip /\ Binds(r, s).bad = r.bad
    BY <1>1 DEF RunsOfFn, Binds
  <2>2. /\ w.used = v.used /\ w.moved = v.moved /\ w.live \subseteq v.live \cup {n}
    BY DEF Envs, Bind
  <2>3. scope \in Seq(Entries) /\ Binding(n) \in Entries
    BY DEF RunsOfFn, Stmts, Entries, Names, Binding
  <2>4. /\ Len(scope) \in Nat /\ Len(after) = Len(scope) + 1 /\ after \in Seq(Entries)
        /\ \A i \in 1 .. Len(scope) : after[i] = scope[i]
        /\ after[Len(scope) + 1] = Binding(n)
    BY <2>3, AppendProperties, LenProperties
  <2>5. DOMAIN after = 1 .. (Len(scope) + 1) /\ DOMAIN scope = 1 .. Len(scope)
    BY <2>3, <2>4, LenProperties
  <2> HIDE DEF w, after, scope
  <2>6. ASSUME NEW m, m # n, NEW i, IsInnermost(scope, m, i)
        PROVE  IsInnermost(after, m, i) /\ after[i] = scope[i] /\ i \in DOMAIN after
    <3>1. i \in 1 .. Len(scope) /\ i \in DOMAIN after /\ after[i] = scope[i]
      BY <2>4, <2>5, <2>6 DEF IsInnermost
    <3>2. ASSUME NEW j \in DOMAIN after, after[j].name = m PROVE j <= i
      <4>1. j # Len(scope) + 1
        BY <2>4, <2>6, <3>2 DEF Binding
      <4>2. j \in 1 .. Len(scope)
        BY <2>4, <2>5, <4>1
      <4> QED
        BY <2>4, <2>5, <2>6, <3>2, <4>2 DEF IsInnermost
    <3> QED
      BY <2>6, <3>1, <3>2 DEF IsInnermost
  <2>7. IsInnermost(after, n, Len(scope) + 1) /\ Len(scope) + 1 \in DOMAIN after
    BY <2>4, <2>5 DEF IsInnermost, Binding
  <2>8. n \notin v.live \cup v.moved /\ n \in met2
    BY <1>1 DEF Deserved
  <2>9. ASSUME NEW m \in w.live \cup w.moved
        PROVE  m \in met2 /\ \E i \in DOMAIN after : IsInnermost(after, m, i)
    <3>1. CASE m = n
      BY <2>7, <2>8, <3>1
    <3>2. CASE m # n
      <4>1. m \in v.live \cup v.moved
        BY <2>2, <3>2
      <4>2. m \in met /\ \E i \in DOMAIN scope : IsInnermost(scope, m, i)
        BY <4>1 DEF Deserved, scope
      <4> QED
        BY <2>6, <3>2, <4>2
    <3> QED
      BY <3>1, <3>2
  <2>10. ASSUME NEW m \in w.moved
         PROVE  \E i \in DOMAIN after : IsInnermost(after, m, i) /\ after[i].gone
    <3>1. m # n /\ \E i \in DOMAIN scope : IsInnermost(scope, m, i) /\ scope[i].gone
      BY <2>2, <2>8 DEF Deserved, scope
    <3> QED
      BY <2>6, <3>1
  <2>11. r.skip = 0 /\ w.used \subseteq r.bad
    BY <2>2 DEF Deserved
  <2> QED
    BY <2>1, <2>9, <2>10, <2>11 DEF Deserved, w
<1>2. CASE s.s \notin Binders
  BY <1>2 DEF Binds, Binders, Deserved
<1> QED
  BY <1>1, <1>2

\* A statement that is reached.
LEMMA StatementIsDeserved ==
  ASSUME NEW v \in Envs, NEW r \in RunsOfFn, NEW s \in Stmts, NEW met, NEW met2, Deserved(v, r, met),
         s.s # "destructure", met \subseteq met2, s.s \in Binders => s.name \notin met /\ s.name \in met2
  PROVE  Deserved(WalkMoveStmt(v, s), Does(r, s), met2)
<1> DEFINE v1 == IF s.val.e = "path" THEN Read(v, s.val) ELSE v
           v2 == IF s.s \in Binders /\ s.val.e = "path" THEN Move(v1, s.val) ELSE v1
           v3 == IF s.s \in {"let", "var"} /\ s.val.e # "none" THEN Bind(v2, s.name) ELSE v2
           r1 == Reads(r, s.val)
           r2 == Moves(r1, s)
           r3 == Binds(r2, s)
<1>1. WalkMoveStmt(v, s) = v3
  BY Zenon DEF WalkMoveStmt
<1>2. r1 \in RunsOfFn /\ r2 \in RunsOfFn /\ r3 \in RunsOfFn
  BY DoesType
<1>3. Does(r, s).scope = r3.scope /\ Does(r, s).bad = r3.bad /\ Does(r, s).skip = r3.skip
  BY <1>2 DEF Does, RunsOfFn
<1>4. v1 \in Envs /\ Deserved(v1, r1, met)
  BY ReadIsDeserved
<1> HIDE DEF v1, r1
<1>5. v2 \in Envs /\ Deserved(v2, r2, met)
  BY <1>2, <1>4, MoveIsDone
<1> HIDE DEF v2, r2
<1>6. Deserved(v3, r3, met2)
  BY <1>2, <1>5, BindingIsMet
<1> HIDE DEF v3, r3
<1> QED
  BY <1>1, <1>3, <1>6 DEF Deserved

\* The parameters are bound when the function starts.
LEMMA ParamsAreBound ==
  ASSUME NEW n \in {Params[i] : i \in DOMAIN Params}
  PROVE  \E i \in DOMAIN RunStart.scope : IsInnermost(RunStart.scope, n, i)
<1> DEFINE scope == [i \in DOMAIN Params |-> Binding(Params[i])]
           At == {i \in DOMAIN Params : Params[i] = n}
           Dist == {Len(Params) - i : i \in At}
<1>1. DOMAIN Params = 1 .. Len(Params) /\ Len(Params) \in Nat
  BY BodiesAssumption, LenProperties
<1>2. Dist \in SUBSET Nat /\ Dist # {}
  BY <1>1
<1>3. PICK k \in Dist : \A j \in Dist : k <= j
  <2> HIDE DEF Dist
  <2> QED
    BY <1>2, LeastOf
<1>4. PICK i \in At : k = Len(Params) - i
  BY <1>3
<1>5. \A j \in At : j <= i
  <2>1. \A j \in At : k <= Len(Params) - j
    BY <1>3
  <2> QED
    BY <1>1, <1>4, <2>1
<1>6. IsInnermost(scope, n, i) /\ i \in DOMAIN scope
  BY <1>4, <1>5 DEF IsInnermost, Binding
<1>7. RunStart.scope = scope
  BY DEF RunStart
<1> QED
  BY <1>6, <1>7

\* So it stays while the function runs.
DeservedInv ==
  SeesAll /\ StraightLine /\ BindsOnce /\ nextStmt > 0 /\ ~run.left => Deserved(env, run, Met)

\* By a step for each statement, since there are no brackets.
LEMMA DeservedInvHolds == LiveSpec => []DeservedInv
<1>1. LiveInit => DeservedInv
  BY DEF LiveInit, DeservedInv
<1>2. LiveTypeOK /\ LiveTypeOK' /\ DeservedInv /\ [LiveNext]_liveVars => DeservedInv'
  <2> SUFFICES ASSUME LiveTypeOK, LiveTypeOK', DeservedInv, [LiveNext]_liveVars,
                      SeesAll', StraightLine', BindsOnce', nextStmt' > 0, ~run'.left
               PROVE  Deserved(env', run', Met')
    BY DEF DeservedInv
  <2>1. CASE CheckFn
    <3>1. run = RunStart /\ run' = run /\ env' = [env EXCEPT !.live = {Params[i] : i \in DOMAIN Params}]
          /\ env.moved = {} /\ env.used = {}
      BY <2>1 DEF CheckFn, LiveTypeOK
    <3>2. env'.live = {Params[i] : i \in DOMAIN Params} /\ env'.moved = {} /\ env'.used = {}
      BY <3>1 DEF LiveTypeOK, Envs
    <3>3. run'.skip = 0
      BY <3>1 DEF RunStart
    <3>4. \A n \in env'.live \cup env'.moved : n \in Met' /\ \E i \in DOMAIN run'.scope : IsInnermost(run'.scope, n, i)
      BY <3>1, <3>2, ParamsAreBound DEF Met
    <3> QED
      BY <3>2, <3>3, <3>4 DEF Deserved
  <2>2. CASE Onwards /\ (WalkStmt \/ WalkBlock \/ WalkIf)
    <3>1. /\ body' = body /\ nextStmt' = nextStmt + 1 /\ nextStmt > 0 /\ nextStmt \in DOMAIN body
          /\ body[nextStmt] \in Stmts /\ nextStmt \in Nat
      BY <2>2, ElementOfSeq, LenProperties DEF Onwards, LiveTypeOK
    <3>2. SeesAll /\ StraightLine /\ BindsOnce
      BY <3>1 DEF SeesAll, EntersAll, GivesAway, StraightLine, BindsOnce
    <3>3. body[nextStmt].s \notin Brackets
      BY <3>1, <3>2 DEF StraightLine
    <3>4. WalkStmt
      BY <2>2, <3>3 DEF WalkBlock, WalkIf, Brackets
    <3>5. ~run.left
      BY <3>4 DEF WalkStmt, Running
    <3>6. Deserved(env, run, Met)
      BY <3>1, <3>2, <3>5 DEF DeservedInv
    <3>7. env' = WalkMoveStmt(env, body[nextStmt]) /\ run' = Does(run, body[nextStmt])
      BY <3>4, <3>5, <3>6 DEF WalkStmt, Running, Deserved
    <3>8. /\ Met \subseteq Met'
          /\ body[nextStmt].s \in Binders => body[nextStmt].name \in Met'
      <4>1. \A j \in DOMAIN body : j < nextStmt => j < nextStmt + 1
        BY <3>1, LenProperties DEF LiveTypeOK
      <4>2. nextStmt < nextStmt + 1
        BY <3>1
      <4> QED
        BY <3>1, <4>1, <4>2 DEF Met
    <3>9. ASSUME body[nextStmt].s \in Binders PROVE body[nextStmt].name \notin Met
      BY <3>1, <3>2, <3>9 DEF Met, BindsOnce
    <3>10. body[nextStmt].s # "destructure"
      BY <3>1, <3>2 DEF SeesAll, EntersAll
    <3> QED
      BY <3>1, <3>6, <3>7, <3>8, <3>9, <3>10, StatementIsDeserved DEF LiveTypeOK
  <2>3. CASE UNCHANGED liveVars
    BY <2>3 DEF liveVars, DeservedInv, SeesAll, EntersAll, GivesAway, StraightLine, BindsOnce, Met
  <2> QED
    BY <2>1, <2>2, <2>3 DEF LiveNext, WalkStmt, WalkBlock, WalkIf
<1> QED
  BY <1>1, <1>2, LiveTypeHolds, PTL DEF LiveSpec

\* A function that passes the use-after-move check never reads a value that a
\* let or var has moved, whichever branches it takes, if it hands no value to an
\* owned parameter but Copy ones and reads and binds names only where the walk
\* looks (SeesAll); in straight-line code that binds each name once, every
\* diagnostic is deserved as far as the function runs.  For every body and every
\* parameters.
THEOREM MovedValuesAreCaught == LiveSpec => []MovesAreCaught
<1>1. LiveTypeOK /\ CaughtInv /\ DeservedInv => MovesAreCaught
  <2> SUFFICES ASSUME LiveTypeOK, CaughtInv, DeservedInv PROVE MovesAreCaught
    OBVIOUS
  <2>1. SeesAll => run.bad \subseteq env.used
    BY DEF CaughtInv
  <2>2. SeesAll /\ StraightLine /\ BindsOnce /\ ~run.left => env.used \subseteq run.bad
    <3>1. CASE nextStmt = 0
      BY <3>1 DEF LiveTypeOK
    <3>2. CASE nextStmt # 0
      BY <3>2 DEF LiveTypeOK, DeservedInv, Deserved
    <3> QED
      BY <3>1, <3>2
  <2> QED
    BY <2>1, <2>2 DEF MovesAreCaught
<1> QED
  BY <1>1, LiveTypeHolds, CaughtInvHolds, DeservedInvHolds, PTL
=============================================================================
