------------------------------ MODULE TypeTable ------------------------------
(***************************************************************************)
(* compiler/typetable: the interner every compiler pass compares types     *)
(* with.  A TypeId is an index into the table; TypeIds are compared as     *)
(* integers, so that comparison has to mean "the same type".               *)
(*                                                                         *)
(* A Type names its parts by TypeId.  denotes is a history variable: the   *)
(* type each id stands for, written out in full, parts included.           *)
(***************************************************************************)
EXTENDS Naturals, Sequences, FiniteSets

CONSTANTS PrimitiveOrder,   \* primitiveOrder and KindInfer: kinds without parts
          UnaryKinds,       \* Slice, Ptr, Ref, Mutref, Chan, ThreadHandle
          NominalKinds,     \* Struct, Enum, Union, Trait, TypeAlias
          Symbols,          \* defining symbols, positive
          Lengths,          \* literal array lengths
          MaxArity,         \* bound on elements, parameters, bounds and arguments
          MaxTypes          \* bound on the table

Structural == {"Tuple", "Array", "Fn", "TraitObject", "GenericParam"}

ASSUME KindAssumption ==
  /\ PrimitiveOrder \in Seq(STRING)
  /\ \A i, j \in DOMAIN PrimitiveOrder : PrimitiveOrder[i] = PrimitiveOrder[j] => i = j
  /\ MaxArity \in Nat /\ MaxTypes \in Nat
  /\ LET primitive == {PrimitiveOrder[i] : i \in DOMAIN PrimitiveOrder}
     IN  /\ \A k \in Structural \cup UnaryKinds \cup NominalKinds : k \notin primitive
         /\ "no type" \notin primitive \cup UnaryKinds \cup NominalKinds
         /\ \A k \in Structural : k \notin UnaryKinds \cup NominalKinds
         /\ \A k \in UnaryKinds : k \notin NominalKinds

VARIABLES types,     \* t.types without the reserved slot: types[id]
          byKey,     \* t.byKey
          denotes    \* history: what each id stands for

typeVars == <<types, byKey, denotes>>

NoType == 0
NoParts == <<>>

\* The fields of Type.  Module and Name go with Symbol and are left out.
Type(kind, children, ret, length, variadic, symbol) ==
  [kind |-> kind, children |-> children, ret |-> ret, length |-> length,
   variadic |-> variadic, symbol |-> symbol]

\* The convenience constructors.  TypeArgs of a nominal type are its children.
Primitive(k) == Type(k, NoParts, NoType, 0, FALSE, 0)
Tuple(es) == Type("Tuple", es, NoType, 0, FALSE, 0)
Array(e, n) == Type("Array", <<e>>, NoType, n, FALSE, 0)
Unary(k, e) == Type(k, <<e>>, NoType, 0, FALSE, 0)
Fn(ps, r, v) == Type("Fn", ps, r, 0, v, 0)
Nominal(k, s, as) == Type(k, as, NoType, 0, FALSE, s)
GenericParam(s) == Type("GenericParam", NoParts, NoType, 0, FALSE, s)

\* How often each element is listed.
Multiset(s) == [x \in {s[i] : i \in DOMAIN s} |-> Cardinality({i \in DOMAIN s : s[i] = x})]

\* Mutation of Bounds: the bounds are interned in source order.
Unsorted(ts) == ts

\* A sorted list of bounds, as the multiset it lists.
Bounds(ts) == Multiset(ts)

TraitObject(ts) == Type("TraitObject", Bounds(ts), NoType, 0, FALSE, 0)

\* The fields of t that key() spells out for its kind; the kinds spell out
\* every field their constructor sets.
Key(t) ==
  CASE t.kind = "Array" -> Array(t.children[1], t.length)
    [] t.kind = "Fn" -> Fn(t.children, t.ret, t.variadic)
    [] t.kind = "GenericParam" -> GenericParam(t.symbol)
    [] t.kind \in UnaryKinds -> Unary(t.kind, t.children[1])
    [] t.kind \in NominalKinds -> Nominal(t.kind, t.symbol, t.children)
    [] t.kind \in {"Tuple", "TraitObject"} -> Type(t.kind, t.children, NoType, 0, FALSE, 0)
    [] OTHER -> Primitive(t.kind)

Ids == DOMAIN types
Parts == Ids \cup {NoType}
Lists == UNION {[1 .. n -> Parts] : n \in 0 .. MaxArity}

\* A call of a constructor, by kind and arguments; validate panics on any
\* other, NoType as a function's return included.
Requests ==
  [make : {"Tuple", "TraitObject"}, list : Lists]
  \cup [make : {"Array"}, elem : Parts, length : Lengths]
  \cup [make : {"Fn"}, list : Lists, ret : Ids, variadic : BOOLEAN]
  \cup [make : {"GenericParam"}, symbol : Symbols]
  \cup [make : UnaryKinds, elem : Parts]
  \cup [make : NominalKinds, symbol : Symbols, list : Lists]

Made(q) ==
  CASE q.make = "Tuple" -> Tuple(q.list)
    [] q.make = "TraitObject" -> TraitObject(q.list)
    [] q.make = "Array" -> Array(q.elem, q.length)
    [] q.make = "Fn" -> Fn(q.list, q.ret, q.variadic)
    [] q.make = "GenericParam" -> GenericParam(q.symbol)
    [] q.make \in UnaryKinds -> Unary(q.make, q.elem)
    [] OTHER -> Nominal(q.make, q.symbol, q.list)

-----------------------------------------------------------------------------
(* What a request asks for, told without the table *)

Unknown == [kind |-> "no type"]
Full(id) == IF id = NoType THEN Unknown ELSE denotes[id]
FullList(ts) == [i \in DOMAIN ts |-> Full(ts[i])]

\* Bounds are a set with repetitions: `dyn A + B' is `dyn B + A'.
FullBounds(ts) == Multiset(FullList(ts))

Meaning(q) ==
  CASE q.make = "Tuple" -> [kind |-> q.make, list |-> FullList(q.list)]
    [] q.make = "TraitObject" -> [kind |-> q.make, bounds |-> FullBounds(q.list)]
    [] q.make = "Array" -> [kind |-> q.make, elem |-> Full(q.elem), length |-> q.length]
    [] q.make = "Fn" -> [kind |-> q.make, list |-> FullList(q.list), ret |-> Full(q.ret),
                         variadic |-> q.variadic]
    [] q.make = "GenericParam" -> [kind |-> q.make, symbol |-> q.symbol]
    [] q.make \in UnaryKinds -> [kind |-> q.make, elem |-> Full(q.elem)]
    [] OTHER -> [kind |-> q.make, symbol |-> q.symbol, list |-> FullList(q.list)]

-----------------------------------------------------------------------------
(* The interner *)

\* New: the kinds without parts, in primitiveOrder.
TypesInit ==
  /\ types = [i \in DOMAIN PrimitiveOrder |-> Primitive(PrimitiveOrder[i])]
  /\ byKey = [k \in {Key(types[i]) : i \in DOMAIN types} |->
                CHOOSE i \in DOMAIN types : Key(types[i]) = k]
  /\ denotes = [i \in DOMAIN PrimitiveOrder |-> [kind |-> PrimitiveOrder[i]]]

\* Intern of a type whose key is new.  With a known key the table does not
\* change and the answer is byKey[Key(Made(q))].
Intern(q) ==
  LET t  == Made(q)
      id == Len(types) + 1
  IN  /\ id <= MaxTypes
      /\ Key(t) \notin DOMAIN byKey
      /\ types' = Append(types, t)
      /\ byKey' = [k \in DOMAIN byKey \cup {Key(t)} |-> IF k = Key(t) THEN id ELSE byKey[k]]
      /\ denotes' = [i \in DOMAIN denotes \cup {id} |-> IF i = id THEN Meaning(q) ELSE denotes[i]]

TypesNext == \E q \in Requests : Intern(q)

TypesSpec == TypesInit /\ [][TypesNext]_typeVars

-----------------------------------------------------------------------------
(* Properties *)

\* Comparing TypeIds is comparing types ("equality is integer comparison",
\* type.go): no two ids stand for the same type, and whatever is asked for
\* again, in whatever order its trait bounds are written, the id that comes
\* back stands for exactly what was asked.
SameIdSameType ==
  /\ \A i, j \in Ids : denotes[i] = denotes[j] => i = j
  /\ \A q \in Requests :
       Key(Made(q)) \in DOMAIN byKey => denotes[byKey[Key(Made(q))]] = Meaning(q)
=============================================================================
