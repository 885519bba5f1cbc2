--------------------------- MODULE VariantProofs ---------------------------
(***************************************************************************)
(* Theorems about Variant, for any number of variants, types and values.   *)
(***************************************************************************)
EXTENDS Variant, TLAPS

Assumptions == VariantAssumption

\* A variant is empty, and its buffer may be used for another object; or it has a
\* type, and an object of it in its buffer.
Sound(x) ==
  \/ /\ x.type = Void /\ x.trivial = FALSE
     /\ x.proxy \in Types \union {Null}
     /\ x.data \in Buffers /\ x.data # Broken
  \/ /\ x.type \in Types /\ x.proxy = x.type
     /\ x.trivial = (x.type \in Trivials)
     /\ \E value \in Values : x.data = Object(x.type, value)

Members == [type : Types \union {Void}, proxy : Types \union {Null},
            trivial : BOOLEAN, data : Buffers]

\* An object that is left in the buffer of an empty variant has been abandoned.
Clean(x) == x.type = Void => x.data.of \notin NonTrivials

LEMMA Kinds ==
  ASSUME Assumptions
  PROVE  /\ Void \notin Types /\ Null \notin Types /\ Void # Null /\ Default \in Values
         /\ \A T \in Types : T \notin Trivials <=> T \in NonTrivials
         /\ Void \notin NonTrivials
         /\ Raw # Broken /\ Raw \in Buffers
         /\ \A T \in Types, x \in Values : Object(T, x) # Broken /\ Object(T, x) \in Buffers
BY DEF Assumptions, VariantAssumption, Types, Raw, Broken, Object, Buffers

-----------------------------------------------------------------------------
(***************************************************************************)
(* The members keep variants sound.                                        *)
(***************************************************************************)
LEMMA SoundHasType ==
  ASSUME Assumptions, NEW x \in Members, Sound(x)
  PROVE  /\ x.data # Broken
         /\ x.type # Void => x.proxy = x.type /\ x.trivial = (x.type \in Trivials)
BY Kinds DEF Sound

LEMMA DestructSound ==
  ASSUME Assumptions, NEW x \in Members, Sound(x)
  PROVE  /\ destruct(x) \in Members /\ Sound(destruct(x)) /\ destruct(x).type = Void
         /\ x.type # Void => Clean(destruct(x))
         /\ x.type = Void => destruct(x) = x
<1>1. CASE x.type = Void
  BY <1>1 DEF destruct
<1>2. CASE x.type # Void
  <2>1. x.proxy = x.type /\ x.type \in Types /\ x.trivial = (x.type \in Trivials)
    BY <1>2 DEF Sound
  <2>2. PICK value \in Values : x.data = Object(x.type, value)
    BY <1>2 DEF Sound
  <2>3. destruct(x) = [x EXCEPT !.type = Void, !.trivial = FALSE, !.data = DestructObject(x.proxy, x.data)]
    BY <1>2 DEF destruct
  <2>4. DestructObject(x.proxy, x.data) = IF x.type \in Trivials THEN x.data ELSE Raw
    BY <2>1, <2>2, Kinds DEF DestructObject, Object
  <2>5. x.data \in Buffers /\ x.data # Broken /\ Raw \in Buffers /\ Raw # Broken
    BY <2>1, <2>2, Kinds
  <2>6. (IF x.type \in Trivials THEN x.data ELSE Raw).of \notin NonTrivials
    BY <2>1, <2>2, Kinds DEF Object, Raw
  <2>. QED  BY <1>2, <2>1, <2>3, <2>4, <2>5, <2>6 DEF Members, Sound, Clean
<1>. QED  BY <1>1, <1>2

LEMMA ConstructSound ==
  ASSUME Assumptions, NEW x \in Members, Sound(x), NEW T \in Types, NEW value \in Values
  PROVE  /\ construct(x, T, value) \in Members /\ Sound(construct(x, T, value))
         /\ construct(x, T, value).type = T
         /\ construct(x, T, value).data = Object(T, value)
<1>1. destruct(x).data # Broken
  BY DestructSound, SoundHasType
<1>2. construct(x, T, value) = [type |-> T, proxy |-> T, trivial |-> T \in Trivials, data |-> Object(T, value)]
  BY <1>1 DEF construct
<1>. QED  BY <1>2, Kinds DEF Members, Sound

LEMMA SetSound ==
  ASSUME Assumptions, NEW x \in Members, Sound(x), NEW T \in Types, NEW value \in Values
  PROVE  /\ set(x, T, value) \in Members /\ Sound(set(x, T, value))
         /\ set(x, T, value).type = T
         /\ set(x, T, value).data = Object(T, value)
<1>. DEFINE y == IF x.type = T THEN x ELSE construct(destruct(x), T, Default)
<1>1. y \in Members /\ Sound(y) /\ y.type = T
  BY DestructSound, ConstructSound, Kinds
<1>2. PICK old \in Values : y.data = Object(T, old)
  BY <1>1, Kinds DEF Sound
<1>3. AssignObject(T, y.data, Object(T, value)) = Object(T, value)
  BY <1>2, Kinds DEF AssignObject, Object
<1>4. set(x, T, value) = [y EXCEPT !.data = Object(T, value)]
  BY <1>3 DEF set
<1>5. Object(T, value) \in Buffers
  BY Kinds
<1>. HIDE DEF y
<1>. QED  BY <1>1, <1>4, <1>5, Kinds DEF Members, Sound

LEMMA CopySound ==
  ASSUME Assumptions, NEW x \in Members, Sound(x), NEW y \in Members, Sound(y)
  PROVE  /\ copy_from(x, y) \in Members /\ Sound(copy_from(x, y))
         /\ copy_from(x, y).type = y.type
         /\ y.type # Void => copy_from(x, y).data = y.data
         /\ y.type = Void => copy_from(x, y) = destruct(x)
<1>1. CASE y.type = Void
  BY <1>1, DestructSound DEF copy_from
<1>2. CASE y.type # Void
  <2>1. y.proxy = y.type /\ y.type \in Types /\ y.trivial = (y.type \in Trivials)
    BY <1>2 DEF Sound
  <2>2. PICK value \in Values : y.data = Object(y.type, value)
    BY <1>2 DEF Sound
  <2>. DEFINE z == Prepared(x, y)
  <2>3. z.data # Broken /\ (y.type \in NonTrivials => z.data.of = y.type)
    <3>1. CASE x.type = y.type
      <4>1. PICK old \in Values : x.data = Object(y.type, old)
        BY <1>2, <3>1 DEF Sound
      <4>2. z.data = Object(y.type, old)
        BY <3>1, <4>1 DEF Prepared
      <4>. QED  BY <2>1, <4>2, Kinds DEF Object
    <3>2. CASE x.type # y.type
      <4>1. destruct(x).data # Broken
        BY DestructSound, SoundHasType
      <4>2. z.data = IF y.trivial THEN destruct(x).data ELSE ConstructObject(y.proxy, destruct(x).data)
        BY <3>2 DEF Prepared, Members
      <4>3. ConstructObject(y.proxy, destruct(x).data) = Object(y.type, Default)
        BY <2>1, <4>1, Kinds DEF ConstructObject
      <4>4. CASE y.type \in Trivials
        BY <2>1, <4>1, <4>2, <4>4, Kinds
      <4>5. CASE y.type \notin Trivials
        <5>1. z.data = Object(y.type, Default)
          BY <2>1, <4>2, <4>3, <4>5
        <5>. QED  BY <2>1, <5>1, Kinds DEF Object
      <4>. QED  BY <4>4, <4>5
    <3>. QED  BY <3>1, <3>2
  <2>4. AssignObject(y.proxy, z.data, y.data) = y.data
    BY <2>1, <2>2, <2>3, Kinds DEF AssignObject, Object
  <2>5. copy_from(x, y) = [type |-> y.type, proxy |-> y.proxy, trivial |-> y.trivial, data |-> y.data]
    BY <1>2, <2>3, <2>4 DEF copy_from, Flags
  <2>. QED  BY <1>2, <2>5 DEF Members, Sound
<1>. QED  BY <1>1, <1>2

LEMMA MovedFromSound ==
  ASSUME Assumptions, NEW x \in Members, Sound(x)
  PROVE  MovedFrom(x) \in Members /\ Sound(MovedFrom(x)) /\ MovedFrom(x).type = Void
         /\ MovedFrom(x).data = x.data
<1>1. x.data # Broken
  BY SoundHasType
<1>. QED  BY <1>1 DEF MovedFrom, Members, Sound

LEMMA FreshSound ==
  ASSUME Assumptions
  PROVE  Fresh \in Members /\ Sound(Fresh) /\ Fresh.type = Void /\ Clean(Fresh)
BY Kinds DEF Fresh, Members, Sound, Raw, Clean

-----------------------------------------------------------------------------
(***************************************************************************)
(* The inductive invariant.                                                *)
(***************************************************************************)
Inv ==
  /\ var \in [Vars -> Members]
  /\ abandoned \subseteq Vars
  /\ \A v \in Vars : Sound(var[v]) /\ (v \in abandoned \/ Clean(var[v]))

LEMMA InvImplies ==
  ASSUME Assumptions, Inv
  PROVE  TypeOK /\ NothingBroken /\ ObjectsOwned
<1>1. TypeOK /\ NothingBroken
  BY SoundHasType DEF Inv, TypeOK, NothingBroken, Members
<1>2. ASSUME NEW v \in Vars, var[v].data.of \in NonTrivials, v \notin abandoned
      PROVE  var[v].type = var[v].data.of
  <2>1. var[v].type # Void
    BY <1>2 DEF Inv, Clean
  <2>2. PICK value \in Values : var[v].data = Object(var[v].type, value)
    BY <2>1 DEF Inv, Sound
  <2>. QED  BY <2>2 DEF Object
<1>. QED  BY <1>1, <1>2 DEF ObjectsOwned

LEMMA InvInit ==
  ASSUME Assumptions, Init
  PROVE  Inv
BY FreshSound DEF Init, Inv

LEMMA InvNext ==
  ASSUME Assumptions, Inv, [Next]_vars
  PROVE  Inv'
<1>1. ASSUME NEW v \in Vars, NEW T \in Types, NEW x \in Values, Construct(v, T, x) \/ Set(v, T, x)
      PROVE  Inv'
  <2>1. PICK y \in Members : Sound(y) /\ y.type = T /\ var' = [var EXCEPT ![v] = y]
    BY <1>1, ConstructSound, SetSound DEF Construct, Set, Inv
  <2>2. Clean(y)
    BY <2>1, Kinds DEF Clean
  <2>. QED  BY <1>1, <2>1, <2>2 DEF Construct, Set, Inv
<1>2. ASSUME NEW v \in Vars, Clear(v)
      PROVE  Inv'
  <2>1. /\ destruct(var[v]) \in Members /\ Sound(destruct(var[v]))
        /\ v \in abandoned \/ Clean(destruct(var[v]))
    BY DestructSound DEF Inv
  <2>. QED  BY <1>2, <2>1 DEF Clear, Inv
<1>3. ASSUME NEW v \in Vars, Leave(v)
      PROVE  Inv'
  <2>1. destruct(var[v]).data # Broken
    BY DestructSound, SoundHasType DEF Inv
  <2>2. var' = [var EXCEPT ![v] = Fresh]
    BY <1>3, <2>1 DEF Leave
  <2>. QED  BY <1>3, <2>2, FreshSound DEF Leave, Inv
<1>4. ASSUME NEW v \in Vars, NEW w \in Vars
      PROVE  LET x == copy_from(var[v], var[w]) IN
             /\ x \in Members /\ Sound(x) /\ x.type = var[w].type
             /\ var[w].type = Void /\ v \notin abandoned => Clean(x)
             /\ var[w].type # Void => x.type # Void
  BY CopySound, DestructSound DEF Inv
<1>5. ASSUME NEW v \in Vars, NEW w \in Vars, CopyAssign(v, w)
      PROVE  Inv'
  BY <1>4, <1>5 DEF CopyAssign, Inv, Clean
<1>6. ASSUME NEW v \in Vars, NEW w \in Vars, MoveAssign(v, w)
      PROVE  Inv'
  <2>. DEFINE x == copy_from(var[v], var[w])
  <2>1. x \in Members /\ Sound(x) /\ x.type = var[w].type
    BY <1>4
  <2>2. var[w].type = Void /\ v \notin abandoned => Clean(x)
    BY <1>4
  <2>3. MovedFrom(IF v = w THEN x ELSE var[w]) \in Members /\ Sound(MovedFrom(IF v = w THEN x ELSE var[w]))
    BY <2>1, MovedFromSound DEF Inv
  <2>4. var' = [u \in Vars |-> IF u = w THEN MovedFrom(IF v = w THEN x ELSE var[w])
                                 ELSE IF u = v THEN x ELSE var[u]]
    BY <1>6 DEF MoveAssign
  <2>5. ASSUME NEW u \in Vars, u \notin abandoned'
        PROVE  Clean(var'[u])
    <3>1. CASE u = w
      <4>. DEFINE y == IF v = w THEN x ELSE var[w]
      <4>1. y \in Members /\ Sound(y) /\ y.type = var[w].type
        BY <2>1 DEF Inv
      <4>2. MovedFrom(y).data = y.data
        BY <4>1, MovedFromSound
      <4>3. y.data.of \notin NonTrivials
        <5>1. CASE var[w].type = Void
          BY <1>6, <2>2, <2>5, <3>1, <4>1, <5>1 DEF MoveAssign, Inv, Clean
        <5>2. CASE var[w].type # Void
          <6>1. var[w].type \notin NonTrivials
            BY <1>6, <2>5, <3>1, <5>2 DEF MoveAssign
          <6>2. PICK value \in Values : y.data = Object(var[w].type, value)
            BY <4>1, <5>2 DEF Sound
          <6>. QED  BY <6>1, <6>2 DEF Object
        <5>. QED  BY <5>1, <5>2
      <4>. QED  BY <2>4, <3>1, <4>2, <4>3 DEF Clean
    <3>2. CASE u # w /\ u = v
      <4>1. var'[u] = x
        BY <2>4, <3>2
      <4>2. CASE var[w].type = Void
        BY <1>6, <2>2, <2>5, <3>2, <4>1, <4>2 DEF MoveAssign
      <4>3. CASE var[w].type # Void
        BY <2>1, <4>1, <4>3 DEF Clean
      <4>. QED  BY <4>2, <4>3
    <3>3. CASE u # w /\ u # v
      <4>1. u \notin abandoned
        BY <1>6, <2>5, <3>3 DEF MoveAssign
      <4>. QED  BY <2>4, <3>3, <4>1 DEF Inv
    <3>. QED  BY <3>1, <3>2, <3>3
  <2>6. \A u \in Vars : var'[u] \in Members /\ Sound(var'[u])
    BY <2>1, <2>3, <2>4 DEF Inv
  <2>7. var' \in [Vars -> Members]
    BY <2>4, <2>6
  <2>8. abandoned' \subseteq Vars
    BY <1>6 DEF MoveAssign, Inv
  <2>. QED  BY <2>5, <2>6, <2>7, <2>8 DEF Inv
<1>7. CASE UNCHANGED vars
  BY <1>7 DEF vars, Inv
<1>. QED  BY <1>1, <1>2, <1>3, <1>5, <1>6, <1>7 DEF Next

LEMMA SpecInv == Assumptions /\ Spec => []Inv
<1>1. Assumptions /\ Init => Inv
  BY InvInit
<1>2. Assumptions /\ Inv /\ [Next]_vars => Inv'
  BY InvNext
<1>3. Assumptions
  BY VariantAssumption DEF Assumptions
<1>. QED  BY <1>1, <1>2, <1>3, PTL DEF Spec

LEMMA InvAlways == Spec => []Inv
<1>1. Assumptions
  BY VariantAssumption DEF Assumptions
<1>. QED  BY <1>1, SpecInv, PTL

\* Whatever is done to variants, the function and the flag of each are those of its
\* type, so that a buffer is always handled as what was constructed in it.
THEOREM TypeCorrect == Spec => []TypeOK
<1>1. Assumptions /\ Inv => TypeOK
  BY InvImplies
<1>2. Assumptions
  BY VariantAssumption DEF Assumptions
<1>. QED  BY <1>1, <1>2, InvAlways, PTL

\* No object is destroyed twice or used after its end, and no call goes to a
\* function that is not there.
THEOREM Lifetimes == Spec => []NothingBroken
<1>1. Assumptions /\ Inv => NothingBroken
  BY InvImplies
<1>2. Assumptions
  BY VariantAssumption DEF Assumptions
<1>. QED  BY <1>1, <1>2, InvAlways, PTL

\* An object that needs its destructor has a variant that will call it, unless a
\* move has emptied that variant.
THEOREM OwnersKeepObjects == Spec => []ObjectsOwned
<1>1. Assumptions /\ Inv => ObjectsOwned
  BY InvImplies
<1>2. Assumptions
  BY VariantAssumption DEF Assumptions
<1>. QED  BY <1>1, <1>2, InvAlways, PTL

-----------------------------------------------------------------------------
(***************************************************************************)
(* Variants implement holders of one value.                                *)
(***************************************************************************)
Held(x) == IF x.type = Void THEN Null ELSE <<x.type, x.data.value>>

LEMMA HeldCopy ==
  ASSUME Assumptions, Inv, NEW v \in Vars, NEW w \in Vars
  PROVE  Held(copy_from(var[v], var[w])) = Held(var[w])
BY CopySound DEF Inv, Held

LEMMA StepImplements ==
  ASSUME Assumptions, Inv, [Next]_vars
  PROVE  [Holder!Next]_<<[v \in Vars |-> Held(var[v])], call>>
<1>. DEFINE held == [v \in Vars |-> Held(var[v])]
<1>1. ASSUME NEW v \in Vars, NEW T \in Types, NEW x \in Values, Construct(v, T, x) \/ Set(v, T, x)
      PROVE  Holder!Store(v, <<T, x>>)
  <2>1. PICK y : y.type = T /\ y.data = Object(T, x) /\ var' = [var EXCEPT ![v] = y]
    BY <1>1, ConstructSound, SetSound DEF Construct, Set, Inv
  <2>2. Held(y) = <<T, x>>
    BY <2>1, Kinds DEF Held, Object
  <2>3. held' = [held EXCEPT ![v] = <<T, x>>]
    BY <2>1, <2>2 DEF Inv
  <2>4. call' = <<"store", v, <<T, x>>>>
    BY <1>1 DEF Construct, Set
  <2>. QED  BY <2>3, <2>4 DEF Holder!Store, Held
<1>2. ASSUME NEW v \in Vars, Clear(v) \/ Leave(v)
      PROVE  Holder!Empty(v)
  <2>1. PICK y : y.type = Void /\ var' = [var EXCEPT ![v] = y]
    BY <1>2, DestructSound DEF Clear, Leave, Fresh, Inv
  <2>2. held' = [held EXCEPT ![v] = Null]
    BY <2>1 DEF Inv, Held
  <2>. QED  BY <1>2, <2>2 DEF Holder!Empty, Clear, Leave, Held
<1>3. ASSUME NEW v \in Vars, NEW w \in Vars, CopyAssign(v, w)
      PROVE  Holder!Copy(v, w)
  <2>1. held' = [held EXCEPT ![v] = held[w]]
    BY <1>3, HeldCopy DEF CopyAssign, Inv
  <2>. QED  BY <1>3, <2>1 DEF Holder!Copy, CopyAssign, Held
<1>4. ASSUME NEW v \in Vars, NEW w \in Vars, MoveAssign(v, w)
      PROVE  Holder!Move(v, w)
  <2>1. \A x \in Members : Sound(x) => Held(MovedFrom(x)) = Null
    BY MovedFromSound DEF Held
  <2>2. copy_from(var[v], var[w]) \in Members /\ Sound(copy_from(var[v], var[w]))
    BY CopySound DEF Inv
  <2>3. held' = [held EXCEPT ![v] = held[w], ![w] = Null]
    BY <1>4, <2>1, <2>2, HeldCopy DEF MoveAssign, Inv
  <2>. QED  BY <1>4, <2>3 DEF Holder!Move, MoveAssign, Held
<1>5. CASE UNCHANGED vars
  BY <1>5 DEF vars
<1>. QED  BY <1>1, <1>2, <1>3, <1>4, <1>5 DEF Next, Holder!Next, Held

\* A variant holds nothing or the value stored last, a copy leaves its source
\* alone, and a move empties it.
THEOREM VariantHolds == Spec => HoldsOneValue
<1>1. Init => Holder!Init
  BY DEF Init, Holder!Init, Fresh
<1>2. Assumptions
  BY VariantAssumption DEF Assumptions
<1>3. Assumptions /\ Inv /\ [Next]_vars => [Holder!Next]_<<[v \in Vars |-> Held(var[v])], call>>
  BY StepImplements
<1>. QED  BY <1>1, <1>2, <1>3, SpecInv, PTL DEF Spec, HoldsOneValue, Holder!Spec, Held

=============================================================================
