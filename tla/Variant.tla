------------------------------ MODULE Variant ------------------------------
(***************************************************************************)
(* Variant, the class of every saved value: one buffer, in which objects   *)
(* of any type are constructed, assigned to and destroyed by hand, by way  *)
(* of a function m_proxy that knows the type.  A step is one call of a     *)
(* member, down to what it does to the object in the buffer.               *)
(***************************************************************************)
CONSTANTS
  Vars,         \* variants
  Trivials,     \* types of which the bytes are the value
  NonTrivials,  \* types with a constructor, an assignment and a destructor
  Values,       \* values of each type
  Default,      \* the value of a default constructed object
  Void,         \* no type
  Null          \* no m_proxy, and no value

Types == Trivials \union NonTrivials

ASSUME VariantAssumption ==
  /\ Trivials \intersect NonTrivials = {}
  /\ Void \notin Types /\ Null \notin Types /\ Void # Null
  /\ Default \in Values

VARIABLES
  var,       \* the members of each variant
  abandoned, \* history: variants whose buffer has an object that a move left there
  call       \* history: the last call

vars == <<var, abandoned, call>>

\* The buffer: the type of the object in it, and its value.  An object that is
\* used before it is constructed or after it is destroyed breaks it for good.
Raw == [of |-> Void, value |-> Null]
Broken == [of |-> Null, value |-> Null]
Object(T, x) == [of |-> T, value |-> x]

Fresh == [type |-> Void, proxy |-> Null, trivial |-> FALSE, data |-> Raw]

Init == var = [v \in Vars |-> Fresh] /\ abandoned = {} /\ call = <<>>
-----------------------------------------------------------------------------
(***************************************************************************)
(* The operations of m_proxy on a buffer.                                  *)
(***************************************************************************)
ConstructObject(proxy, d) ==
  IF proxy = Null \/ d = Broken THEN Broken ELSE Object(proxy, Default)

DestructObject(proxy, d) ==
  IF proxy \in Trivials THEN d
  ELSE IF proxy = Null \/ d.of # proxy THEN Broken ELSE Raw

\* Copy, and Move too: its source is const, so that the copy assignment is chosen.
AssignObject(proxy, d, src) ==
  IF d = Broken \/ proxy = Null \/ src.of # proxy \/ (proxy \in NonTrivials /\ d.of # proxy)
    THEN Broken ELSE Object(proxy, src.value)
-----------------------------------------------------------------------------
(***************************************************************************)
(* The members.                                                            *)
(***************************************************************************)
\* Mutant: only the type is forgotten.
Forget(x) == [x EXCEPT !.type = Void, !.trivial = FALSE]

destruct(x) ==
  IF x.type = Void THEN x
    ELSE [x EXCEPT !.type = Void, !.trivial = FALSE, !.data = DestructObject(x.proxy, x.data)]

construct(x, T, value) ==
  [type |-> T, proxy |-> T, trivial |-> T \in Trivials,
   data |-> IF destruct(x).data = Broken THEN Broken ELSE Object(T, value)]

set(x, T, value) ==
  LET y == IF x.type = T THEN x ELSE construct(destruct(x), T, Default)
  IN [y EXCEPT !.data = AssignObject(T, y.data, Object(T, value))]

\* Mutant: the object is assigned to without having been constructed.
Unconstructed(x, y) ==
  IF x.type = y.type THEN x ELSE [destruct(x) EXCEPT !.type = y.type, !.proxy = y.proxy]

\* copy_from, when the types differ: another object is constructed first.
Prepared(x, y) ==
  IF x.type = y.type THEN x
  ELSE LET d == destruct(x).data IN
       [x EXCEPT !.type = y.type, !.proxy = y.proxy, !.trivial = FALSE,
                 !.data = IF y.trivial THEN d ELSE ConstructObject(y.proxy, d)]

\* Mutant: the flags stay.
StaleFlags(x, y) == x.trivial
Flags(x, y) == y.trivial

\* copy_from: the bytes, or an assignment of the object.
copy_from(x, y) ==
  IF y.type = Void THEN destruct(x)
  ELSE LET z == Prepared(x, y) IN
       [type |-> y.type, proxy |-> y.proxy, trivial |-> Flags(z, y),
        data |-> IF y.trivial /\ z.data # Broken THEN y.data
                   ELSE AssignObject(y.proxy, z.data, y.data)]

\* Mutant: a source that is not emptied.
KeepSource(x) == x
MovedFrom(x) == [x EXCEPT !.proxy = Null, !.trivial = FALSE, !.type = Void]

Construct(v, T, x) ==
  /\ var' = [var EXCEPT ![v] = construct(@, T, x)]
  /\ abandoned' = abandoned \ {v}
  /\ call' = <<"store", v, <<T, x>>>>

Set(v, T, x) ==
  /\ var' = [var EXCEPT ![v] = set(@, T, x)]
  /\ abandoned' = abandoned \ {v}
  /\ call' = <<"store", v, <<T, x>>>>

Clear(v) ==
  /\ var' = [var EXCEPT ![v] = destruct(@)]
  /\ UNCHANGED abandoned
  /\ call' = <<"empty", v>>

CopyAssign(v, w) ==
  /\ var' = [var EXCEPT ![v] = copy_from(@, var[w])]
  /\ abandoned' = IF var[w].type = Void THEN abandoned ELSE abandoned \ {v}
  /\ call' = <<"copy", v, w>>

MoveAssign(v, w) ==
  /\ LET x == copy_from(var[v], var[w]) IN
     var' = [u \in Vars |-> IF u = w THEN MovedFrom(IF v = w THEN x ELSE var[w])
                              ELSE IF u = v THEN x ELSE var[u]]
  /\ abandoned' = IF var[w].type = Void THEN abandoned
                  ELSE (abandoned \ {v}) \union (IF var[w].type \in NonTrivials THEN {w} ELSE {})
  /\ call' = <<"move", v, w>>

\* The end of a variant, and the next one in its place; a copy constructor is
\* this and a copy assignment.
Leave(v) ==
  /\ var' = [var EXCEPT ![v] = IF destruct(@).data = Broken THEN [Fresh EXCEPT !.data = Broken]
                                  ELSE Fresh]
  /\ abandoned' = abandoned \ {v}
  /\ call' = <<"empty", v>>

Next ==
  \/ \E v \in Vars, T \in Types, x \in Values : Construct(v, T, x) \/ Set(v, T, x)
  \/ \E v \in Vars : Clear(v) \/ Leave(v)
  \/ \E v, w \in Vars : CopyAssign(v, w) \/ MoveAssign(v, w)

Spec == Init /\ [][Next]_vars

-----------------------------------------------------------------------------
(***************************************************************************)
(* Properties.                                                             *)
(***************************************************************************)
Buffers == [of : Types \union {Void, Null}, value : Values \union {Null}]

\* The members agree: a variant with a type has the function and the flag of it.
TypeOK ==
  /\ var \in [Vars -> [type : Types \union {Void}, proxy : Types \union {Null},
                       trivial : BOOLEAN, data : Buffers]]
  /\ abandoned \subseteq Vars
  /\ \A v \in Vars : var[v].type # Void =>
       var[v].proxy = var[v].type /\ var[v].trivial = (var[v].type \in Trivials)

\* No sequence of calls destroys an object twice, assigns to a buffer without
\* one, or calls a function that is not there.
NothingBroken == \A v \in Vars : var[v].data # Broken

\* An object that needs its destructor is in the hands of a variant of its type,
\* which will call it, unless a move has emptied the variant.
ObjectsOwned ==
  \A v \in Vars : var[v].data.of \in NonTrivials =>
    var[v].type = var[v].data.of \/ v \in abandoned

\* Variants behave as holders of one value.
Holder == INSTANCE ValueHolder WITH
  Contents <- Types \X Values, Nothing <- Null,
  held <- [v \in Vars |-> IF var[v].type = Void THEN Null ELSE <<var[v].type, var[v].data.value>>]
HoldsOneValue == Holder!Spec

=============================================================================
