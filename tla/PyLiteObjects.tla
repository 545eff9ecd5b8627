----------------------------- MODULE PyLiteObjects -----------------------------
(***************************************************************************)
(* Attributes.  A type has one base and a dict of attributes; an instance  *)
(* of a class made by a script has a dict of its own.  A lookup returns a  *)
(* value and says whether it was found at the type (pylt_obj_getattr_ex,   *)
(* object.c:247); BC_GET_ATTR then puts the object before the arguments of *)
(* the call that follows, or calls the getter of a property (vm.c:487).    *)
(*                                                                         *)
(* Next to it, what an attribute means: a property of the class comes      *)
(* before the attribute of the instance, which comes before any other      *)
(* attribute of the class, and only a function found at the class is       *)
(* given the object.                                                       *)
(*                                                                         *)
(* A value is <<kind, id>>: "object" and "class" have the ids of objects   *)
(* and of types, "function" is a function of a script or a method of a     *)
(* builtin type, "property" has a getter, "plain" is anything else.        *)
(***************************************************************************)
EXTENDS PyLiteDict, Naturals, SequencesExt

CONSTANTS
    Names,          \* of attributes
    Builtin,        \* the attributes of the builtin types, object first and type second
    Values,         \* what a script stores
    MaxTypes, MaxObjects, MaxStores

None == <<"none", 0>>

ASSUME ObjectsAssumption ==
    /\ Builtin \in Seq(Range(Builtin)) /\ Len(Builtin) >= 2
    /\ None \notin Values
    /\ MaxTypes \in Nat /\ MaxObjects \in Nat /\ MaxStores \in Nat

VARIABLES
    types,      \* cls_base: [base, attrs], the builtin types and then the classes of the script
    objects,    \* instances: [type, attrs]
    stores      \* how many attributes have been stored or deleted

objvars == <<types, objects, stores>>

ObjectType == 1
TypeType == 2

(* ob_base up to object: a base is older than its class *)
Chain(t) ==
    LET up[i \in 0 .. Len(types)] ==
            IF i = 0 THEN <<t>>
            ELSE IF Last(up[i - 1]) = ObjectType THEN up[i - 1]
            ELSE Append(up[i - 1], types[Last(up[i - 1])].base)
    IN  up[Len(types)]

----------------------------------------------------------------------------
(* The lookup of the code *)

Found(v, atType) == [value |-> v, atType |-> atType]
(* The first attribute along the types *)
AlongTypes(t, n) ==
    LET chain == Chain(t)
        hits == {i \in DOMAIN chain : n \in DOMAIN types[chain[i]].attrs}
    IN  IF hits = {} THEN None ELSE types[chain[Min(hits)]].attrs[n]

(* pylt_obj_custom_getattr; mutant: an attribute of the instance counts as found at the type *)
OfObjectAtType(o, n) ==
    LET own == objects[o].attrs
    IN  IF n \in DOMAIN own THEN Found(own[n], TRUE)
        ELSE Found(AlongTypes(objects[o].type, n), AlongTypes(objects[o].type, n) # None)
OfObject(o, n) ==
    LET own == objects[o].attrs
        atType == AlongTypes(objects[o].type, n)
    IN  IF n \in DOMAIN own THEN Found(own[n], FALSE) ELSE Found(atType, atType # None)

(* pylt_obj_type_getattr: the bases, then the type of types *)
OfType(t, n) ==
    LET meta == types[TypeType].attrs
    IN  IF AlongTypes(t, n) # None THEN Found(AlongTypes(t, n), FALSE)
        ELSE Found(IF n \in DOMAIN meta THEN meta[n] ELSE None, TRUE)

GetAttr(v, n) == IF v[1] = "class" THEN OfType(v[2], n) ELSE OfObject(v[2], n)

(* BC_GET_ATTR, with a call behind it or not *)
Fetched(v, n, called) ==
    LET f == GetAttr(v, n)
        calls == f.atType /\ ~called /\ f.value[1] = "property"
    IN  [value |-> IF calls THEN <<"got", f.value[2]>> ELSE f.value,
         self  |-> f.atType /\ called /\ f.value # None]

----------------------------------------------------------------------------
(* What the text means *)

(* A class inherits n from the one of its ancestors with n that descends   *)
(* from the others.                                                        *)
Inherited(t, n) ==
    LET having == {u \in Range(Chain(t)) : n \in DOMAIN types[u].attrs}
        nearest == CHOOSE u \in having : having \subseteq Range(Chain(u))
    IN  IF having = {} THEN None ELSE types[nearest].attrs[n]

Own(v, n) ==
    IF v[1] = "class" THEN Inherited(v[2], n)
    ELSE IF n \in DOMAIN objects[v[2]].attrs THEN objects[v[2]].attrs[n] ELSE None
OfItsClass(v, n) ==
    IF v[1] = "object" THEN Inherited(objects[v[2]].type, n)
    ELSE IF n \in DOMAIN types[TypeType].attrs THEN types[TypeType].attrs[n] ELSE None

Meant(v, n) ==
    LET class == OfItsClass(v, n)
    IN  IF class[1] = "property" THEN [value |-> <<"got", class[2]>>, self |-> FALSE]
        ELSE IF Own(v, n) # None THEN [value |-> Own(v, n), self |-> FALSE]
        ELSE [value |-> class, self |-> class[1] = "function"]

(* Why the two may differ.                                                 *)
(* shadowed: an attribute of the instance hides a property of the class.   *)
(* calling: the getter is not called when the property is called.          *)
(* given: what is called is given the object though it is no function.     *)
(* loose: a method that is not called at once forgets the object.          *)
Reasons(v, n, called) ==
    LET class == OfItsClass(v, n)
        own == Own(v, n) # None
    IN  {c \in {"shadowed", "calling", "given", "loose"} :
          \/ c = "shadowed" /\ own /\ class[1] = "property"
          \/ c = "calling" /\ called /\ class[1] = "property"
          \/ c = "given" /\ called /\ ~own /\ class[1] \notin {"function", "property"}
          \/ c = "loose" /\ ~called /\ ~own /\ class[1] = "function"}

----------------------------------------------------------------------------
(* Steps *)

ObjectsInit ==
    /\ types = [t \in DOMAIN Builtin |-> [base |-> ObjectType, attrs |-> Builtin[t]]]
    /\ objects = <<>> /\ stores = 0

Classes == {t \in DOMAIN types : t > Len(Builtin)}

(* BC_NEW_OBJ TYPE: a class of object, of a builtin type or of a class *)
NewClass ==
    /\ Len(types) < Len(Builtin) + MaxTypes
    /\ \E base \in DOMAIN types \ {TypeType} :
          types' = Append(types, [base |-> base, attrs |-> Nothing])
    /\ UNCHANGED <<objects, stores>>

(* pylt_obj_cutstom_create *)
New ==
    /\ Len(objects) < MaxObjects
    /\ \E t \in Classes : objects' = Append(objects, [type |-> t, attrs |-> Nothing])
    /\ UNCHANGED <<types, stores>>

Things == {<<"class", t>> : t \in Classes} \cup {<<"object", o>> : o \in DOMAIN objects}
AttrsOf(v) == IF v[1] = "class" THEN types[v[2]].attrs ELSE objects[v[2]].attrs
Store(v, attrs) ==
    /\ stores < MaxStores /\ stores' = stores + 1
    /\ IF v[1] = "class"
       THEN types' = [types EXCEPT ![v[2]].attrs = attrs] /\ UNCHANGED objects
       ELSE objects' = [objects EXCEPT ![v[2]].attrs = attrs] /\ UNCHANGED types

(* pylt_obj_setattr; the setter of a property is never called *)
SetAttr == \E v \in Things, n \in Names, new \in Values : Store(v, With(AttrsOf(v), n, new))
(* pylt_obj_delattr; a name that is not there is passed over *)
DelAttr == \E v \in Things, n \in Names : Store(v, Without(AttrsOf(v), n))

ObjectsNext == NewClass \/ New \/ SetAttr \/ DelAttr

ObjectsSpec == ObjectsInit /\ [][ObjectsNext]_objvars

----------------------------------------------------------------------------
(* A lookup gives what the attribute means, and the object along with it   *)
(* when a method is called, unless a property is hidden or called, what is *)
(* called is no function, or a method is not called at once                *)
(* (pylt_obj_getattr_ex and BC_GET_ATTR together).                         *)
LookupAsMeant == \A v \in Things, n \in Names, called \in BOOLEAN :
    Fetched(v, n, called) # Meant(v, n) => Reasons(v, n, called) # {}
==============================================================================
