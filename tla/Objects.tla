------------------------------ MODULE Objects -------------------------------
(***************************************************************************)
(* Two objects of one of the value classes in a caller's hands: built,     *)
(* copied, moved, assigned, changed through setters and through references *)
(* to their members, read anew from data, stripped of witnesses, and asked *)
(* for what they compute and keep.                                         *)
(*                                                                         *)
(* meant is what each object stands for if it were just its value, with no *)
(* caches.  careful says that the caller has kept to what the classes can  *)
(* bear: Bears is that contract.                                           *)
(***************************************************************************)
EXTENDS Classes, Naturals, FiniteSets

CONSTANTS
  Names,          \* of the objects
  Values,         \* what a member can be given
  Blank,          \* the value of a member of a default object
  MaxCalls,       \* bound on the number of calls, of classes with caches
  MaxPlainCalls   \* and of classes without

VARIABLES class, object, meant, careful, calls

objectVars == <<class, object, meant, careful, calls>>

This == Class[class]
Caches == DOMAIN This.basis
Nothing == [c \in Caches |-> {}]
Default == [m \in This.members |-> Blank]
Object(members, cache) == [member |-> members, cache |-> cache]

(* A cached value together with the argument of the call that computed it: *)
(* with_coinbase, or the address versions.                                 *)
Arguments(c) ==
  CASE class = "block" /\ c = "total_inputs" -> BOOLEAN
    [] class = "output" /\ c = "addresses" -> {"mainnet", "testnet"}
    [] OTHER -> {"none"}

Compute(c, argument, members) ==
  [argument |-> argument,
   of |-> IF c = "segregated" THEN members["witnesses"] # Blank
          ELSE [m \in This.basis[c] |-> members[m]]]

(* A kept value is returned whatever the argument is.                      *)
Kept(c, argument, o) ==
  IF o.cache[c] = {} THEN Compute(c, argument, o.member) ELSE CHOOSE k \in o.cache[c] : TRUE

(* is_segregated() never keeps what it computes.                           *)
Keep(c, argument, o) ==
  IF c = "segregated" THEN o ELSE [o EXCEPT !.cache[c] = {Kept(c, argument, o)}]

(* hash(witness): witness hashing is disabled for non-segregated txs.      *)
Slot(c, o) ==
  IF c = "witness_hash" /\ ~Kept("segregated", "none", o).of THEN "hash" ELSE c

Ask(c, argument, o) == Kept(Slot(c, o), argument, o)

Drop(cs, cache) == [c \in Caches |-> IF c \in cs THEN {} ELSE cache[c]]

Give(ms, members, v) == [m \in This.members |-> IF m \in ms THEN v ELSE members[m]]

Transfer(ms, to, from) == [m \in This.members |-> IF m \in ms THEN from[m] ELSE to[m]]

-----------------------------------------------------------------------------
Bound == IF Caches = {} THEN MaxPlainCalls ELSE MaxCalls

(* What the classes bear.  The members that a caller may reach by          *)
(* reference are marked "Deprecated (unsafe)" or mutable in the headers.   *)
Untouched(o) == o.cache = Nothing

(* Over an object that keeps something, only some can be read or assigned. *)
Bears(call, o) ==
  \/ Untouched(o)
  \/ call = "from_data" /\ class \in {"transaction", "script"}
  \/ call = "assign" /\ class \in {"script", "input", "output"}

(* operator= that loses a member, valid_ or total_transactions_.           *)
LosesMembers == {"ping", "pong", "point", "point_value", "output_point", "merkle_block"}

Put(x, o, m, c) ==
  /\ calls < Bound
  /\ calls' = calls + 1
  /\ object' = [object EXCEPT ![x] = o]
  /\ meant' = [meant EXCEPT ![x] = m]
  /\ careful' = [careful EXCEPT ![x] = c]
  /\ UNCHANGED class

(* The source of a move is left in a valid but unspecified state: it is    *)
(* not to be used until it is built anew.                                  *)
PutMoved(x, y, o, m, c) ==
  /\ calls < Bound
  /\ calls' = calls + 1
  /\ object' = [object EXCEPT ![x] = o, ![y].member = Default]
  /\ meant' = [meant EXCEPT ![x] = m]
  /\ careful' = [careful EXCEPT ![x] = c, ![y] = FALSE]
  /\ UNCHANGED class

-----------------------------------------------------------------------------
(* The default constructor.                                                *)
Build(x) ==
  \E u \in IF This.undefined = {} THEN {Blank} ELSE {Blank} \cup Values :
    Put(x, Object(Give(This.undefined, Default, u), Nothing), Default, u = Blank)

(* A constructor from members; some leave a member uninitialised.          *)
BuildFrom(x, v) ==
  \E u \in IF This.unset = {} THEN {v} ELSE {v, Blank} :
    Put(x, Object(Give(This.unset, Give(This.members, Default, v), u), Nothing),
        Give(This.members, Default, v), u = v)

(* A factory reads into a default object.                                  *)
factory_from_data(x, v) ==
  LET read == [m \in This.members |-> IF m \in This.unread \cup {"prevouts"} THEN Blank ELSE v]
  IN  class \notin Unserialized /\ Put(x, Object(read, Nothing), read, TRUE)

Inherit(cache) == Drop(Caches \ This.inherited, cache)

(* The copying constructor.                                                *)
CopyBuild(x, y) ==
  Put(x, Object(Transfer(This.copied, Default, object[y].member), Inherit(object[y].cache)),
      meant[y],
      careful[y] /\ Transfer(This.copied, Default, object[y].member) = object[y].member)

(* The constructor that is told the hash.                                  *)
CopyHashed(x, y) ==
  /\ class \in {"header", "transaction"}
  /\ Put(x, Object(object[y].member,
                   [Nothing EXCEPT !["hash"] = {Ask("hash", "none", object[y])}]),
         meant[y], careful[y])

MoveBuild(x, y) ==
  /\ class \notin Unmoved
  /\ PutMoved(x, y,
       Object(Transfer(This.copied, Default, object[y].member), Inherit(object[y].cache)),
       meant[y],
       careful[y] /\ Transfer(This.copied, Default, object[y].member) = object[y].member)

(* operator=.                                                              *)
Assigned(x, y) ==
  Object(Transfer(This.assigned, object[x].member, object[y].member),
         [c \in Caches |-> IF c \in This.inherited THEN object[y].cache[c]
                           ELSE Drop(This.assign, object[x].cache)[c]])

AssignBorne(x, y) ==
  /\ careful[y]
  /\ Bears("assign", object[x])
  /\ class \notin LosesMembers
  /\ class = "transaction" => object[x].member["pool"] = object[y].member["pool"]

Assign(x, y) ==
  /\ class \in CopyAssigned
  /\ Put(x, Assigned(x, y), meant[y], AssignBorne(x, y))

MoveAssign(x, y) ==
  /\ This.assigned # {} /\ class \notin Unmoved \cup {"payment_address"}
  /\ PutMoved(x, y, Assigned(x, y), meant[y], AssignBorne(x, y))

(* operator= from an object of the base class: reset first for some.       *)
Rebase(x, y) ==
  /\ class \in Rebased
  /\ LET kept == IF class = "output_point" THEN {"validation"} ELSE {}
         base == Transfer(This.assigned \ kept, object[x].member, object[y].member)
         whole == [m \in This.members |-> IF m \in kept \cup {"pool"} THEN Blank ELSE meant[y][m]]
     IN PutMoved(x, y, Object(base, Drop(This.rebase, object[x].cache)), whole,
            /\ careful[y] /\ class # "output_point"
            /\ Untouched(object[x]) \/ class = "transaction"
            /\ class = "transaction" => base["pool"] = Blank)

-----------------------------------------------------------------------------
(* A setter, by const reference.                                           *)
Set(x, s, v) ==
  Put(x, Object(Give(This.setters[s], object[x].member, v), Drop(This.set[s], object[x].cache)),
      Give(This.setters[s], meant[x], v),
      careful[x] /\ (class \in {"block", "compact_block", "merkle_block"} /\ s = "header"
                       => object[x].cache["hash"] = {}))

(* A setter, by move.                                                      *)
MoveSet(x, s, v) ==
  Put(x, Object(Give(This.setters[s], object[x].member, v), Drop(This.move[s], object[x].cache)),
      Give(This.setters[s], meant[x], v),
      /\ careful[x]
      /\ class \in {"block", "compact_block", "merkle_block"} /\ s = "header"
           => object[x].cache["hash"] = {}
      /\ class = "transaction" =>
           \A c \in {"outputs_hash", "inpoints_hash", "sequences_hash"} : object[x].cache[c] = {})

(* A member is changed through a reference.                                *)
Touch(x, m, v) ==
  Put(x, [object[x] EXCEPT !.member[m] = v], Give({m}, meant[x], v),
      careful[x] /\ Untouched(object[x]))

(* What from_data() or reset() leaves of the members in unread is there    *)
(* from before; a value that is read has its previous outputs not found.   *)
Read(ms, members, v) ==
  [m \in This.members |-> IF m = "prevouts" THEN Blank
                          ELSE IF m \in This.unread \ ms THEN members[m] ELSE v]

ReadBorne(x, ms) ==
  Bears("from_data", object[x]) /\ \A m \in This.unread \ ms : object[x].member[m] = Blank

(* from_data(), which begins with reset() in some classes.                 *)
FromData(x, v) ==
  /\ class \notin Unserialized
  /\ \E ms \in {{}, This.unread \ {"validation"}} :
       Put(x, Object(Read(ms, object[x].member, v), Drop(This.from_data, object[x].cache)),
           Read(ms, Default, v), ReadBorne(x, ms))

(* The same of a transaction or a block from data without witnesses: it    *)
(* ends with strip_witness().                                              *)
NotSegregated == {[argument |-> "none", of |-> FALSE]}

FromDataStripped(x, v) ==
  /\ class \in {"transaction", "block"}
  /\ \E ms \in {{}, This.unread} :
       Put(x, Object(Give({"witnesses"}, Read(ms, object[x].member, v), Blank),
                     [Drop(This.from_data \cup {"total_size"}, object[x].cache) EXCEPT
                        !["segregated"] = NotSegregated]),
           Give({"witnesses"}, Read(ms, Default, v), Blank), ReadBorne(x, ms))

(* from_data() that fails ends with reset().                               *)
FromDataFails(x) ==
  /\ class \notin Unserialized \cup Unreset
  /\ Put(x, Object(Read({}, object[x].member, Blank),
                   Drop(This.from_data \cup This.reset, object[x].cache)), Default,
         ReadBorne(x, {}) \/ class = "header")

(* One that does not leaves the members it has read, and of the last one   *)
(* what there was.                                                         *)
FromDataStops(x, v) ==
  /\ class \in Unreset
  /\ \E ms \in SUBSET This.members :
       Put(x, Object(Give(ms, object[x].member, v), Nothing), meant[x], FALSE)

(* strip_witness() of a transaction and of a block.                        *)
strip_witness(x) ==
  /\ class \in {"transaction", "block"}
  /\ Put(x, Object(Give({"witnesses"}, object[x].member, Blank),
                   [Drop({"total_size"}, object[x].cache) EXCEPT
                      !["segregated"] = NotSegregated]),
         Give({"witnesses"}, meant[x], Blank), careful[x])

recompute_hash(x) ==
  /\ class = "transaction"
  /\ Put(x, Keep("hash", "none", [object[x] EXCEPT !.cache["hash"] = {}]), meant[x], careful[x])

(* A call that computes, unless there is a kept value to return.           *)
Query(x, c, argument) ==
  Put(x, Keep(Slot(c, object[x]), argument, object[x]), meant[x],
      careful[x] /\ \A k \in object[x].cache[Slot(c, object[x])] : k.argument = argument)

-----------------------------------------------------------------------------
ObjectsInit ==
  /\ class \in DOMAIN Class
  /\ object = [x \in Names |-> Object(Default, Nothing)]
  /\ meant = [x \in Names |-> Default]
  /\ careful = [x \in Names |-> TRUE]
  /\ calls = 0

One(x) ==
  \/ Build(x)
  \/ \E v \in Values :
       \/ BuildFrom(x, v) \/ factory_from_data(x, v) \/ FromData(x, v)
       \/ FromDataStripped(x, v) \/ FromDataStops(x, v)
  \/ FromDataFails(x)
  \/ \E s \in DOMAIN This.setters, v \in Values : Set(x, s, v) \/ MoveSet(x, s, v)
  \/ \E m \in This.exposed, v \in Values : Touch(x, m, v)
  \/ strip_witness(x)
  \/ recompute_hash(x)
  \/ \E c \in Caches : \E argument \in Arguments(c) : Query(x, c, argument)

Two(x, y) ==
  CopyBuild(x, y) \/ CopyHashed(x, y) \/ MoveBuild(x, y) \/ Assign(x, y) \/ MoveAssign(x, y)
  \/ Rebase(x, y)

ObjectsNext ==
  \/ \E x \in Names : One(x)
  \/ \E x, y \in Names : x # y /\ Two(x, y)

(* operator==.                                                             *)
Equal(x, y) == \A m \in This.compared : object[x].member[m] = object[y].member[m]

-----------------------------------------------------------------------------
(* In the hands of a careful caller an object of every class is what its   *)
(* value is: its members are the ones it was given last, by whatever mix   *)
(* of copies, moves, assignments and setters, and hash, serialized_size,   *)
(* operations, addresses, total_inputs and is_segregated return what they  *)
(* would compute from them.  Objects that are equal have the same hash.    *)
ActsAsItsValue ==
  \A x \in Names : careful[x] =>
    /\ object[x].member = meant[x]
    /\ \A y \in Names, c \in Caches \cap {"hash"} :
         careful[y] /\ Equal(x, y) => Ask(c, "none", object[x]) = Ask(c, "none", object[y])
    /\ \A c \in Caches : \A argument \in Arguments(c) :
         (\A k \in object[x].cache[Slot(c, object[x])] : k.argument = argument) =>
           Ask(c, argument, object[x]) = Ask(c, argument, Object(meant[x], Nothing))

=============================================================================
