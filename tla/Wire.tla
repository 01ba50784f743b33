-------------------------------- MODULE Wire --------------------------------
(***************************************************************************)
(* How objects are written to and read from a stream.  An object is a      *)
(* record of its members.  A class states what from_data reads and what    *)
(* to_data writes, each as the sequence of <<member, kind>> the code reads *)
(* or writes in that order, what reset() leaves, which members is_valid    *)
(* compares with it (any or all of them must differ) and the protocol      *)
(* version below which from_data invalidates the source (0 if it does not  *)
(* test the version).                                                      *)
(*                                                                         *)
(* The all-ones value of an integer of four or eight bytes (null_index,    *)
(* not_found) is -1.  The valid_ flags that operator== ignores (point,     *)
(* script, witness) are left out.  Limit stands for each of the bounds on  *)
(* counts and sizes (max_address, max_inventory, get_max_block_size...).   *)
(***************************************************************************)
EXTENDS Stream

CONSTANTS
  Bch,          \* BITPRIM_CURRENCY_BCH
  Limit

Null(n) == Zeros(n)
null_hash == Null(32)

(* Kinds of members.                                                       *)
U(n) == <<"uint", n>>                   \* read_n_bytes_little_endian
BE(n) == <<"big", n>>                   \* read_n_bytes_big_endian
Raw(n) == <<"raw", n>>                  \* read_hash, read_bytes(n)
Hash == Raw(32)
VarInt == <<"varint", 0>>               \* read_variable_little_endian
Str == <<"string", 0>>                  \* read_string()
FixedStr(n) == <<"fixed", n>>           \* read_string(n)
Terminated(max) == <<"terminated", max>>  \* read_null_terminated_string(max)
Chunk == <<"chunk", 0>>                 \* read_bytes(read_size_little_endian())
Blob == <<"blob", Limit>>               \* the same, of a bounded size
AtMost(n, max) == <<"bounded", n, max>> \* an integer that may not exceed max
Among(codes) == <<"among", codes>>      \* a byte, 0 unless one of codes
List(kind) == <<"list", kind>>          \* of a bounded count
AnyList(kind) == <<"anylist", kind>>
Obj(class) == <<"object", class>>
Index16 == <<"index16", 0>>             \* point's index in the store
Set(value) == <<"set", value>>          \* assigned without reading
Lit(bytes) == <<"literal", bytes>>      \* written, or read and discarded

(* script::from_data and to_data, with prefix.                             *)
Script == Blob

(* witness::from_data and to_data, with prefix: elements, each a blob.     *)
Witness == AnyList(Blob)

-----------------------------------------------------------------------------
(* chain::header, on the wire.                                             *)
ChainHeader ==
  LET Fields == <<<<"version", U(4)>>, <<"previous_block_hash", Hash>>, <<"merkle", Hash>>,
                  <<"timestamp", U(4)>>, <<"bits", U(4)>>, <<"nonce", U(4)>>>>
  IN  [minimum |-> 0, reads |-> Fields, writes |-> Fields,
       any |-> {Fields[i][1] : i \in 1..6}, all |-> {},
       reset |-> [version |-> 0, previous_block_hash |-> null_hash, merkle |-> null_hash,
                  timestamp |-> 0, bits |-> 0, nonce |-> 0]]

(* chain::point: the index has four bytes on the wire, two in the store.   *)
Point(wire) ==
  LET Index == IF wire THEN U(4) ELSE Index16
  IN  [minimum |-> 0, reads |-> <<<<"hash", Hash>>, <<"index", Index>>>>,
       writes |-> <<<<"hash", Hash>>, <<"index", Index>>>>,
       any |-> {"hash", "index"}, all |-> {},
       reset |-> [hash |-> null_hash, index |-> 0]]

(* chain::output: the store also has the height of the spender.            *)
Output(wire) ==
  LET Height == IF wire THEN <<>> ELSE <<<<"spender_height", U(4)>>>>
      Fields == Height \o <<<<"value", U(8)>>, <<"script", Script>>>>
  IN  [minimum |-> 0, reads |-> Fields, writes |-> Fields, any |-> {"value"}, all |-> {},
       reset |-> [spender_height |-> 0, value |-> -1, script |-> <<>>]]

(* chain::input: the store has the witness, on the wire the transaction    *)
(* has it after the outputs.                                               *)
Input(wire) ==
  LET Stack == IF wire \/ Bch THEN <<>> ELSE <<<<"witness", Witness>>>>
      Fields == <<<<"previous_output", Obj(IF wire THEN "point" ELSE "stored_point")>>,
                  <<"script", Script>>>> \o Stack \o <<<<"sequence", U(4)>>>>
  IN  [minimum |-> 0, reads |-> Fields, writes |-> Fields,
       any |-> {"sequence", "previous_output", "script", "witness"}, all |-> {},
       reset |-> [previous_output |-> Point(wire).reset, script |-> <<>>,
                  witness |-> <<>>, sequence |-> 0]]

(* chain::transaction in the store; unconfirmed ones carry three results   *)
(* of their validation.                                                    *)
StoredTransaction(unconfirmed) ==
  LET Fields == <<<<"outputs", List(Obj("stored_output"))>>,
                  <<"inputs", List(Obj("stored_input"))>>,
                  <<"locktime", VarInt>>, <<"version", VarInt>>>> \o
                IF unconfirmed
                THEN <<<<"sigops", U(4)>>, <<"fees", U(8)>>, <<"standard", U(1)>>>>
                ELSE <<>>
  IN  [minimum |-> 0, reads |-> Fields, writes |-> Fields,
       any |-> {"version", "locktime", "inputs", "outputs"}, all |-> {},
       reset |-> [version |-> 0, locktime |-> 0, inputs |-> <<>>, outputs |-> <<>>,
                  sigops |-> 0, fees |-> 0, standard |-> 0]]

(* chain::transaction on the wire; what it reads and writes depends on its *)
(* inputs: ReadTransaction and WriteTransaction of module Codec.           *)
witness_marker == 0
witness_flag == 1

is_segregated(m) == ~Bch /\ \E i \in 1..Len(m.inputs) : m.inputs[i].witness # <<>>

Transaction ==
  [minimum |-> 0, any |-> {"version", "locktime", "inputs", "outputs"}, all |-> {},
   reset |-> [version |-> 0, locktime |-> 0, inputs |-> <<>>, outputs |-> <<>>]]

(* chain::block, with witness.                                             *)
Block ==
  LET Fields == <<<<"header", Obj("chain_header")>>, <<"transactions", List(Obj("transaction"))>>>>
  IN  [minimum |-> 0, reads |-> Fields, writes |-> Fields,
       any |-> {"header", "transactions"}, all |-> {},
       reset |-> [header |-> ChainHeader.reset, transactions |-> <<>>]]

=============================================================================
