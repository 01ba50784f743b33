-------------------------------- MODULE Codec --------------------------------
(***************************************************************************)
(* from_data, to_data and serialized_size (the number of bytes to_data is  *)
(* about to write, computed apart from it) of every class of modules Wire  *)
(* and Messages.                                                           *)
(***************************************************************************)
EXTENDS Messages, Operation

hash_size == 32

SumOf(f(_), s) == FoldLeft(LAMBDA total, x : total + f(x), 0, s)

Prefixed(bytes) == variable_uint_size(Len(bytes)) + Len(bytes)

ScriptSize(script) == Len(script) + variable_uint_size(Len(script))

WitnessSize(stack) == variable_uint_size(Len(stack)) + SumOf(Prefixed, stack)

ChainHeaderSize == 4 + hash_size + hash_size + 4 + 4 + 4

PointSize(wire) == IF wire THEN hash_size + 4 ELSE 34

OutputSize(wire, m) == (IF wire THEN 0 ELSE 4) + 8 + ScriptSize(m.script)

(* The witness is counted on the wire too, although input does not write   *)
(* it there.                                                               *)
InputSize(wire, witness, m) ==
  LET counted == ~Bch /\ (witness \/ ~wire)
  IN  PointSize(wire) + ScriptSize(m.script)
      + (IF counted THEN WitnessSize(m.witness) ELSE 0) + 4

TransactionSize(wire, unconfirmed, m) ==
  LET witness == is_segregated(m)
  IN  (IF wire /\ witness THEN 1 + 1 ELSE 0)
      + (IF wire THEN 4 ELSE variable_uint_size(m.version))
      + (IF wire THEN 4 ELSE variable_uint_size(m.locktime))
      + variable_uint_size(Len(m.inputs)) + variable_uint_size(Len(m.outputs))
      + SumOf(LAMBDA i : InputSize(wire, witness, i), m.inputs)
      + SumOf(LAMBDA o : OutputSize(wire, o), m.outputs)
      + (IF ~wire /\ unconfirmed THEN 4 + 8 + 1 ELSE 0)

WireSize(m) == TransactionSize(TRUE, FALSE, m)

BlockSize(m) ==
  ChainHeaderSize + variable_uint_size(Len(m.transactions)) + SumOf(WireSize, m.transactions)

NetworkAddressSize(with_timestamp) == 26 + (IF with_timestamp THEN 4 ELSE 0)

AddressSize(m) ==
  variable_uint_size(Len(m.addresses)) + Len(m.addresses) * NetworkAddressSize(TRUE)

AlertSize(m) == Prefixed(m.payload) + Prefixed(m.signature)

AlertPayloadSize(m) ==
  40 + Prefixed(m.comment) + Prefixed(m.status_bar) + Prefixed(m.reserved)
  + variable_uint_size(Len(m.set_cancel)) + 4 * Len(m.set_cancel)
  + variable_uint_size(Len(m.set_sub_version)) + SumOf(Prefixed, m.set_sub_version)

BlockTransactionsSize(m) ==
  hash_size + variable_uint_size(Len(m.transactions)) + SumOf(WireSize, m.transactions)

PrefilledTransactionSize(m) == variable_uint_size(m.index) + WireSize(m.transaction)

CompactBlockSize(m) ==
  ChainHeaderSize + variable_uint_size(Len(m.short_ids)) + Len(m.short_ids) * 6
  + variable_uint_size(Len(m.transactions)) + 8
  + SumOf(PrefilledTransactionSize, m.transactions)

FeeFilterSize == 8

FilterAddSize(m) == Prefixed(m.data)

FilterLoadSize(m) == 1 + 4 + 4 + Prefixed(m.filter)

GetBlockTransactionsSize(m) ==
  hash_size + variable_uint_size(Len(m.indexes)) + SumOf(variable_uint_size, m.indexes)

LocatorSize(m) ==
  36 + variable_uint_size(Len(m.start_hashes)) + hash_size * Len(m.start_hashes)

InventoryVectorSize == hash_size + 4

InventorySize(m) ==
  variable_uint_size(Len(m.inventories)) + Len(m.inventories) * InventoryVectorSize

HeaderSize(version) ==
  ChainHeaderSize + (IF version = level.canonical THEN 0 ELSE variable_uint_size(0))

HeadersSize(version, m) ==
  variable_uint_size(Len(m.elements)) + Len(m.elements) * HeaderSize(version)

HeadingSize == 4 + command_size + 4 + 4

MerkleBlockSize(m) ==
  ChainHeaderSize + 4 + variable_uint_size(Len(m.hashes)) + hash_size * Len(m.hashes)
  + Prefixed(m.flags)

PingSize(version) == IF version < level.bip31 THEN 0 ELSE 8

PongSize == 8

SendCompactSize == 9

RejectSize(m) ==
  1 + Prefixed(m.message) + Prefixed(m.reason) + (IF Hashed(m) THEN hash_size ELSE 0)

(* relay is counted by the peer's version alone.                           *)
VersionSize(m) ==
  4 + 8 + 8 + NetworkAddressSize(FALSE) + NetworkAddressSize(FALSE) + 8
  + Prefixed(m.user_agent) + 4 + (IF m.value >= level.bip37 THEN 1 ELSE 0)

KeokenBaseSize == 2 + 2

CreateAssetSize(m) == KeokenBaseSize + 8 + Len(m.name) + 1

SendTokensSize == KeokenBaseSize + 4 + 8

serialized_size(name, version, m) ==
  CASE name = "chain_header" -> ChainHeaderSize
    [] name = "point" -> PointSize(TRUE)
    [] name = "stored_point" -> PointSize(FALSE)
    [] name = "output" -> OutputSize(TRUE, m)
    [] name = "stored_output" -> OutputSize(FALSE, m)
    [] name = "input" -> InputSize(TRUE, FALSE, m)
    [] name = "stored_input" -> InputSize(FALSE, TRUE, m)
    [] name = "transaction" -> WireSize(m)
    [] name = "stored_transaction" -> TransactionSize(FALSE, FALSE, m)
    [] name = "unconfirmed_transaction" -> TransactionSize(FALSE, TRUE, m)
    [] name = "block" -> BlockSize(m)
    [] name = "network_address" -> NetworkAddressSize(FALSE)
    [] name = "network_address_time" -> NetworkAddressSize(TRUE)
    [] name = "address" -> AddressSize(m)
    [] name = "alert" -> AlertSize(m)
    [] name = "alert_payload" -> AlertPayloadSize(m)
    [] name = "block_transactions" -> BlockTransactionsSize(m)
    [] name = "prefilled_transaction" -> PrefilledTransactionSize(m)
    [] name = "compact_block" -> CompactBlockSize(m)
    [] name = "fee_filter" -> FeeFilterSize
    [] name = "filter_add" -> FilterAddSize(m)
    [] name \in {"filter_clear", "memory_pool", "send_headers", "get_address", "verack"} -> 0
    [] name = "filter_load" -> FilterLoadSize(m)
    [] name = "get_block_transactions" -> GetBlockTransactionsSize(m)
    [] name \in {"get_blocks", "get_headers"} -> LocatorSize(m)
    [] name = "inventory_vector" -> InventoryVectorSize
    [] name \in {"inventory", "get_data", "not_found"} -> InventorySize(m)
    [] name = "header" -> HeaderSize(version)
    [] name = "headers" -> HeadersSize(version, m)
    [] name = "heading" -> HeadingSize
    [] name = "merkle_block" -> MerkleBlockSize(m)
    [] name = "ping" -> PingSize(version)
    [] name = "pong" -> PongSize
    [] name = "send_compact" -> SendCompactSize
    [] name = "reject" -> RejectSize(m)
    [] name = "version" -> VersionSize(m)
    [] name = "create_asset" -> CreateAssetSize(m)
    [] name = "send_tokens" -> SendTokensSize

-----------------------------------------------------------------------------
Class(name, version) ==
  CASE name = "chain_header" -> ChainHeader
    [] name = "point" -> Point(TRUE)
    [] name = "stored_point" -> Point(FALSE)
    [] name = "output" -> Output(TRUE)
    [] name = "stored_output" -> Output(FALSE)
    [] name = "input" -> Input(TRUE)
    [] name = "stored_input" -> Input(FALSE)
    [] name = "transaction" -> Transaction
    [] name = "stored_transaction" -> StoredTransaction(FALSE)
    [] name = "unconfirmed_transaction" -> StoredTransaction(TRUE)
    [] name = "block" -> Block
    [] name = "network_address" -> NetworkAddress(FALSE)
    [] name = "network_address_time" -> NetworkAddress(TRUE)
    [] name = "address" -> Address
    [] name = "alert" -> Alert
    [] name = "alert_payload" -> AlertPayload
    [] name = "block_transactions" -> BlockTransactions
    [] name = "prefilled_transaction" -> PrefilledTransaction
    [] name = "compact_block" -> CompactBlock
    [] name = "fee_filter" -> FeeFilter
    [] name = "filter_add" -> FilterAdd
    [] name = "filter_clear" -> FilterClear
    [] name = "memory_pool" -> MemoryPool
    [] name = "send_headers" -> SendHeaders
    [] name = "filter_load" -> FilterLoad
    [] name = "get_address" -> GetAddress
    [] name = "verack" -> Verack
    [] name = "get_block_transactions" -> GetBlockTransactions
    [] name = "get_blocks" -> GetBlocks(version)
    [] name = "get_headers" -> GetHeaders(version)
    [] name = "inventory_vector" -> InventoryVector
    [] name = "inventory" -> Inventory
    [] name = "get_data" -> GetData
    [] name = "not_found" -> NotFound
    [] name = "header" -> Header(version)
    [] name = "headers" -> Headers
    [] name = "heading" -> Heading
    [] name = "merkle_block" -> MerkleBlock
    [] name = "ping" -> Ping(version)
    [] name = "pong" -> Pong
    [] name = "send_compact" -> SendCompact
    [] name = "reject" -> Reject
    [] name = "version" -> Version
    [] name = "create_asset" -> CreateAsset
    [] name = "send_tokens" -> SendTokens

is_valid(name, m) ==
  LET class == Class(name, 0)
      Differs(f) == m[f] # class.reset[f]
  IN  /\ class.any # {} => \E f \in class.any : Differs(f)
      /\ \A f \in class.all : Differs(f)
      /\ name = "prefilled_transaction" => Bch \/ m.index < class.reset.index

-----------------------------------------------------------------------------
RECURSIVE ToData(_, _, _), WriteKind(_, _, _)

WriteElements(kind, version, values) ==
  FlattenSeq([i \in 1..Len(values) |-> WriteKind(kind, version, values[i])])

WriteKind(kind, version, value) ==
  LET Sized == write_variable_little_endian(Len(value))
  IN  CASE kind[1] \in {"uint", "bounded"} -> write_little_endian(kind[2], value)
        [] kind[1] = "big" -> write_big_endian(kind[2], value)
        [] kind[1] = "among" -> <<value>>
        [] kind[1] = "raw" -> value
        [] kind[1] = "varint" -> write_variable_little_endian(value)
        [] kind[1] = "string" -> write_string(value)
        [] kind[1] = "fixed" -> write_fixed_string(value, kind[2])
        [] kind[1] = "terminated" -> value \o <<0>>
        [] kind[1] \in {"chunk", "blob"} -> Sized \o value
        [] kind[1] \in {"list", "anylist"} -> Sized \o WriteElements(kind[2], version, value)
        [] kind[1] = "object" -> ToData(kind[2], version, value)
        [] kind[1] = "index16" -> write_little_endian(2, value)

WriteFields(fields, version, m) ==
  FlattenSeq([i \in 1..Len(fields) |->
    IF fields[i][2][1] = "literal" THEN fields[i][2][2]
    ELSE WriteKind(fields[i][2], version, m[fields[i][1]])])

Puts(put) == List(Obj(put))

(* transaction::to_data with wire and witness.                             *)
WriteTransaction(version, m) ==
  LET witness == is_segregated(m)
      Witnesses == [i \in 1..Len(m.inputs) |-> m.inputs[i].witness]
  IN  write_little_endian(4, m.version)
      \o (IF witness THEN <<witness_marker, witness_flag>> ELSE <<>>)
      \o WriteKind(Puts("input"), version, m.inputs)
      \o WriteKind(Puts("output"), version, m.outputs)
      \o (IF witness THEN WriteElements(Witness, version, Witnesses) ELSE <<>>)
      \o write_little_endian(4, m.locktime)

WriteReject(version, m) ==
  WriteFields(Reject.writes, version, m) \o (IF Hashed(m) THEN m.data ELSE <<>>)

(* version::to_data has relay when both sides know it.                     *)
WriteVersion(version, m) ==
  LET effective_version == IF version < m.value THEN version ELSE m.value
  IN  WriteFields(Version.writes, version, m) \o
      (IF effective_version >= level.bip37 THEN <<IF m.relay THEN 1 ELSE 0>> ELSE <<>>)

ToData(name, version, m) ==
  CASE name = "transaction" -> WriteTransaction(version, m)
    [] name = "reject" -> WriteReject(version, m)
    [] name = "version" -> WriteVersion(version, m)
    [] OTHER -> WriteFields(Class(name, version).writes, version, m)

-----------------------------------------------------------------------------
RECURSIVE FromData(_, _, _), ReadKind(_, _, _)

(* The loops over elements stop when the source has failed.                *)
AppendRead(elements, read) == [r |-> read.r, v |-> Append(elements, read.v)]

ReadElements(kind, version, count) ==
  LET Step(acc, i) ==
        IF acc.r.fail THEN acc ELSE AppendRead(acc.v, ReadKind(kind, version, acc.r))
  IN  FoldLeftDomain(Step, [r |-> count.r, v |-> <<>>], Zeros(count.v))

Bounded(read, max) ==
  IF read.v > max THEN [r |-> invalidate(read.r), v |-> 0] ELSE read

ReadKind(kind, version, r) ==
  LET size == read_variable_little_endian(r)
      limited == Bounded(size, Limit)
      IndexOf(v) == IF v = 65535 THEN -1 ELSE v
      CodeOf(v) == IF v \in kind[2] THEN v ELSE 0
      Named(read) == IF read.v = <<>> THEN [read EXCEPT !.r = invalidate(@)] ELSE read
  IN  CASE kind[1] = "uint" -> read_little_endian(r, kind[2])
        [] kind[1] = "bounded" -> Bounded(read_little_endian(r, kind[2]), kind[3])
        [] kind[1] = "big" -> read_big_endian(r, kind[2])
        [] kind[1] = "among" -> With(CodeOf, read_little_endian(r, 1))
        [] kind[1] = "raw" -> read_bytes(r, kind[2])
        [] kind[1] = "literal" -> read_bytes(r, Len(kind[2]))
        [] kind[1] = "varint" -> size
        [] kind[1] = "string" -> read_string(r)
        [] kind[1] = "fixed" -> read_fixed_string(r, kind[2])
        [] kind[1] = "terminated" -> Named(read_null_terminated_string(r, kind[2]))
        [] kind[1] = "chunk" -> BytesOf(size)
        [] kind[1] = "blob" -> BytesOf(limited)
        [] kind[1] = "list" -> ReadElements(kind[2], version, limited)
        [] kind[1] = "anylist" -> ReadElements(kind[2], version, size)
        [] kind[1] = "object" -> FromData(kind[2], version, r)
        [] kind[1] = "index16" -> With(IndexOf, read_little_endian(r, 2))
        [] kind[1] = "set" -> [r |-> r, v |-> kind[2]]

(* Reads fields into the object acc.v, in order.  From a source that has   *)
(* failed nothing more is read.                                            *)
Assign(object, member, read) ==
  [r |-> read.r, v |-> IF member = "" THEN object ELSE [object EXCEPT ![member] = read.v]]

ReadFields(fields, version, acc) ==
  LET Step(a, field) ==
        IF a.r.fail THEN a ELSE Assign(a.v, field[1], ReadKind(field[2], version, a.r))
  IN  FoldLeft(Step, acc, fields)

(* read_witnesses: one witness for each input.                             *)
AssignWitness(tx, i, read) ==
  [r |-> read.r, v |-> [tx EXCEPT !.inputs[i].witness = read.v]]

ReadWitnesses(version, acc) ==
  LET Step(a, i) == AssignWitness(a.v, i, ReadKind(Witness, version, a.r))
  IN  FoldLeftDomain(Step, acc, acc.v.inputs)

(* Fault: the marker is not looked for.                                    *)
ReadTransactionBare(version, acc) ==
  ReadFields(<<<<"version", U(4)>>, <<"inputs", Puts("input")>>,
               <<"outputs", Puts("output")>>, <<"locktime", U(4)>>>>, version, acc)

(* What follows the inputs: no inputs and then the flag mean that the      *)
(* transaction has witnesses.                                              *)
ReadBody(version, head) ==
  LET none == ~Bch /\ head.v.inputs = <<>>
      looked == IF none THEN [head EXCEPT !.r = peek(@)] ELSE head
      marker == none /\ ~empty(head.r) /\ head.r.in[1] = witness_flag
      inputs == IF marker THEN <<<<"", Lit(<<witness_flag>>)>>, <<"inputs", Puts("input")>>>>
                ELSE <<>>
      puts == ReadFields(inputs \o <<<<"outputs", Puts("output")>>>>, version, looked)
  IN  IF marker THEN ReadWitnesses(version, puts) ELSE puts

(* transaction::from_data with wire and witness.                           *)
ReadTransaction(version, acc) ==
  LET Opening == <<<<"version", U(4)>>, <<"inputs", Puts("input")>>>>
  IN  ReadFields(<<<<"locktime", U(4)>>>>, version,
                 ReadBody(version, ReadFields(Opening, version, acc)))

ReadReject(head) ==
  LET rest == read_all_bytes(head.r)
  IN  IF ~Hashed(head.v) THEN head
      ELSE [r |-> rest.r,
            v |-> IF Len(rest.v) = 32 THEN [head.v EXCEPT !.data = rest.v] ELSE head.v]

(* relay is set unless both sides know it and it is there and zero.        *)
ReadRelay(version, head) ==
  LET peer_bip37 == head.v.value >= level.bip37
      self_bip37 == version >= level.bip37
      byte == read_bytes(head.r, 1)
      Relay(r, relay) == [r |-> r, v |-> [head.v EXCEPT !.relay = relay]]
  IN  IF peer_bip37 # self_bip37 THEN Relay(head.r, TRUE)
      ELSE IF is_exhausted(head.r) THEN Relay(Tested(head.r), TRUE)
      ELSE IF ~self_bip37 THEN Relay(head.r, FALSE)
      ELSE Relay(byte.r, byte.v # <<0>>)

(* What from_data reads into an object that was reset.                     *)
ReadMembers(name, version, class, r) ==
  LET start == [r |-> r, v |-> class.reset]
      listed == ReadFields(class.reads, version, start)
  IN  CASE name = "transaction" -> ReadTransaction(version, start)
        [] name = "reject" -> ReadReject(listed)
        [] name = "version" -> ReadRelay(version, listed)
        [] OTHER -> listed

(* Fault: what was read before the source failed is kept.                  *)
FinishKeeps(name, version, class, read) ==
  [r |-> IF version < class.minimum THEN invalidate(read.r) ELSE read.r, v |-> read.v]

(* The end of from_data: the version is tested, and the object is reset    *)
(* again if anything failed.  network_address copies ip after that, and    *)
(* the messages of keoken keep what they read.                             *)
Finish(name, version, class, read) ==
  LET after == IF version < class.minimum THEN invalidate(read.r) ELSE read.r
      cleared == IF name \in {"network_address", "network_address_time"}
                 THEN [class.reset EXCEPT !.ip = read.v.ip]
                 ELSE IF name \in KeokenMessages THEN read.v ELSE class.reset
  IN  [r |-> after, v |-> IF after.fail THEN cleared ELSE read.v]

ReadClass(name, version, class, r) ==
  Finish(name, version, class, ReadMembers(name, version, class, r))

FromData(name, version, r) == ReadClass(name, version, Class(name, version), r)

-----------------------------------------------------------------------------
(* The output that carries a keoken message, and how it is found again     *)
(* among the outputs of a transaction, each a list of operations.          *)

protocol_name == <<0, 0, 75, 80>>
kp_min_size == 4                        \* push_size_4
kp_max_size == push_four_size

create_keoken_output(message) ==
  <<Op("return_"), Push(protocol_name, TRUE), Push(message, TRUE)>>

get_keoken_data(ops) ==
  IF /\ Len(ops) >= 3
     /\ ops[1].code = Code("return_")
     /\ ops[2].code = 4 /\ ops[2].data = protocol_name
     /\ ops[3].code \in kp_min_size..kp_max_size
  THEN ops[3].data ELSE <<>>

first_keoken_output(outputs) ==
  LET found == SelectInSeq(outputs, LAMBDA ops : get_keoken_data(ops) # <<>>)
  IN  IF found = 0 THEN <<>> ELSE get_keoken_data(outputs[found])

-----------------------------------------------------------------------------
(* config::header and config::transaction, the option types: base 16 of    *)
(* the wire form, for a transaction without its witnesses.  The exception  *)
(* that refuses a text is the failure of the source.                       *)

Hex == INSTANCE Text

config_header == Class("chain_header", 0).reset
config_transaction == Class("transaction", 0).reset

Options == [chain_header |-> config_header, transaction |-> config_transaction]

strip_witness(tx) ==
  [tx EXCEPT !.inputs = [i \in DOMAIN tx.inputs |-> [tx.inputs[i] EXCEPT !.witness = <<>>]]]

(* What is printed and what is read: to_data and from_data are not asked   *)
(* for the witness.                                                        *)
OfOption(name, m) == IF name = "transaction" THEN strip_witness(m) ELSE m

write_option(bytes) == Hex!encode_base16(bytes)

(* The source of from_data; what is not base 16 is refused before that.    *)
read_option(text) ==
  LET bytes == Hex!decode_base16(text)
  IN  IF bytes = Hex!Refused THEN invalidate(Source(<<>>)) ELSE Source(bytes)

=============================================================================
