------------------------------ MODULE MCCodec -------------------------------
(***************************************************************************)
(* An object is constructed and written with to_data, to a stream or to    *)
(* memory of the size it announces, its bytes may be cut short, and        *)
(* another object of the same class reads them from there with from_data.  *)
(* A header and a transaction are also printed and read as options.        *)
(* Both ends use the negotiated protocol version, except for the version   *)
(* message, which is what they negotiate with.                             *)
(***************************************************************************)
EXTENDS Codec

CONSTANTS
  Versions,         \* protocol versions
  CutVersions       \* the versions under which the bytes may be cut short

VARIABLES
  className,        \* the class
  medium,           \* where it is written: "stream", "memory", "text"
  protocol,         \* the version to_data is called with
  sent,             \* the object written
  written,          \* its bytes
  progress,         \* "new", "sent", "cut", "received"
  readProtocol,     \* the version from_data is called with
  received,         \* the object read
  leftover          \* the source, empty at first, after from_data

vars == <<className, medium, protocol, sent, written, progress, readProtocol, received, leftover>>

H(x) == [i \in 1..32 |-> x]

HeaderA == [version |-> 2, previous_block_hash |-> H(7), merkle |-> H(8),
            timestamp |-> 300, bits |-> 70000, nonce |-> 9]
PointA == [hash |-> H(3), index |-> 1]
PointNull == [hash |-> H(0), index |-> -1]
In(point, script, stack) ==
  [previous_output |-> point, script |-> script, witness |-> stack, sequence |-> -1]
Out(value, script) == [spender_height |-> 0, value |-> value, script |-> script]
Tx(inputs, outputs) ==
  [version |-> 1, locktime |-> 500, inputs |-> inputs, outputs |-> outputs]
Stack == IF Bch THEN <<>> ELSE <<<<5, 6>>, <<>>>>
TxA == Tx(<<In(PointA, <<4>>, <<>>)>>, <<Out(60000, <<>>)>>)
TxB == Tx(<<In(PointNull, <<>>, <<>>), In(PointA, <<1, 2>>, Stack)>>, <<Out(1, <<1>>)>>)
Unconfirmed(tx) == [fees |-> 700, sigops |-> 2, standard |-> 1] @@ tx
Confirmed(tx) == [fees |-> 0, sigops |-> 0, standard |-> 0] @@ tx
AddressA == [timestamp |-> 400, services |-> 1, ip |-> [i \in 1..16 |-> i], port |-> 8333]
AddressB == [AddressA EXCEPT !.timestamp = 0]
VectorA == [type |-> 2, hash |-> H(4)]
VersionA(value, relay) ==
  [value |-> value, services |-> 1, timestamp |-> 99, address_receiver |-> AddressB,
   address_sender |-> [AddressB EXCEPT !.port = 0], nonce |-> 77, user_agent |-> <<47, 48>>,
   start_height |-> 100, relay |-> relay]

(* Objects of each class that a program would write.                       *)
Samples(class) ==
  CASE class \in {"chain_header", "header"} -> {HeaderA}
    [] class \in {"point", "stored_point"} -> {PointA, PointNull}
    [] class = "output" -> {Out(5, <<1, 2>>), Out(0, <<>>)}
    [] class = "stored_output" -> {[Out(5, <<1, 2>>) EXCEPT !.spender_height = 600]}
    [] class = "input" -> {In(PointA, <<4>>, <<>>)}
    [] class = "stored_input" -> {In(PointNull, <<>>, Stack)}
    [] class = "transaction" -> {TxA, TxB}
    [] class = "stored_transaction" -> {Confirmed(TxA), Confirmed(TxB)}
    [] class = "unconfirmed_transaction" -> {Unconfirmed(TxA)}
    [] class = "block" -> {[header |-> HeaderA, transactions |-> <<TxB, TxA>>]}
    [] class = "network_address" -> {AddressB}
    [] class = "network_address_time" -> {AddressA}
    [] class = "address" -> {[addresses |-> <<AddressA, AddressB>>]}
    [] class = "alert" -> {[payload |-> <<1, 2>>, signature |-> <<>>]}
    [] class = "alert_payload" ->
         {[version |-> 1, relay_until |-> 2, expiration |-> 3, id |-> 4, cancel |-> 5,
           set_cancel |-> <<6, 300>>, min_version |-> 0, max_version |-> 7,
           set_sub_version |-> <<<<65>>, <<>>>>, priority |-> 8, comment |-> <<66>>,
           status_bar |-> <<>>, reserved |-> <<67, 68>>]}
    [] class = "block_transactions" -> {[block_hash |-> H(5), transactions |-> <<TxA, TxB>>]}
    [] class = "prefilled_transaction" -> {[index |-> 253, transaction |-> TxA]}
    [] class = "compact_block" ->
         {[header |-> HeaderA, nonce |-> 6, short_ids |-> <<65536, 1>>,
           transactions |-> <<[index |-> 0, transaction |-> TxB]>>]}
    [] class = "fee_filter" -> {[insufficient_version |-> FALSE, minimum_fee |-> 1000]}
    [] class = "filter_add" -> {[data |-> <<1, 2, 3>>]}
    [] class \in {"filter_clear", "memory_pool", "send_headers"} ->
         {[insufficient_version |-> FALSE]}
    [] class = "filter_load" ->
         {[filter |-> <<1>>, hash_functions |-> 50, tweak |-> 3, flags |-> 0]}
    [] class \in {"get_address", "verack"} -> {[valid |-> TRUE]}
    [] class = "get_block_transactions" ->
         {[block_hash |-> H(5), indexes |-> <<252, 253, 65535>>],
          [block_hash |-> H(5), indexes |-> <<65536>>]}
    [] class \in {"get_blocks", "get_headers"} ->
         {[start_hashes |-> <<H(1), H(2)>>, stop_hash |-> H(0)]}
    [] class = "inventory_vector" -> {VectorA}
    [] class \in {"inventory", "get_data", "not_found"} ->
         {[inventories |-> <<VectorA, VectorA>>]}
    [] class = "headers" -> {[elements |-> <<HeaderA, HeaderA>>]}
    [] class = "heading" ->
         {[magic |-> 7, command |-> <<112, 111>>, payload_size |-> 8, checksum |-> 9]}
    [] class = "merkle_block" ->
         {[header |-> HeaderA, total_transactions |-> 3, hashes |-> <<H(1)>>,
           flags |-> <<7, 8>>]}
    [] class = "ping" -> {[nonce |-> n, nonceless |-> FALSE, valid |-> TRUE] : n \in {0, 5}}
    [] class = "pong" -> {[nonce |-> n, valid |-> TRUE] : n \in {0, 5}}
    [] class = "send_compact" -> {[high_bandwidth_mode |-> 1, version |-> 1]}
    [] class = "reject" ->
         {[message |-> m, code |-> 16, reason |-> <<80, 81>>, data |-> H(9)]
             : m \in {<<98>>, <<112>>}}
    [] class = "version" -> {VersionA(v, b) : v \in {60002, 70014}, b \in BOOLEAN}
    [] class = "create_asset" ->
         {[name |-> [i \in 1..n |-> 65], amount |-> 7] : n \in {1, max_name_size - 1}}
    [] class = "send_tokens" -> {[asset_id |-> 3, amount |-> 7]}

Classes == {"chain_header", "header", "point", "stored_point", "output", "stored_output",
  "input", "stored_input", "transaction", "stored_transaction", "unconfirmed_transaction",
  "block", "network_address", "network_address_time", "address", "alert", "alert_payload",
  "block_transactions", "prefilled_transaction", "compact_block", "fee_filter", "filter_add",
  "filter_clear", "memory_pool", "send_headers", "filter_load", "get_address", "verack",
  "get_block_transactions", "get_blocks", "get_headers", "inventory_vector", "inventory",
  "get_data", "not_found", "headers", "heading", "merkle_block", "ping", "pong",
  "send_compact", "reject", "version"} \cup KeokenMessages

(* Objects with one element or byte more than from_data accepts.           *)
Oversized ==
  [address |-> [addresses |-> [i \in 1..(Limit + 1) |-> AddressA]],
   inventory |-> [inventories |-> [i \in 1..(Limit + 1) |-> VectorA]],
   filter_add |-> [data |-> Zeros(Limit + 1)],
   filter_load |-> [filter |-> <<>>, hash_functions |-> 51, tweak |-> 0, flags |-> 0],
   create_asset |-> [name |-> [i \in 1..max_name_size |-> 65], amount |-> 7]]

InMemory == medium = "memory"
Typed == medium = "text"

(* What to_data leaves of an object in the place it writes to.             *)
Stored(m) ==
  LET bytes == ToData(className, protocol, m)
  IN  CASE medium = "stream" -> bytes
        [] medium = "memory" -> Buffered(serialized_size(className, protocol, m), bytes)
        [] medium = "text" -> write_option(bytes)

(* What from_data is given of the bytes: a keoken message is taken out of  *)
(* the transaction that carries it, and its reader takes the version and   *)
(* the type.                                                               *)
Payload(bytes) ==
  LET Payment == <<Op("dup"), Op("checksig")>>
      data == first_keoken_output(<<Payment, create_keoken_output(bytes)>>)
  IN  IF className \in KeokenMessages THEN SubSeq(data, KeokenBaseSize + 1, Len(data)) ELSE bytes

Handed(bytes) ==
  CASE medium = "stream" -> Source(Payload(bytes))
    [] medium = "memory" -> Memory(Payload(bytes))
    [] medium = "text" -> read_option(bytes)

(* The members that are printed and read.                                  *)
Shown(m) == IF Typed THEN OfOption(className, m) ELSE m

Start(n, v, where) ==
  /\ className = n /\ protocol = v /\ medium = where
  /\ progress = "new"
  /\ sent = Class(n, v).reset /\ received = Class(n, v).reset
  /\ written = <<>> /\ leftover = Source(<<>>) /\ readProtocol = v

Init ==
  \/ \E n \in Classes, v \in Versions, where \in {"stream", "memory"} : Start(n, v, where)
  \/ \E n \in DOMAIN Options, v \in CutVersions : Start(n, v, "text")

Send(m) ==
  /\ progress = "new"
  /\ progress' = "sent"
  /\ sent' = m
  /\ written' = Stored(Shown(m))
  /\ UNCHANGED <<className, medium, protocol, readProtocol, received, leftover>>

Cut(k) ==
  /\ progress = "sent" /\ protocol \in CutVersions
  /\ progress' = "cut"
  /\ written' = SubSeq(written, 1, k)
  /\ UNCHANGED <<className, medium, protocol, sent, readProtocol, received, leftover>>

Receive(level_) ==
  LET read == FromData(className, level_, Handed(written))
  IN  /\ progress \in {"sent", "cut"}
      /\ progress' = "received"
      /\ readProtocol' = level_
      /\ received' = Shown(read.v)
      /\ leftover' = read.r
      /\ UNCHANGED <<className, medium, protocol, sent, written>>

Next ==
  \/ \E m \in Samples(className) \cup (IF Typed THEN {Options[className]} ELSE {}) : Send(m)
  \/ className \in DOMAIN Oversized /\ Send(Oversized[className])
  \/ \E k \in 0..(Len(written) - 1) : Cut(k)
  \/ \E v \in IF className = "version" THEN Versions ELSE {protocol} : Receive(v)

Spec == Init /\ [][Next]_vars

-----------------------------------------------------------------------------
Done == progress = "received"
Accepted == Done /\ ~leftover.fail
Width == IF Typed THEN 2 ELSE 1
IsCut == Len(written) < Width * Len(ToData(className, protocol, Shown(sent)))
IsDefault == Typed /\ sent = Options[className]
IsOversized == className \in DOMAIN Oversized /\ sent = Oversized[className]
TooOld == readProtocol < Class(className, protocol).minimum

(* A version message whose value knows relay, written under a version that *)
(* does not: serialized_size counts relay, and to_data does not write it.  *)
Mismatched == className = "version" /\ protocol < level.bip37 /\ sent.value >= level.bip37

(* What of an object its class carries under the version in use.  In       *)
(* memory, the byte that was counted and not written says no relay.        *)
Carried ==
  CASE className = "ping" /\ protocol < level.bip31 ->
         [sent EXCEPT !.nonce = 0, !.nonceless = TRUE]
    [] className = "reject" /\ ~Hashed(sent) -> [sent EXCEPT !.data = null_hash]
    [] /\ className = "version"
       /\ {protocol, readProtocol, sent.value} \cap 0..(level.bip37 - 1) # {} ->
         [sent EXCEPT !.relay = ~(InMemory /\ Mismatched /\ readProtocol >= level.bip37)]
    [] OTHER -> Shown(sent)

(* "BITCOIN_ASSERT(data.size() == size)" of every to_data: it writes as    *)
(* many bytes as serialized_size announced.                                *)
SizeIsAsserted ==
  progress = "sent" => Len(written) = Width * serialized_size(className, protocol, Shown(sent))

(* The same for all but the version message above.                         *)
SizeIsExact == ~Mismatched => SizeIsAsserted

(* What is written has the size announced and is read back: every member,  *)
(* in whatever order the two functions handle them, with nothing left of   *)
(* the stream.                                                             *)
RoundTrip ==
  /\ SizeIsExact
  /\ Done /\ ~IsCut /\ ~IsOversized /\ ~TooOld =>
       /\ Accepted
       /\ received = Carried
       /\ is_valid(className, received) \/ IsDefault
       /\ className # "version" => leftover.in = <<>>

(* Members that may be missing when from_data accepts: it takes the end of *)
(* the source for the end of an optional member, and the end of a stream   *)
(* for that of a last string.                                              *)
Optional ==
  CASE className = "alert_payload" /\ ~InMemory -> {"reserved"}
    [] className = "reject" /\ Hashed(sent) -> {"data"}
    [] className = "reject" /\ ~InMemory -> {"reason"}
    [] className = "version" -> {"relay"}
    [] OTHER -> {}

LeftReset ==
  /\ received = Class(className, protocol).reset
  /\ ~is_valid(className, received)

(* What is cut short, too large or too new for the version is refused, and *)
(* the object that read it is reset, without any of the members that were  *)
(* read before the failure (but network_address keeps ip, and the messages *)
(* of keoken what they read).  If the end of the source is tolerated,      *)
(* everything but the last member is intact.                               *)
PartialIsRefused ==
  Done /\ (IsCut \/ IsOversized \/ TooOld) =>
    \/ ~Accepted /\ LeftReset
    \/ ~Accepted /\ className \in {"network_address", "network_address_time"} \cup KeokenMessages
    \/ /\ Accepted /\ ~IsOversized /\ ~TooOld
       /\ Optional # {}
       /\ \A f \in DOMAIN sent \ Optional : received[f] = Carried[f]

=============================================================================
