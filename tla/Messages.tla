------------------------------ MODULE Messages ------------------------------
(***************************************************************************)
(* The classes of namespace message, each as module Wire states a class:   *)
(* what its from_data reads, what its to_data writes, what reset() leaves  *)
(* and what is_valid compares.                                             *)
(***************************************************************************)
EXTENDS Wire

(* version::level                                                          *)
level == [canonical |-> 0, minimum |-> 31402, headers |-> 31800, bip31 |-> 60001,
          bip35 |-> 60002, bip37 |-> 70001, bip61 |-> 70002, bip130 |-> 70012,
          bip133 |-> 70013, bip152 |-> 70014]

(* A class whose from_data and to_data handle the same members.            *)
Plain(minimum, fields, any, reset) ==
  [minimum |-> minimum, reads |-> fields, writes |-> fields, any |-> any, all |-> {},
   reset |-> reset]

NetworkAddress(with_timestamp) ==
  Plain(0,
        (IF with_timestamp THEN <<<<"timestamp", U(4)>>>> ELSE <<>>) \o
          <<<<"services", U(8)>>, <<"ip", Raw(16)>>, <<"port", BE(2)>>>>,
        {"timestamp", "services", "ip", "port"},
        [timestamp |-> 0, services |-> 0, ip |-> Null(16), port |-> 0])

Address ==
  Plain(0, <<<<"addresses", List(Obj("network_address_time"))>>>>, {"addresses"},
        [addresses |-> <<>>])

Alert ==
  Plain(0, <<<<"payload", Chunk>>, <<"signature", Chunk>>>>, {"payload", "signature"},
        [payload |-> <<>>, signature |-> <<>>])

AlertPayload ==
  LET Fields == <<<<"version", U(4)>>, <<"relay_until", U(8)>>, <<"expiration", U(8)>>,
                  <<"id", U(4)>>, <<"cancel", U(4)>>, <<"set_cancel", AnyList(U(4))>>,
                  <<"min_version", U(4)>>, <<"max_version", U(4)>>,
                  <<"set_sub_version", AnyList(Str)>>, <<"priority", U(4)>>,
                  <<"comment", Str>>, <<"status_bar", Str>>, <<"reserved", Str>>>>
      Lists == {"set_cancel", "set_sub_version", "comment", "status_bar", "reserved"}
      Members == {Fields[i][1] : i \in 1..Len(Fields)}
  IN  Plain(0, Fields, Members, [f \in Members |-> IF f \in Lists THEN <<>> ELSE 0])

BlockTransactions ==
  Plain(level.bip152,
        <<<<"block_hash", Hash>>, <<"transactions", List(Obj("transaction"))>>>>,
        {"block_hash"}, [block_hash |-> null_hash, transactions |-> <<>>])

PrefilledTransaction ==
  [minimum |-> 0,
   reads |-> <<<<"index", VarInt>>, <<"transaction", Obj("transaction")>>>>,
   writes |-> <<<<"index", VarInt>>, <<"transaction", Obj("transaction")>>>>,
   any |-> {}, all |-> {"index", "transaction"},
   reset |-> [index |-> IF Bch THEN -1 ELSE 65535, transaction |-> Transaction.reset]]

(* A short id is an integer of six bytes, read and written in two parts.   *)
CompactBlock ==
  LET Fields == <<<<"header", Obj("chain_header")>>, <<"nonce", U(8)>>,
                  <<"short_ids", List(U(6))>>,
                  <<"transactions", List(Obj("prefilled_transaction"))>>>>
  IN  [minimum |-> level.bip152, reads |-> Fields, writes |-> Fields,
       any |-> {}, all |-> {"header", "short_ids", "transactions"},
       reset |-> [header |-> ChainHeader.reset, nonce |-> 0, short_ids |-> <<>>,
                  transactions |-> <<>>]]

FeeFilter ==
  [minimum |-> level.bip133,
   reads |-> <<<<"insufficient_version", Set(FALSE)>>, <<"minimum_fee", U(8)>>>>,
   writes |-> <<<<"minimum_fee", U(8)>>>>,
   any |-> {"insufficient_version", "minimum_fee"}, all |-> {},
   reset |-> [insufficient_version |-> TRUE, minimum_fee |-> 0]]

FilterAdd == Plain(level.bip37, <<<<"data", Blob>>>>, {"data"}, [data |-> <<>>])

(* filter_clear, memory_pool and send_headers have no payload: what they   *)
(* remember is that they were received under a version that has them.      *)
Versioned(minimum) ==
  [minimum |-> minimum, reads |-> <<<<"insufficient_version", Set(FALSE)>>>>, writes |-> <<>>,
   any |-> {"insufficient_version"}, all |-> {},
   reset |-> [insufficient_version |-> TRUE]]

FilterClear == Versioned(level.bip37)

MemoryPool == Versioned(level.bip35)

SendHeaders == Versioned(level.bip130)

FilterLoad ==
  LET max_filter_functions == 50
      Fields(functions) == <<<<"filter", Blob>>, <<"hash_functions", functions>>,
                             <<"tweak", U(4)>>, <<"flags", U(1)>>>>
  IN  [minimum |-> level.bip37, reads |-> Fields(AtMost(4, max_filter_functions)),
       writes |-> Fields(U(4)), any |-> {"filter", "hash_functions", "tweak", "flags"},
       all |-> {},
       reset |-> [filter |-> <<>>, hash_functions |-> 0, tweak |-> 0, flags |-> 0]]

(* get_address and verack are always valid and never refuse.               *)
GetAddress == Plain(0, <<>>, {}, [valid |-> TRUE])

Verack == Plain(0, <<>>, {}, [valid |-> TRUE])

(* get_block_transactions does not test its version_minimum.               *)
GetBlockTransactions ==
  Plain(0, <<<<"block_hash", Hash>>, <<"indexes", List(VarInt)>>>>, {"block_hash"},
        [block_hash |-> null_hash, indexes |-> <<>>])

(* The protocol version is written and, when read, discarded.              *)
Locator(version, minimum) ==
  LET Fields == <<<<"", Lit(LittleEndian(4, version))>>, <<"start_hashes", List(Hash)>>,
                  <<"stop_hash", Hash>>>>
  IN  Plain(minimum, Fields, {"start_hashes", "stop_hash"},
            [start_hashes |-> <<>>, stop_hash |-> null_hash])

GetBlocks(version) == Locator(version, 0)

GetHeaders(version) == Locator(version, level.headers)

InventoryVector ==
  Plain(0, <<<<"type", U(4)>>, <<"hash", Hash>>>>, {"type", "hash"},
        [type |-> 0, hash |-> null_hash])

Vectors(minimum) ==
  Plain(minimum, <<<<"inventories", List(Obj("inventory_vector"))>>>>, {"inventories"},
        [inventories |-> <<>>])

Inventory == Vectors(0)

GetData == Vectors(level.minimum)

NotFound == Vectors(level.bip37)

(* The header message trails a zero byte, unless its size is canonical.    *)
Header(version) ==
  LET canonical == version = level.canonical
      Trail(kind) == IF canonical THEN <<>> ELSE <<<<"", kind>>>>
  IN  [ChainHeader EXCEPT !.reads = @ \o Trail(AtMost(1, 0)),
                          !.writes = @ \o Trail(Lit(<<0>>))]

Headers ==
  Plain(level.headers, <<<<"elements", List(Obj("header"))>>>>, {"elements"},
        [elements |-> <<>>])

command_size == 12

Heading ==
  Plain(0, <<<<"magic", U(4)>>, <<"command", FixedStr(command_size)>>,
             <<"payload_size", U(4)>>, <<"checksum", U(4)>>>>,
        {"magic", "command", "payload_size", "checksum"},
        [magic |-> 0, command |-> <<>>, payload_size |-> 0, checksum |-> 0])

MerkleBlock ==
  Plain(level.bip37,
        <<<<"header", Obj("chain_header")>>, <<"total_transactions", U(4)>>,
          <<"hashes", List(Hash)>>, <<"flags", Chunk>>>>,
        {"hashes", "flags", "header"},
        [header |-> ChainHeader.reset, total_transactions |-> 0, hashes |-> <<>>,
         flags |-> <<>>])

Ping(version) ==
  LET nonceless == version < level.bip31
  IN  [minimum |-> 0,
       reads |-> <<<<"valid", Set(TRUE)>>, <<"nonceless", Set(nonceless)>>>> \o
                 (IF nonceless THEN <<>> ELSE <<<<"nonce", U(8)>>>>),
       writes |-> IF version >= level.bip31 THEN <<<<"nonce", U(8)>>>> ELSE <<>>,
       any |-> {"valid", "nonceless", "nonce"}, all |-> {},
       reset |-> [nonce |-> 0, nonceless |-> FALSE, valid |-> FALSE]]

Pong ==
  [minimum |-> 0, reads |-> <<<<"valid", Set(TRUE)>>, <<"nonce", U(8)>>>>,
   writes |-> <<<<"nonce", U(8)>>>>, any |-> {"valid", "nonce"}, all |-> {},
   reset |-> [nonce |-> 0, valid |-> FALSE]]

SendCompact ==
  LET Fields(mode) == <<<<"high_bandwidth_mode", mode>>, <<"version", U(8)>>>>
  IN  [minimum |-> level.bip152, reads |-> Fields(AtMost(1, 1)), writes |-> Fields(U(1)),
       any |-> {"version"}, all |-> {},
       reset |-> [high_bandwidth_mode |-> 0, version |-> 0]]

(* reject carries the hash of the rejected block or transaction, and only  *)
(* of those; from_data takes all that is left for it.                      *)
Hashed(m) == m.message \in {<<98>>, <<116>>}      \* block::command, transaction::command

(* reason_from_byte and reason_to_byte: a code is its byte, 0 undefined.   *)
Reasons == {1, 16, 17, 18, 64, 65, 66, 67}

Reject ==
  [minimum |-> level.bip61,
   reads |-> <<<<"message", Str>>, <<"code", Among(Reasons)>>, <<"reason", Str>>>>,
   writes |-> <<<<"message", Str>>, <<"code", U(1)>>, <<"reason", Str>>>>,
   any |-> {"message", "code", "reason", "data"}, all |-> {},
   reset |-> [message |-> <<>>, code |-> 0, reason |-> <<>>, data |-> null_hash]]

Version ==
  LET Fields == <<<<"value", U(4)>>, <<"services", U(8)>>, <<"timestamp", U(8)>>,
                  <<"address_receiver", Obj("network_address")>>,
                  <<"address_sender", Obj("network_address")>>,
                  <<"nonce", U(8)>>, <<"user_agent", Str>>, <<"start_height", U(4)>>>>
  IN  Plain(0, Fields, {Fields[i][1] : i \in 1..8} \cup {"relay"},
            [value |-> 0, services |-> 0, timestamp |-> 0,
             address_receiver |-> NetworkAddress(FALSE).reset,
             address_sender |-> NetworkAddress(FALSE).reset,
             nonce |-> 0, user_agent |-> <<>>, start_height |-> 0, relay |-> FALSE])

-----------------------------------------------------------------------------
(* keoken's messages.  to_data begins with the version and the type of the *)
(* message; "from_data and to_data are not longer simetrical": from_data   *)
(* is given what follows them, and resets nothing.  The default            *)
(* constructor leaves the integers unset, here 0.                          *)
KeokenMessages == {"create_asset", "send_tokens"}

KeokenBase(version, type) == <<"", Lit(write_big_endian(2, version) \o write_big_endian(2, type))>>

Keoken(type, fields, reset) ==
  [minimum |-> 0, reads |-> fields, writes |-> <<KeokenBase(0, type)>> \o fields,
   any |-> {}, all |-> {}, reset |-> reset]

max_name_size == 32 + 1

CreateAsset ==
  Keoken(0, <<<<"name", Terminated(max_name_size)>>, <<"amount", BE(8)>>>>,
         [name |-> <<>>, amount |-> 0])

SendTokens ==
  Keoken(1, <<<<"asset_id", BE(4)>>, <<"amount", BE(8)>>>>, [asset_id |-> 0, amount |-> 0])

=============================================================================
