------------------------------ MODULE Classes -------------------------------
(***************************************************************************)
(* The value classes of chain, message, machine, wallet, config and        *)
(* keoken: the members that make a value, what the setters, assignment and *)
(* comparison do with them, and the values computed from members that an   *)
(* object keeps (its caches).                                              *)
(*                                                                         *)
(*   setters   the members each setter gives a value                       *)
(*   copied, assigned, compared   the members that the copying and moving  *)
(*             constructors, operator= and operator== take into account    *)
(*   basis     the members each cached value is computed from              *)
(*   set, move the caches a setter drops, by const reference and by move   *)
(*   reset, from_data, assign, rebase   the caches that these drop; rebase *)
(*             is operator= from an object of the base class               *)
(*   inherited the caches that a copy takes over from its source           *)
(*   unset     members that a constructor leaves without a value           *)
(*   undefined members that the default constructor leaves without one     *)
(*   unread    members that reset() and from_data() may leave as they were *)
(*   exposed   members that an accessor returns by reference, where that   *)
(*             differs from a setter                                       *)
(***************************************************************************)

None == [m \in {} |-> {}]

Value(members, copies) ==
  [members |-> members, setters |-> [m \in members |-> {m}],
   copied |-> copies, assigned |-> members, compared |-> members,
   basis |-> None, set |-> [m \in members |-> {}], move |-> [m \in members |-> {}],
   reset |-> {}, from_data |-> {}, assign |-> {}, rebase |-> {},
   inherited |-> {}, unset |-> {}, undefined |-> {}, unread |-> {}, exposed |-> {}]

(* A class without setters and without operator=.                          *)
Constant(members, copies) ==
  [Value(members, copies) EXCEPT !.setters = None, !.set = None, !.move = None, !.assigned = {}]

(* A class with operator= and without setters.                             *)
Setterless(members) ==
  [Value(members, members) EXCEPT !.setters = None, !.set = None, !.move = None]

(* An option of config: it is copied, and assigned as the compiler does.   *)
Option(members, compared) == [Setterless(members) EXCEPT !.compared = compared]

-----------------------------------------------------------------------------
(* message: the members.                                                   *)
address_members == {"addresses"}
alert_members == {"payload", "signature"}
alert_payload_members ==
  {"version", "relay_until", "expiration", "id", "cancel", "set_cancel", "min_version",
   "max_version", "set_sub_version", "priority", "comment", "status_bar", "reserved"}
block_transactions_members == {"block_hash", "transactions"}
compact_block_members == {"header", "nonce", "short_ids", "transactions"}
fee_filter_members == {"minimum_fee", "insufficient_version"}
filter_add_members == {"data"}
filter_load_members == {"filter", "hash_functions", "tweak", "flags"}
get_block_transactions_members == {"block_hash", "indexes"}
get_blocks_members == {"start_hashes", "stop_hash"}
headers_members == {"elements"}
heading_members == {"magic", "command", "payload_size", "checksum"}
inventory_members == {"inventories"}
inventory_vector_members == {"type", "hash"}
merkle_block_members == {"header", "total_transactions", "hashes", "flags"}
network_address_members == {"timestamp", "services", "ip", "port"}
ping_members == {"nonce", "nonceless", "valid"}
pong_members == {"nonce", "valid"}
prefilled_transaction_members == {"index", "transaction"}
reject_members == {"code", "message", "reason", "data"}
send_compact_members == {"high_bandwidth_mode", "version"}
version_members ==
  {"value", "services", "timestamp", "address_receiver", "address_sender", "nonce",
   "user_agent", "start_height", "relay"}

get_headers_members == get_blocks_members
get_data_members == inventory_members
not_found_members == inventory_members
filter_clear_members == {"insufficient_version"}
memory_pool_members == {"insufficient_version"}
send_headers_members == {"insufficient_version"}

(* message: what the constructors take over.  The factories read into a    *)
(* default object.                                                         *)
address_copies == address_members
alert_copies == alert_members
alert_payload_copies == alert_payload_members
block_transactions_copies == block_transactions_members
compact_block_copies == compact_block_members
fee_filter_copies == fee_filter_members
filter_add_copies == filter_add_members
filter_load_copies == filter_load_members
get_block_transactions_copies == get_block_transactions_members
get_blocks_copies == get_blocks_members
headers_copies == headers_members
heading_copies == heading_members
inventory_copies == inventory_members
inventory_vector_copies == inventory_vector_members
merkle_block_copies == merkle_block_members
network_address_copies == network_address_members
ping_copies == ping_members
pong_copies == pong_members
prefilled_transaction_copies == prefilled_transaction_members
reject_copies == reject_members
send_compact_copies == send_compact_members
version_copies == version_members
get_headers_copies == get_headers_members
get_data_copies == get_data_members
not_found_copies == not_found_members
filter_clear_copies == filter_clear_members
memory_pool_copies == memory_pool_members
send_headers_copies == send_headers_members

(* message: setters and operators.                                         *)
address == Value(address_members, address_copies)
alert == Value(alert_members, alert_copies)
alert_payload_setters == [m \in alert_payload_members |-> {m}]
alert_payload ==
  [Value(alert_payload_members, alert_payload_copies) EXCEPT !.setters = alert_payload_setters]
block_transactions == Value(block_transactions_members, block_transactions_copies)
filter_add == Value(filter_add_members, filter_add_copies)
filter_load == Value(filter_load_members, filter_load_copies)
get_block_transactions == Value(get_block_transactions_members, get_block_transactions_copies)
get_blocks == Value(get_blocks_members, get_blocks_copies)
get_headers == Value(get_headers_members, get_headers_copies)
headers == Value(headers_members, headers_copies)
heading == Value(heading_members, heading_copies)
inventory == Value(inventory_members, inventory_copies)
get_data == Value(get_data_members, get_data_copies)
not_found == Value(not_found_members, not_found_copies)
inventory_vector == Value(inventory_vector_members, inventory_vector_copies)
prefilled_transaction == Value(prefilled_transaction_members, prefilled_transaction_copies)
reject == Value(reject_members, reject_copies)
send_compact == Value(send_compact_members, send_compact_copies)
version == Value(version_members, version_copies)
filter_clear == Constant(filter_clear_members, filter_clear_copies)
memory_pool == Constant(memory_pool_members, memory_pool_copies)
send_headers == Constant(send_headers_members, send_headers_copies)

(* The time when an address was seen is not part of its identity.          *)
network_address ==
  [Value(network_address_members, network_address_copies) EXCEPT !.compared = @ \ {"timestamp"}]

(* A fee that is set comes from a sufficient version.                      *)
fee_filter ==
  [Value(fee_filter_members, fee_filter_copies) EXCEPT !.compared = {"minimum_fee"},
     !.setters = [minimum_fee |-> fee_filter_members],
     !.set = [minimum_fee |-> {}], !.move = [minimum_fee |-> {}]]

(* Assignment and comparison know the nonce only.                          *)
ping ==
  [Value(ping_members, ping_copies) EXCEPT !.compared = {"nonce"}, !.assigned = {"nonce"},
     !.setters = [nonce |-> {"nonce"}]]
pong ==
  [Value(pong_members, pong_copies) EXCEPT !.compared = {"nonce"}, !.assigned = {"nonce"},
     !.setters = [nonce |-> {"nonce"}]]

(* The header keeps its hash, whatever is done to the message.             *)
compact_block ==
  [Value(compact_block_members, compact_block_copies) EXCEPT
     !.basis = [hash |-> {"header"}], !.exposed = {"header"}]

(* Assignment and comparison leave out total_transactions.                 *)
merkle_block ==
  [Value(merkle_block_members, merkle_block_copies) EXCEPT
     !.basis = [hash |-> {"header"}], !.exposed = {"header"},
     !.assigned = @ \ {"total_transactions"}, !.compared = @ \ {"total_transactions"}]

-----------------------------------------------------------------------------
(* chain.                                                                  *)
point_members == {"hash", "index", "valid"}
output_point_members == point_members \cup {"validation"}
witness_members == {"stack", "valid"}
script_members == {"bytes", "valid"}
input_members == {"previous_output", "script", "witness", "sequence"}
output_members == {"value", "script"}
header_members == {"version", "previous_block_hash", "merkle", "timestamp", "bits", "nonce"}
transaction_members ==
  {"version", "locktime", "inpoints", "prevouts", "sequences", "witnesses", "outputs", "pool"}
block_members == {"header", "transactions", "witnesses"}

(* chain: what the constructors take over.  Copies of a transaction lose   *)
(* what the pool has noted in it.  The factories read into a default       *)
(* object.                                                                 *)
point_copies == point_members
output_point_copies == output_point_members
witness_copies == witness_members
script_copies == script_members
input_copies == input_members
output_copies == output_members
header_copies == header_members
transaction_copies == transaction_members \ {"pool"}
block_copies == block_members

point_setters == [hash |-> {"hash", "valid"}, index |-> {"index", "valid"}]

point ==
  [Value(point_members, point_copies) EXCEPT !.setters = point_setters,
     !.assigned = {"hash", "index"}, !.compared = {"hash", "index"}]

(* A point with a value: operator= swaps the points, by the operator= of   *)
(* point, and so leaves valid as it was.                                   *)
point_value_members == point_members \cup {"value"}
point_value ==
  [Value(point_value_members, point_value_members) EXCEPT
     !.setters = [hash |-> {"hash", "valid"}, index |-> {"index", "valid"}, value |-> {"value"}],
     !.assigned = @ \ {"valid"}, !.compared = @ \ {"valid"}]

output_point ==
  [Value(output_point_members, output_point_copies) EXCEPT !.setters = point_setters,
     !.assigned = {"hash", "index", "validation"}, !.compared = {"hash", "index"},
     !.unread = {"validation"}, !.exposed = {"hash", "validation"}]

witness ==
  [Value(witness_members, witness_copies) EXCEPT !.compared = {"stack"}, !.unset = {"valid"},
     !.setters = None]

(* The parsed operations are kept; what changes the bytes drops them.      *)
script ==
  [Value(script_members, script_copies) EXCEPT !.compared = {"bytes"},
     !.basis = [operations |-> {"bytes"}],
     !.setters = [find_and_delete |-> {"bytes"}],
     !.set = [find_and_delete |-> {"operations"}], !.move = [find_and_delete |-> {"operations"}],
     !.reset = {"operations"}, !.from_data = {"operations"}, !.assign = {"operations"}]

(* The addresses are dropped by the setters of what they might be computed *)
(* from and copied along, but kept over reset.                             *)
input_drops == [m \in input_members |-> IF m \in {"script", "witness"} THEN {"addresses"} ELSE {}]
input ==
  [Value(input_members, input_copies) EXCEPT !.basis = [addresses |-> {"script"}],
     !.set = input_drops, !.move = input_drops, !.inherited = {"addresses"},
     !.exposed = {"previous_output", "script", "witness"}]

output_drops == [value |-> {}, script |-> {"addresses"}]
output ==
  [Value(output_members, output_copies) EXCEPT !.basis = [addresses |-> {"script"}],
     !.set = output_drops, !.move = output_drops, !.inherited = {"addresses"},
     !.exposed = {"script"}]

(* Every setter and reset drop the hash; from_data and operator= do not.   *)
(* message::header = chain::header does not reset.                         *)
header_rebase == {}

header ==
  [Value(header_members, header_copies) EXCEPT !.basis = [hash |-> header_members],
     !.set = [m \in header_members |-> {"hash"}], !.move = [m \in header_members |-> {"hash"}],
     !.reset = {"hash"}, !.rebase = header_rebase,
     !.exposed = {"previous_block_hash", "merkle"}]

transaction_basis ==
  [hash |-> {"version", "locktime", "inpoints", "sequences", "outputs"},
   witness_hash |-> {"version", "locktime", "inpoints", "sequences", "outputs", "witnesses"},
   outputs_hash |-> {"outputs"}, inpoints_hash |-> {"inpoints"},
   sequences_hash |-> {"sequences"}, segregated |-> {"witnesses"},
   total_input_value |-> {"prevouts"}, total_output_value |-> {"outputs"}]

(* Fault: invalidate_cache forgets the hash with witnesses.                *)
invalidate_hash_only == {"hash"}

(* invalidate_cache().                                                     *)
invalidate_cache == {"hash", "witness_hash"}

transaction_setters ==
  [version |-> {"version"}, locktime |-> {"locktime"},
   inputs |-> {"inpoints", "prevouts", "sequences", "witnesses"}, outputs |-> {"outputs"}]

(* The moving setters keep the hashes of the parts.                        *)
transaction_moves ==
  [version |-> invalidate_cache, locktime |-> invalidate_cache,
   inputs |-> invalidate_cache \cup {"segregated", "total_input_value"},
   outputs |-> invalidate_cache \cup {"total_output_value"}]

transaction_sets ==
  [transaction_moves EXCEPT !.inputs = @ \cup {"inpoints_hash", "sequences_hash"},
                            !.outputs = @ \cup {"outputs_hash"}]

(* reset() drops everything, and from_data() begins with it.               *)
transaction_reset ==
  invalidate_cache \cup {"outputs_hash", "inpoints_hash", "sequences_hash", "segregated",
                         "total_input_value", "total_output_value"}

(* message::transaction = chain::transaction resets first.                 *)
transaction_rebase == transaction_reset

transaction ==
  [Value(transaction_members, transaction_copies) EXCEPT !.basis = transaction_basis,
     !.setters = transaction_setters, !.set = transaction_sets, !.move = transaction_moves,
     !.assigned = @ \ {"pool"}, !.compared = @ \ {"prevouts", "pool"},
     !.reset = transaction_reset, !.from_data = transaction_reset, !.rebase = transaction_rebase,
     !.unread = {"pool"}, !.exposed = transaction_setters.inputs \cup {"outputs"}]

block_sets ==
  [header |-> {}, transactions |-> {"segregated", "total_inputs", "base_size", "total_size"}]

(* Of what a block keeps, reset() reaches the hash in the header only.     *)
block_reset == {"hash"}

(* message::block = chain::block resets first.                             *)
block_rebase == block_reset

block ==
  [Value(block_members, block_copies) EXCEPT
     !.basis = [hash |-> {"header"}, segregated |-> {"witnesses"},
                total_inputs |-> {"transactions"}, base_size |-> {"transactions"},
                total_size |-> {"transactions", "witnesses"}],
     !.setters = [header |-> {"header"}, transactions |-> {"transactions", "witnesses"}],
     !.set = block_sets, !.move = block_sets,
     !.reset = block_reset, !.from_data = block_reset, !.rebase = block_rebase,
     !.exposed = block_members]

-----------------------------------------------------------------------------
(* keoken: copied and assigned as the compiler does it.  An asset has no   *)
(* setters, and is what its id is.                                         *)
create_asset_members == {"name", "amount"}
send_tokens_members == {"asset_id", "amount"}
asset_members == {"id", "name", "amount", "owner"}

create_asset_setters == [name |-> {"name"}, amount |-> {"amount"}]
send_tokens_setters == [asset_id |-> {"asset_id"}, amount |-> {"amount"}]

create_asset ==
  [Value(create_asset_members, create_asset_members) EXCEPT
     !.setters = create_asset_setters, !.undefined = {"amount"}]
send_tokens ==
  [Value(send_tokens_members, send_tokens_members) EXCEPT
     !.setters = send_tokens_setters, !.undefined = send_tokens_members]
asset ==
  [Value(asset_members, asset_members) EXCEPT !.undefined = {"id", "amount"},
     !.compared = {"id"}, !.setters = None, !.set = None, !.move = None]

-----------------------------------------------------------------------------
(* machine and wallet: no setters but those of bitcoin_uri, which Uri      *)
(* models.  operator>> of the wallet classes reads a text, and leaves a    *)
(* default object when it cannot.  ec_public is left out: its version is   *)
(* never given a value, though operator== reads it.                        *)
operation == [Setterless({"code", "data", "valid"}) EXCEPT !.compared = {"code", "data"}]
ec_private == Setterless({"valid", "compress", "version", "secret"})
ek_private == Setterless({"valid", "private"})
ek_public == Setterless({"valid", "public"})
ek_token == Setterless({"valid", "token"})
hd_public_members == {"valid", "chain", "lineage", "point"}
hd_public == Setterless(hd_public_members)
hd_private == Setterless(hd_public_members \cup {"secret"})
payment_address == Setterless({"valid", "version", "hash"})
stealth_address ==
  Setterless({"valid", "version", "scan_key", "spend_keys", "signatures", "filter"})
bitcoin_uri == Setterless({"strict", "scheme", "address", "query"})

(* config: the texts that they read are those of Config.                   *)
config_base2 == Option({"value"}, {})
config_base16 == Option({"value"}, {})
config_base58 == Option({"value"}, {})
config_base64 == Option({"value"}, {})
config_hash160 == Option({"value"}, {})
config_hash256 == Option({"value"}, {"value"})
config_sodium == Option({"value"}, {})
config_script == Option({"value"}, {})
config_checkpoint == Option({"hash", "height"}, {"hash", "height"})
config_authority == Option({"ip", "port"}, {"ip", "port"})
config_endpoint == Option({"scheme", "host", "port"}, {"scheme", "host", "port"})

-----------------------------------------------------------------------------
Class ==
  [address |-> address, alert |-> alert, alert_payload |-> alert_payload,
   block_transactions |-> block_transactions, compact_block |-> compact_block,
   fee_filter |-> fee_filter, filter_add |-> filter_add, filter_clear |-> filter_clear,
   filter_load |-> filter_load, get_block_transactions |-> get_block_transactions,
   get_blocks |-> get_blocks, get_data |-> get_data, get_headers |-> get_headers,
   headers |-> headers, heading |-> heading, inventory |-> inventory,
   inventory_vector |-> inventory_vector, memory_pool |-> memory_pool,
   merkle_block |-> merkle_block, network_address |-> network_address,
   not_found |-> not_found, ping |-> ping, pong |-> pong,
   prefilled_transaction |-> prefilled_transaction, reject |-> reject,
   send_compact |-> send_compact, send_headers |-> send_headers, version |-> version,
   point |-> point, output_point |-> output_point, witness |-> witness, script |-> script,
   input |-> input, output |-> output, header |-> header, transaction |-> transaction,
   block |-> block, create_asset |-> create_asset, send_tokens |-> send_tokens,
   asset |-> asset, point_value |-> point_value, operation |-> operation,
   ec_private |-> ec_private, ek_private |-> ek_private, ek_public |-> ek_public,
   ek_token |-> ek_token, hd_public |-> hd_public, hd_private |-> hd_private,
   payment_address |-> payment_address, stealth_address |-> stealth_address,
   bitcoin_uri |-> bitcoin_uri, config_base2 |-> config_base2,
   config_base16 |-> config_base16, config_base58 |-> config_base58,
   config_base64 |-> config_base64, config_hash160 |-> config_hash160,
   config_hash256 |-> config_hash256, config_sodium |-> config_sodium,
   config_script |-> config_script, config_checkpoint |-> config_checkpoint,
   config_authority |-> config_authority, config_endpoint |-> config_endpoint]

Wallets ==
  {"ec_private", "ek_private", "ek_public", "ek_token", "hd_public", "hd_private",
   "payment_address", "stealth_address", "bitcoin_uri"}
Options ==
  {"config_base2", "config_base16", "config_base58", "config_base64", "config_hash160",
   "config_hash256", "config_sodium", "config_script", "config_checkpoint",
   "config_authority", "config_endpoint"}

(* Classes that are not read from data, and whose from_data resets nothing *)
(* when it fails.                                                          *)
Unserialized == {"asset", "point_value"} \cup Options
Unreset == {"create_asset", "send_tokens"}

(* Classes that are assigned by copy too, not only by move.                *)
CopyAssigned ==
  {"inventory_vector", "network_address", "prefilled_transaction", "point", "output_point",
   "witness", "script", "input", "output", "header", "transaction", "create_asset",
   "send_tokens", "asset", "point_value", "operation"} \cup Wallets \cup Options

(* Classes that are never moved from: an rvalue is copied.                 *)
Unmoved == (Wallets \ {"payment_address"}) \cup Options

(* Classes with an operator= from the base class: the messages that derive *)
(* from a chain class, and output_point.                                   *)
Rebased == {"header", "transaction", "block", "output_point"}

=============================================================================
