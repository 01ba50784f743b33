------------------------------ MODULE Mnemonic ------------------------------
(***************************************************************************)
(* Scripts as text (machine/opcode.cpp, operation::to_string, from_string, *)
(* script::to_string, from_string).  A token is one of                     *)
(*   a word, its stem and number: "push_5" is <<"push_", 5>>, "7" is       *)
(*     <<"", 7>>, "0xba" is <<"0x", 186>>, any other has the number -1;    *)
(*   the data of a push within brackets or quotes, with the prefix that    *)
(*     tells the size of its size.                                         *)
(* What base 16 does to the data is the matter of Text.                    *)
(***************************************************************************)
EXTENDS Operation

word(stem, n) == [form |-> "word", stem |-> stem, n |-> n, prefix |-> "", data |-> <<>>]
push(prefix, data) == [form |-> "push", stem |-> "", n |-> -1, prefix |-> prefix, data |-> data]
quote(data) == [form |-> "quote", stem |-> "", n |-> -1, prefix |-> "", data |-> data]
invalid_token == word("<invalid>", -1)

-----------------------------------------------------------------------------
(* opcode_to_string: the words that are not the name of the enumerator.    *)

Spelled ==
  [reserved_98 |-> "ver", if_ |-> "if", disabled_verif |-> "verif",
   disabled_vernotif |-> "vernotif", else_ |-> "else", return_ |-> "return",
   drop2 |-> "2drop", dup2 |-> "2dup", dup3 |-> "3dup", over2 |-> "2over", rot2 |-> "2rot",
   swap2 |-> "2swap", disabled_cat |-> "cat", disabled_substr |-> "substr",
   disabled_left |-> "left", disabled_right |-> "right", disabled_invert |-> "invert",
   disabled_and |-> "and", disabled_or |-> "or", disabled_xor |-> "xor", add1 |-> "1add",
   sub1 |-> "1sub", disabled_mul2 |-> "2mul", disabled_div2 |-> "2div", not_ |-> "not",
   disabled_mul |-> "mul", disabled_div |-> "div", disabled_mod |-> "mod",
   disabled_lshift |-> "lshift", disabled_rshift |-> "rshift"]

push_to_string(code) ==
  CASE code = 0 -> word("zero", -1)
    [] code \in 1..push_size_75 -> word("push_", code)
    [] code = push_one_size -> word("pushdata1", -1)
    [] code = push_two_size -> word("pushdata2", -1)
    [] code = push_four_size -> word("pushdata4", -1)
    [] code = push_negative_1 -> word("", -1)
    [] code = reserved_80 -> word("reserved", -1)
    [] is_positive(code) -> word("", code - reserved_80)

(* The two words that depend on the rules in force.                        *)
fork_to_string(name, forks) ==
  CASE name = "checklocktimeverify" /\ "bip65" \notin forks -> "nop2"
    [] name = "checksequenceverify" /\ "bip112" \notin forks -> "nop3"
    [] OTHER -> name

opcode_to_hexadecimal(code) == word("0x", code)

opcode_to_string(code, forks) ==
  LET name == Name(code) IN
  CASE name = "push" -> push_to_string(code)
    [] name = "reserved" -> opcode_to_hexadecimal(code)
    [] name \in DOMAIN Spelled -> word(Spelled[name], -1)
    [] OTHER -> word(fork_to_string(name, forks), -1)

-----------------------------------------------------------------------------
(* opcode_from_string: the words that are read for an enumerator, where    *)
(* they are not its name alone.                                            *)

Aliases ==
  [reserved_98 |-> {"reserved_98", "ver"}, if_ |-> {"if"},
   disabled_verif |-> {"disabled_verif", "verif"},
   disabled_vernotif |-> {"disabled_vernotif", "vernotif"}, else_ |-> {"else"},
   return_ |-> {"return"}, drop2 |-> {"drop2", "2drop"}, dup2 |-> {"dup2", "2dup"},
   dup3 |-> {"dup3", "3dup"}, over2 |-> {"over2", "2over"}, rot2 |-> {"rot2", "2rot"},
   swap2 |-> {"swap2", "2swap"}, disabled_cat |-> {"cat"}, disabled_substr |-> {"substr"},
   disabled_left |-> {"left"}, disabled_right |-> {"right"}, disabled_invert |-> {"invert"},
   disabled_and |-> {"and"}, disabled_or |-> {"or"}, disabled_xor |-> {"xor"},
   reserved_137 |-> {"reserved_137", "reserved1"}, reserved_138 |-> {"reserved_138", "reserved2"},
   add1 |-> {"add1", "1add"}, sub1 |-> {"sub1", "1sub"}, disabled_mul2 |-> {"mul2", "2mul"},
   disabled_div2 |-> {"div2", "2div"}, not_ |-> {"not"}, nonzero |-> {"nonzero", "0notequal"},
   disabled_mul |-> {"mul"}, disabled_div |-> {"div"}, disabled_mod |-> {"mod"},
   disabled_lshift |-> {"lshift"}, disabled_rshift |-> {"rshift"},
   checklocktimeverify |-> {"checklocktimeverify", "nop2"},
   checksequenceverify |-> {"checksequenceverify", "nop3"}]

WordsOf(name) == IF name \in DOMAIN Aliases THEN Aliases[name] ELSE {name}

push_from_string(token) ==
  CASE token.stem = "zero" \/ token = word("", 0) -> 0
    [] token.stem = "push_" /\ token.n \in 0..push_size_75 -> token.n
    [] token.stem \in {"push_one", "pushdata1"} -> push_one_size
    [] token.stem \in {"push_two", "pushdata2"} -> push_two_size
    [] token.stem \in {"push_four", "pushdata4"} -> push_four_size
    [] token = word("", -1) -> push_negative_1
    [] token.stem \in {"reserved", "reserved_80"} -> reserved_80
    [] token.stem = "" /\ token.n \in 1..16 -> reserved_80 + token.n
    [] OTHER -> -1

reserved_from_string(token) ==
  IF token.stem = "reserved_" /\ token.n \in 186..255 THEN token.n ELSE -1

opcode_from_hexadecimal(token) == IF token.stem = "0x" THEN token.n ELSE -1

opcode_from_string(token) ==
  LET named == {i \in DOMAIN OpcodeNames : token.n = -1 /\ token.stem \in WordsOf(OpcodeNames[i])} IN
  IF push_from_string(token) >= 0 THEN push_from_string(token)
  ELSE IF named # {} THEN 96 + (CHOOSE i \in named : \A j \in named : i <= j)
  ELSE IF reserved_from_string(token) >= 0 THEN reserved_from_string(token)
  ELSE opcode_from_hexadecimal(token)

-----------------------------------------------------------------------------
(* Operations.                                                             *)

opcode_to_prefix(code, data) ==
  CASE code = opcode_from_size(Len(data)) -> ""
    [] code = push_one_size -> "1."
    [] code = push_two_size -> "2."
    [] code = push_four_size -> "4."
    [] OTHER -> "0."

op_to_string(op, forks) ==
  IF ~op.valid THEN invalid_token
  ELSE IF op.data = <<>> THEN opcode_to_string(op.code, forks)
  ELSE push(opcode_to_prefix(op.code, op.data), op.data)

opcode_from_data_prefix(prefix, data) ==
  LET size == Len(data) IN
  CASE prefix = "0." -> [code |-> opcode_from_size(size), valid |-> size <= push_size_75]
    [] prefix = "1." -> [code |-> push_one_size, valid |-> size < 256]
    [] prefix = "2." -> [code |-> push_two_size, valid |-> size < 65536]
    [] prefix = "4." -> [code |-> push_four_size, valid |-> TRUE]
    [] OTHER -> [code |-> opcode_from_size(size), valid |-> FALSE]

is_valid_data_size(code, size) == code > push_size_75 \/ code = size

OrInvalid(code, data, valid) ==
  IF valid THEN [code |-> code, data |-> data, valid |-> TRUE] ELSE InvalidOp

(* A number that is no opcode is pushed as data.                           *)
op_from_string(token) ==
  LET code == opcode_from_string(token) IN
  CASE token.form = "quote" \/ (token.form = "push" /\ token.prefix = "") ->
         OrInvalid(opcode_from_size(Len(token.data)), token.data, TRUE)
    [] token.form = "push" /\ token.prefix # "" ->
         LET read == opcode_from_data_prefix(token.prefix, token.data)
         IN  OrInvalid(read.code, token.data, read.valid)
    [] token.form = "word" /\ code >= 0 -> OrInvalid(code, <<>>, is_valid_data_size(code, 0))
    [] token.form = "word" /\ code < 0 /\ token.stem = "" ->
         OrInvalid(opcode_from_size(Len(DataOf(token.n))), DataOf(token.n), TRUE)
    [] OTHER -> InvalidOp

-----------------------------------------------------------------------------
(* Scripts: one token for each operation.                                  *)

script_to_string(ops, forks) == [i \in DOMAIN ops |-> op_to_string(ops[i], forks)]

script_from_string(tokens) ==
  LET ops == [i \in DOMAIN tokens |-> op_from_string(tokens[i])]
  IN  IF \E i \in DOMAIN ops : ~ops[i].valid THEN <<InvalidOp>> ELSE ops

-----------------------------------------------------------------------------
(* config::script, the option type: a set with what is read, empty when    *)
(* the text is refused by an exception.                                    *)

config_script == <<>>

read_script(tokens) ==
  LET ops == script_from_string(tokens)
  IN  IF ops = <<InvalidOp>> /\ tokens # <<>> THEN {} ELSE {ops}

write_script(ops) == script_to_string(ops, {"bip65", "bip112"})      \* of all_rules

=============================================================================
