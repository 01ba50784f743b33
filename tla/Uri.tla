-------------------------------- MODULE Uri ---------------------------------
(***************************************************************************)
(* wallet::uri, a URI in its parts, each kept as it is written; and        *)
(* wallet::bitcoin_uri, a request for a payment.  uri is an object whose   *)
(* parts are set and removed, meant what they were set to (Absent where    *)
(* a part is not there); request and wanted are the same for a payment.    *)
(* Texts are those of Text.                                                *)
(***************************************************************************)
EXTENDS Text

CONSTANTS
    Parts,                  \* what an authority, a query or a fragment is set to
    Paths,
    Addresses,              \* the texts that are a payment or a stealth address
    Labels,
    Amounts,
    Places,                 \* btc_decimal_places
    MaxAmount,
    Tails                   \* what follows the scheme of a typed bitcoin uri

VARIABLES uri, meant, request, wanted

uriVars == <<uri, meant, request, wanted>>

Slash == 47
Colon == 58
Question == 63
Hash == 35
Ampersand == 38
Equals == 61
Percent == 37

-----------------------------------------------------------------------------
(***************************************************************************)
(* Characters, and their escapes.                                          *)
(***************************************************************************)
Alpha == (65..90) \cup (97..122)

is_alpha(char) == char \in Alpha

is_scheme(char) == is_alpha(char) \/ is_digit(char) \/ char \in {43, 45, 46}

\* The characters that each predicate accepts, as the set it is given to the loops by.

is_path_char ==
    Alpha \cup (48..57)
      \cup {33, 36, 38, 39, 40, 41, 42, 43, 44, 45, 46, 58, 59, 61, 64, 95, 126}

is_path == is_path_char \cup {Slash}

is_query == is_path_char \cup {Slash, Question}

is_query_char == is_query \ {Ampersand, Equals}

\* An escape begins at the place: a percent sign and two digits of base 16.
IsEscape(text, i) ==
    text[i] = Percent /\ i + 2 <= Len(text) /\ is_base16(text[i + 1]) /\ is_base16(text[i + 2])

\* The loops over the characters skip the digits of an escape, which are no
\* percent sign.
Stop(text, i) == ~\E j \in {i - 2, i - 1} \ {-1, 0} : IsEscape(text, j)

validate(text, valid) ==
    \A i \in DOMAIN text :
        Stop(text, i) => IF text[i] = Percent THEN IsEscape(text, i) ELSE text[i] \in valid

Unescaped(text, i) ==
    IF IsEscape(text, i) THEN from_hex(text[i + 1]) * 16 + from_hex(text[i + 2]) ELSE text[i]

unescape(text) ==
    FlattenSeq([i \in DOMAIN text |-> IF Stop(text, i) THEN <<Unescaped(text, i)>> ELSE <<>>])

UpperHex(digit) == (Digits \o SubSeq(Uppers, 1, 6))[digit + 1]

\* setw(2) pads but does not cut: a char of 128 or more, which is signed, is
\* promoted to a negative int and has eight digits.
EscapeOf(char) ==
    <<Percent>> \o [i \in 1..(IF char >= 128 THEN 6 ELSE 0) |-> UpperHex(15)]
      \o <<UpperHex(char \div 16), UpperHex(char % 16)>>

escape(text, valid) ==
    FlattenSeq([i \in DOMAIN text |-> IF text[i] \in valid THEN <<text[i]>> ELSE EscapeOf(text[i])])

-----------------------------------------------------------------------------
(***************************************************************************)
(* The parts of a uri.                                                     *)
(***************************************************************************)
NoUri ==
    [scheme |-> <<>>, authority |-> <<>>, path |-> <<>>, query |-> <<>>, fragment |-> <<>>,
     has_authority |-> FALSE, has_query |-> FALSE, has_fragment |-> FALSE]

\* The first place at or after i of one of the characters, or the end.
Find(text, i, chars) ==
    LET found == {j \in i..Len(text) : text[j] \in chars} IN IF found = {} THEN Len(text) + 1 ELSE Min(found)

Part(text, first, end) == SubSeq(text, first, end - 1)

Is(text, i, char) == i <= Len(text) /\ text[i] = char

Accept(parts, strict) ==
    /\ parts.scheme # <<>> /\ is_alpha(parts.scheme[1])
    /\ \A i \in DOMAIN parts.scheme : is_scheme(parts.scheme[i])
    /\ strict => /\ validate(parts.authority, is_path_char) /\ validate(parts.path, is_path)
                 /\ validate(parts.query, is_query) /\ validate(parts.fragment, is_query)

\* The parts end at these places, past the text where there is no such part.
PartsAt(text, colon, first, path, question, hash) ==
    [scheme |-> Part(text, 1, colon), authority |-> Part(text, first, path),
     path |-> Part(text, path, question), query |-> Part(text, question + 1, hash),
     fragment |-> Part(text, hash + 1, Len(text) + 1),
     has_authority |-> first = colon + 3, has_query |-> Is(text, question, Question),
     has_fragment |-> hash <= Len(text)]

FromQuery(text, colon, first, path, question) ==
    PartsAt(text, colon, first, path, question, Find(text, question, {Hash}))

FromPath(text, colon, first, path) ==
    FromQuery(text, colon, first, path, Find(text, path, {Hash, Question}))

FromColon(text, colon) ==
    IF Is(text, colon + 1, Slash) /\ Is(text, colon + 2, Slash)
    THEN FromPath(text, colon, colon + 3, Find(text, colon + 3, {Hash, Question, Slash}))
    ELSE FromPath(text, colon, colon + 1, colon + 1)

\* The parts of a text, and whether it is accepted.
decode(text) == FromColon(text, Find(text, 1, {Colon}))

is_uri(text, strict) == Colon \in ToSet(text) /\ Accept(decode(text), strict)

If(condition, text) == IF condition THEN text ELSE <<>>

encoded(u) ==
    u.scheme \o <<Colon>>
      \o If(u.has_authority, <<Slash, Slash>> \o u.authority)
      \o u.path
      \o If(u.has_query, <<Question>> \o u.query)
      \o If(u.has_fragment, <<Hash>> \o u.fragment)

scheme_of(u) == [i \in DOMAIN u.scheme |-> lower_case(u.scheme[i])]

\* Fault: a part may hold the character that ends it.
SetAuthorityAsPath(u, text) == [u EXCEPT !.has_authority = TRUE, !.authority = escape(text, is_path)]

set_authority(u, text) ==
    [u EXCEPT !.has_authority = TRUE, !.authority = escape(text, is_path_char)]

set_path(u, text) == [u EXCEPT !.path = escape(text, is_path)]

set_query(u, text) == [u EXCEPT !.has_query = TRUE, !.query = escape(text, is_query)]

set_fragment(u, text) == [u EXCEPT !.has_fragment = TRUE, !.fragment = escape(text, is_query)]

remove_authority(u) == [u EXCEPT !.has_authority = FALSE]

remove_query(u) == [u EXCEPT !.has_query = FALSE]

remove_fragment(u) == [u EXCEPT !.has_fragment = FALSE]

\* The terms of a query, which end at an ampersand or with the query, as
\* <<end, key, value>>; of the same key the last counts.
KeyValue(end, term, equal) ==
    <<end, unescape(Part(term, 1, equal)), unescape(Part(term, equal + 1, Len(term) + 1))>>

TermFrom(query, begin, end) ==
    KeyValue(end, Part(query, begin, end), Find(Part(query, begin, end), 1, {Equals}))

Ends(query) == {i \in DOMAIN query : query[i] = Ampersand \/ i = Len(query)}

TermTo(query, i) ==
    TermFrom(query, Max({0} \cup {e \in Ends(query) : e < i}) + 1,
             IF query[i] = Ampersand THEN i ELSE i + 1)

LastOf(terms, key) ==
    (CHOOSE t \in terms : t[2] = key /\ \A o \in terms : o[2] = key => o[1] <= t[1])[3]

MapOf(terms) == [key \in {t[2] : t \in terms} |-> LastOf(terms, key)]

decode_query(u) == MapOf({TermTo(u.query, i) : i \in Ends(u.query)})

\* The order of a std::map of texts.
Before(left, right) ==
    \/ IsStrictPrefix(left, right)
    \/ \E i \in DOMAIN left \cap DOMAIN right :
         left[i] < right[i] /\ \A j \in 1..(i - 1) : left[j] = right[j]

encode_query(u, map) ==
    LET keys == SetToSortSeq(DOMAIN map, Before)
        Term(key) == escape(key, is_query_char)
                       \o If(map[key] # <<>>, <<Equals>> \o escape(map[key], is_query_char))
    IN  [u EXCEPT !.has_query = keys # <<>>,
                  !.query = FlattenSeq([i \in DOMAIN keys |->
                                If(i > 1, <<Ampersand>>) \o Term(keys[i])])]

-----------------------------------------------------------------------------
(***************************************************************************)
(* A request for a payment.                                                *)
(***************************************************************************)
bitcoin == <<98, 105, 116, 99, 111, 105, 110>>
amount == <<97, 109, 111, 117, 110, 116>>
label == <<108, 97, 98, 101, 108>>
message == <<109, 101, 115, 115, 97, 103, 101>>
r == <<114>>
req == <<114, 101, 113, 45>>

Nothing == [t \in {} |-> <<>>]
NoRequest == [strict |-> TRUE, scheme |-> <<>>, address |-> <<>>, query |-> Nothing]

is_set(b) == b.address # <<>> \/ b.query # Nothing \/ b.scheme # <<>>

Put(b, key, text) == [b EXCEPT !.query = (key :> text) @@ b.query]

set_amount(b, satoshis) == Put(b, amount, encode_base10(satoshis, Places))

encoded_request(b) ==
    encoded(encode_query(set_path([NoUri EXCEPT !.scheme = bitcoin], b.address), b.query))

\* The request after one parameter, <<>> where it is refused.
set_parameter(b, key, value) ==
    IF key = amount
    THEN LET satoshis == decode_base10(value, Places, b.strict, MaxAmount)
         IN  IF satoshis = RefusedAmount THEN <<>> ELSE <<set_amount(b, satoshis)>>
    ELSE IF key \in {label, message, r} THEN <<Put(b, key, value)>>
    ELSE IF IsPrefix(req, key) THEN <<>>
    ELSE <<b>>

\* set_address: what is no address is refused, and so is a second one.
set_request_path(b, text) ==
    IF b.address = <<>> /\ text \in Addresses THEN <<[b EXCEPT !.address = text]>> ELSE <<>>

Then(result, step(_)) == IF result = <<>> THEN <<>> ELSE step(result[1])

\* uri_reader::parse, part by part.
ReadScheme(u, strict) ==
    [NoRequest EXCEPT !.strict = strict, !.scheme = If(scheme_of(u) = bitcoin, bitcoin)]

ReadAuthority(b, u) ==
    IF ~u.has_authority THEN <<b>>
    ELSE IF b.strict THEN <<>> ELSE set_request_path(b, unescape(u.authority))

ReadPath(b, text) == IF text = <<>> THEN <<b>> ELSE set_request_path(b, text)

ReadQuery(b, query) ==
    FoldLeft(LAMBDA result, key : Then(result, LAMBDA c : set_parameter(c, key, query[key])),
             <<b>>, SetToSortSeq(DOMAIN query \ {<<>>}, Before))

ReadParts(u, strict) ==
    Then(Then(Then(ReadAuthority(ReadScheme(u, strict), u),
                   LAMBDA b : ReadPath(b, unescape(u.path))),
              LAMBDA b : IF u.has_fragment THEN <<>> ELSE <<b>>),
         LAMBDA b : ReadQuery(b, decode_query(u)))

parse(text, strict) ==
    IF ~is_uri(text, strict) THEN NoRequest
    ELSE LET read == ReadParts(decode(text), strict) IN IF read = <<>> THEN NoRequest ELSE read[1]

-----------------------------------------------------------------------------
Absent == <<-1>>
NoneMeant == [authority |-> Absent, path |-> <<>>, query |-> Absent, fragment |-> Absent]

Fresh == [NoUri EXCEPT !.scheme = <<97, 43>>]

UriInit ==
    /\ uri = Fresh /\ meant = NoneMeant
    /\ request = NoRequest /\ wanted = NoRequest

Set(object, part, text) ==
    uri' = object /\ meant' = [meant EXCEPT ![part] = text] /\ UNCHANGED <<request, wanted>>

SetPart(text) ==
    \/ Set(set_authority(uri, text), "authority", text)
    \/ Set(set_query(uri, text), "query", text)
    \/ Set(set_fragment(uri, text), "fragment", text)

SetPath(text) == Set(set_path(uri, text), "path", text)

RemovePart ==
    \/ Set(remove_authority(uri), "authority", Absent)
    \/ Set(remove_query(uri), "query", Absent)
    \/ Set(remove_fragment(uri), "fragment", Absent)

Want(object, goal) == request' = object /\ wanted' = goal /\ UNCHANGED <<uri, meant>>

SetAddress(text) == Want([request EXCEPT !.address = text], [wanted EXCEPT !.address = text])

SetLabel(key, text) == Want(Put(request, key, text), Put(wanted, key, text))

SetAmount(satoshis) ==
    Want(set_amount(request, satoshis), Put(wanted, amount, encode_base10(satoshis, Places)))

\* A request is read, and is then all that is wanted.
Read(text, strict) == request' = parse(text, strict) /\ wanted' = request' /\ UNCHANGED <<uri, meant>>

ChangeUri ==
    \/ RemovePart
    \/ \E text \in Parts : SetPart(text)
    \/ \E text \in Paths : SetPath(text)

ChangeRequest ==
    \/ \E text \in Addresses : SetAddress(text)
    \/ \E text \in Labels, key \in {label, r} : SetLabel(key, text)
    \/ \E satoshis \in Amounts : SetAmount(satoshis)

UriNext ==
    \/ request = NoRequest /\ ChangeUri
    \/ uri = Fresh /\ ChangeRequest
    \/ /\ uri = Fresh /\ request = NoRequest
       /\ \E tail \in Tails, strict \in BOOLEAN : Read(bitcoin \o tail, strict)

-----------------------------------------------------------------------------
\* An authority is followed by nothing or a slash, a path without one begins
\* with no two.
Unambiguous(u) ==
    IF u.has_authority THEN u.path = <<>> \/ u.path[1] = Slash
    ELSE ~(Is(u.path, 1, Slash) /\ Is(u.path, 2, Slash))

Meaning(u) ==
    [authority |-> IF u.has_authority THEN unescape(u.authority) ELSE Absent,
     path |-> unescape(u.path),
     query |-> IF u.has_query THEN unescape(u.query) ELSE Absent,
     fragment |-> IF u.has_fragment THEN unescape(u.fragment) ELSE Absent]

Ascii(text) == \A i \in DOMAIN text : text[i] < 128

(* The text of a uri is accepted as strict whatever characters its parts   *)
(* were set to and whatever was set and removed before.  A part set to     *)
(* characters below 128 is read from it as it was set, whatever the others *)
(* hold.  A request for a payment is read from its text with the address,  *)
(* the amount and each label of such characters that it was given.  A      *)
(* label of other characters is read when it comes escaped, but does not   *)
(* survive escape, which writes eight digits for each of them.             *)
UriSaysWhatIsMeant ==
    LET Agree(parts) == \A part \in DOMAIN meant : Ascii(meant[part]) => parts[part] = meant[part]
        Reads(text) == is_uri(text, TRUE) /\ Agree(Meaning(decode(text)))
        Requests(b) == /\ b.scheme = bitcoin /\ b.address = wanted.address
                       /\ DOMAIN b.query = DOMAIN wanted.query
                       /\ \A key \in DOMAIN b.query :
                            Ascii(wanted.query[key]) => b.query[key] = wanted.query[key] IN
    /\ Agree(Meaning(uri))
    /\ Unambiguous(uri) => Reads(encoded(uri))
    /\ Requests(parse(encoded_request(request), TRUE))

=============================================================================
