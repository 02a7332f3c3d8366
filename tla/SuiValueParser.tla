--------------------------- MODULE SuiValueParser ---------------------------
(***************************************************************************)
(* The Sui extension of the Move value grammar (args.rs): the parser of    *)
(* object(N) / object(I, J) / receiving(..) with an optional @V pin and    *)
(* digest(NAME), the handle encoding, the CLI handle parser parse_fake_id, *)
(* and the narrowing of composite values (concrete_vector,                 *)
(* concrete_struct).                                                       *)
(*                                                                         *)
(* Widths are scaled: a "byte" has ByteBase values, an address has         *)
(* AddrBytes bytes (so U256Max = ByteBase^AddrBytes - 1 stands for         *)
(* u256::MAX) and U64Max stands for u64::MAX.                              *)
(*                                                                         *)
(* The state is the token stream the parser has read: the lexer hands the  *)
(* parser one more token whenever the parse so far ran out of input or     *)
(* stopped at a lookahead (peek_tok) at the end of the stream.             *)
(***************************************************************************)
EXTENDS Naturals, Sequences, SequencesExt, FiniteSets

CONSTANTS
    ByteBase,     \* number of values of one byte
    AddrBytes,    \* bytes of an address (u256 literal width)
    U64Max,       \* the largest u64
    Nums,         \* number literals the lexer may produce
    Names,        \* identifiers other than the three keywords
    MaxToks,      \* longest token stream read
    MaxElems,     \* longest composite value checked
    NoVersion,    \* model value: no @V pin
    NotANumber    \* model value: a CLI segment that is no number

U256Max == ByteBase ^ AddrBytes - 1

ASSUME /\ ByteBase >= 2 /\ AddrBytes >= 2
       /\ U64Max < U256Max
       /\ Nums \subseteq Nat /\ Names # {}
       /\ {"object", "receiving", "digest"} \cap Names = {}

VARIABLES
    toks,   \* the tokens read so far
    values  \* the values of a vector or struct literal parsed so far, by kind

vars == <<toks, values>>

-----------------------------------------------------------------------------
(* Tokens of the Move value lexer (ValueToken) *)
Ident(name) == [kind |-> "Ident", text |-> name]
Num(n)      == [kind |-> "Number", val |-> n]
Punct(k)    == [kind |-> k]
LParen == Punct("LParen")
RParen == Punct("RParen")
Comma  == Punct("Comma")
AtSign == Punct("AtSign")

Tokens ==
    {Ident(x) : x \in {"object", "receiving", "digest"} \cup Names}
      \cup {Num(n) : n \in Nums} \cup {LParen, RParen, Comma, AtSign}

(* FakeID *)
Known(addr)      == [kind |-> "Known", addr |-> addr]
Enumerated(i, j) == [kind |-> "Enumerated", i |-> i, j |-> j]

(* parser.peek_tok() = Some(kind) at position p, or a successful           *)
(* parser.advance(kind) there                                              *)
At(ts, p, kind) == p <= Len(ts) /\ ts[p].kind = kind

(* parse_u64 / parse_u256 of a Number token: the literal is in range *)
FitsU64(ts, p)  == ts[p].val <= U64Max
FitsU256(ts, p) == ts[p].val <= U256Max

(* The guard `if i > U256::from(u64::MAX) { bail!("Object ID too large") }`  *)
(* Mutant: an off-by-one that also rejects u64::MAX itself *)
EnumeratedFits_offbyone(ts) == ts[3].val < U64Max

EnumeratedFits(ts) == ts[3].val <= U64Max

(* Mutant: one byte too many *)
to_le_bytes_wide(n) == [k \in 1..AddrBytes + 1 |-> (n \div ByteBase ^ (k - 1)) % ByteBase]

(* U256::to_le_bytes *)
to_le_bytes(n) == [k \in 1..AddrBytes |-> (n \div ByteBase ^ (k - 1)) % ByteBase]

(* Mutant: the little-endian bytes taken as the address, without reversal *)
AddressOf_noreverse(n) == to_le_bytes(n)

(* u256_bytes.reverse(); SuiAddress::from_bytes(&u256_bytes) *)
AddressOf(n) == Reverse(to_le_bytes(n))

(* U256::unchecked_as_u64: keeps the low 64 bits *)
unchecked_as_u64(n) == n % (U64Max + 1)

(* A parser that checks the tokens of `shape` one after another; Valid(k)   *)
(* is the check the code makes on the k-th token after advancing to it.     *)
(* The first rejected token decides the error: running off the end of the  *)
(* stream is "eof", any other rejection is "error".                         *)
RunShape(ts, shape, Valid(_), value) ==
    LET bad == {k \in 1..Len(shape) : ~(At(ts, k, shape[k]) /\ Valid(k))}
        first == CHOOSE k \in bad : \A m \in bad : k <= m
    IN  IF bad = {}
        THEN [status |-> "ok", value |-> value, next |-> Len(shape) + 1]
        ELSE [status |-> IF first > Len(ts) THEN "eof" ELSE "error"]

(* SuiExtraValueArgs::parse_receiving_or_object_value: ident, '(', a u256,  *)
(* then, only if the next token is a comma, a u64 J and the bail when I     *)
(* does not fit u64; else the u256 is reversed into a Known address; ')';   *)
(* then, only if the next token is '@', a u64 version.                      *)
parse_receiving_or_object_value(ts, ident_name) ==
    LET comma == At(ts, 4, "Comma")
        rp    == IF comma THEN 6 ELSE 4
        pin   == At(ts, rp + 1, "AtSign")
        shape == <<"Ident", "LParen", "Number">>
                 \o (IF comma THEN <<"Comma", "Number">> ELSE <<>>)
                 \o <<"RParen">>
                 \o (IF pin THEN <<"AtSign", "Number">> ELSE <<>>)
        Valid(k) ==
            CASE k = 1 -> ts[1].text = ident_name
              [] k = 3 -> FitsU256(ts, 3)
              [] k = 5 /\ comma -> FitsU64(ts, 5) /\ EnumeratedFits(ts)
              [] k = rp + 2 -> FitsU64(ts, k)
              [] OTHER -> TRUE
        fake_id == IF comma THEN Enumerated(unchecked_as_u64(ts[3].val), ts[5].val)
                            ELSE Known(AddressOf(ts[3].val))
        version == IF pin THEN ts[rp + 2].val ELSE NoVersion
    IN  RunShape(ts, shape, Valid, [id |-> fake_id, version |-> version])

(* parse_object_value / parse_receiving_value *)
parse_object_value(ts) ==
    LET r == parse_receiving_or_object_value(ts, "object")
    IN  IF r.status = "ok" THEN [r EXCEPT !.value = [kind |-> "Object"] @@ @] ELSE r

parse_receiving_value(ts) ==
    LET r == parse_receiving_or_object_value(ts, "receiving")
    IN  IF r.status = "ok" THEN [r EXCEPT !.value = [kind |-> "Receiving"] @@ @] ELSE r

(* SuiExtraValueArgs::parse_digest_value: digest '(' NAME ')' *)
parse_digest_value(ts) ==
    LET Valid(k) == k = 1 => ts[1].text = "digest"
    IN  RunShape(ts, <<"Ident", "LParen", "Ident", "RParen">>, Valid,
                 [kind |-> "Digest", pkg |-> IF At(ts, 3, "Ident") THEN ts[3].text ELSE ""])

(* ParsableValue::parse_value: dispatch on the peeked identifier; any other *)
(* token (or none) is left to the base grammar.                             *)
parse_value(ts) ==
    CASE At(ts, 1, "Ident") /\ ts[1].text = "object"    -> parse_object_value(ts)
      [] At(ts, 1, "Ident") /\ ts[1].text = "digest"    -> parse_digest_value(ts)
      [] At(ts, 1, "Ident") /\ ts[1].text = "receiving" -> parse_receiving_value(ts)
      [] OTHER -> [status |-> "none"]

-----------------------------------------------------------------------------
(* parse_fake_id, the clap value parser of view-object / transfer-object /  *)
(* upgrade: the argument string is a list of comma-separated segments, each *)
(* a number or text that is not one (NotANumber).                           *)
Segments == UNION {[1..n -> Nums \cup {NotANumber}] : n \in 1..3}

parse_u64_seg(s)  == s # NotANumber /\ s <= U64Max
parse_u256_seg(s) == s # NotANumber /\ s <= U256Max

(* split_once(',') keeps every later comma in the second half, which then  *)
(* is no u64.                                                               *)
parse_fake_id(segs) ==
    IF Len(segs) >= 2
    THEN IF parse_u64_seg(segs[1]) /\ Len(segs) = 2 /\ parse_u64_seg(segs[2])
         THEN [status |-> "ok", id |-> Enumerated(segs[1], segs[2])]
         ELSE [status |-> "error"]
    ELSE IF parse_u256_seg(segs[1])
         THEN [status |-> "ok", id |-> Known(AddressOf(segs[1]))]
         ELSE [status |-> "error"]

-----------------------------------------------------------------------------
(* SuiValue variants, as they reach the composite narrowing *)
ValueKinds == {"MoveValue", "Object", "ObjVec", "Digest", "Receiving"}

(* assert_move_value / assert_object: every other variant panics *)
assert_move_value(kind) == IF kind = "MoveValue" THEN "MoveValue" ELSE "panic"
assert_object(kind)     == IF kind = "Object" THEN "Object" ELSE "panic"

Narrow(elems, Check(_)) ==
    IF \E k \in 1..Len(elems) : Check(elems[k]) = "panic" THEN "panic" ELSE "ok"

(* Mutant: an object vector that keeps only its object elements instead   *)
(* of asserting each one                                                   *)
concrete_vector_filtering(elems) ==
    IF elems # <<>> /\ elems[1] = "Object"
    THEN "ObjVec"
    ELSE IF Narrow(elems, assert_move_value) = "panic" THEN "panic" ELSE "MoveValue"

(* concrete_vector: an object vector iff the FIRST element is an object;    *)
(* every element is then narrowed by assert_object, else by               *)
(* assert_move_value.                                                     *)
concrete_vector(elems) ==
    IF elems # <<>> /\ elems[1] = "Object"
    THEN IF Narrow(elems, assert_object) = "panic" THEN "panic" ELSE "ObjVec"
    ELSE IF Narrow(elems, assert_move_value) = "panic" THEN "panic" ELSE "MoveValue"

(* concrete_struct: every field is narrowed by assert_move_value *)
concrete_struct(fields) ==
    IF Narrow(fields, assert_move_value) = "panic" THEN "panic" ELSE "MoveValue"

-----------------------------------------------------------------------------
(* The lexer hands the parser one more token *)
NeedsInput(ts) ==
    \/ ts = <<>>
    \/ LET r == parse_value(ts)
       IN  \/ r.status = "eof"
           \/ r.status = "ok" /\ r.next > Len(ts)

ReadToken ==
    /\ Len(toks) < MaxToks
    /\ NeedsInput(toks)
    /\ \E t \in Tokens : toks' = Append(toks, t)
    /\ UNCHANGED values

(* The base grammar parses one more element of a vector or struct literal; *)
(* the whole list then goes to concrete_vector or concrete_struct.         *)
ParseElement ==
    /\ Len(values) < MaxElems
    /\ \E kind \in ValueKinds : values' = Append(values, kind)
    /\ UNCHANGED toks

Init == toks = <<>> /\ values = <<>>
Next == ReadToken \/ ParseElement
Spec == Init /\ [][Next]_vars

-----------------------------------------------------------------------------
(***************************************************************************)
(* Reference grammar: the literals of spec section 4.1, generated from     *)
(* their parts, with the value each denotes.  A Known handle is the        *)
(* address whose big-endian reading is N.                                  *)
(***************************************************************************)
BigEndian(bytes) == FoldLeft(LAMBDA acc, b : acc * ByteBase + b, 0, bytes)

Addresses == [1..AddrBytes -> 0..ByteBase - 1]

KnownFor(n) == Known(CHOOSE a \in Addresses : BigEndian(a) = n)

Pins == {NoVersion} \cup {v \in Nums : v <= U64Max}

PinToks(v) == IF v = NoVersion THEN <<>> ELSE <<AtSign, Num(v)>>

ObjectLiterals ==
    LET Ref(k) == IF k = "object" THEN "Object" ELSE "Receiving"
    IN  {[toks  |-> <<Ident(k), LParen, Num(n), RParen>> \o PinToks(v),
          value |-> [kind |-> Ref(k), id |-> KnownFor(n), version |-> v]]
           : k \in {"object", "receiving"}, n \in {m \in Nums : m <= U256Max}, v \in Pins}
        \cup
        {[toks  |-> <<Ident(k), LParen, Num(i), Comma, Num(j), RParen>> \o PinToks(v),
          value |-> [kind |-> Ref(k), id |-> Enumerated(i, j), version |-> v]]
           : k \in {"object", "receiving"}, i \in {m \in Nums : m <= U64Max},
             j \in {m \in Nums : m <= U64Max}, v \in Pins}

DigestLiterals ==
    {[toks  |-> <<Ident("digest"), LParen, Ident(x), RParen>>,
      value |-> [kind |-> "Digest", pkg |-> x]]
       : x \in {"object", "receiving", "digest"} \cup Names}

(* A literal is what the stream starts with when it is a prefix and an     *)
(* unpinned literal is not followed by '@'.                                *)
Denotes(ts, lit) ==
    /\ IsPrefix(lit.toks, ts)
    /\ (lit.value.kind # "Digest" /\ lit.value.version = NoVersion)
          => ~At(ts, Len(lit.toks) + 1, "AtSign")

-----------------------------------------------------------------------------
FakeIDs == {Known(a) : a \in Addresses} \cup {Enumerated(i, j) : i, j \in 0..U64Max}

(* The stream is made of lexer tokens, and what the parser returns is a    *)
(* well-formed SuiExtraValueArgs: an address-sized Known handle, u64       *)
(* Enumerated components and a u64 pin.                                    *)
TypeOK ==
    /\ toks \in Seq(Tokens) /\ Len(toks) <= MaxToks
    /\ values \in BoundedSeq(ValueKinds, MaxElems)
    /\ LET r == parse_value(toks)
       IN  r.status = "ok" =>
              \/ r.value.kind = "Digest"
              \/ r.value.id \in FakeIDs /\ r.value.version \in Pins

(* The parser accepts the stream exactly when it starts with a literal of  *)
(* the grammar, returns that literal's value (a Known handle being the     *)
(* big-endian reading of the u256, an Enumerated handle only when I fits   *)
(* u64) and consumes exactly its tokens: the comma and '@' lookaheads of   *)
(* parse_receiving_or_object_value and the byte reversal of the address.   *)
ParseAgreesWithGrammar ==
    LET r    == parse_value(toks)
        lits == {l \in ObjectLiterals \cup DigestLiterals : Denotes(toks, l)}
    IN  /\ (r.status = "ok") <=> (lits # {})
        /\ r.status = "ok" =>
              \E l \in lits : r.value = l.value /\ r.next = Len(l.toks) + 1

(* The two handle syntaxes agree: the CLI argument "I,J" or "N" given to   *)
(* parse_fake_id and the value literal object(I, J) / object(N) name the   *)
(* same FakeID, or are both rejected; and the literal parser never rejects *)
(* a prefix of a literal whose CLI form is accepted.                       *)
FakeIdSyntaxesAgree ==
    \A segs \in {s \in Segments : \A k \in DOMAIN s : s[k] # NotANumber /\ Len(s) <= 2} :
        LET lit == <<Ident("object"), LParen, Num(segs[1])>>
                   \o (IF Len(segs) = 2 THEN <<Comma, Num(segs[2])>> ELSE <<>>)
                   \o <<RParen>>
            v == parse_value(toks)
            c == parse_fake_id(segs)
        IN  IsPrefix(toks, lit) =>
               /\ v.status = "error" => c.status = "error"
               /\ toks = lit => (v.status = "ok") <=> (c.status = "ok")
               /\ toks = lit /\ v.status = "ok" => v.value.id = c.id

(* A composite literal is never silently coerced: a vector becomes an      *)
(* object vector exactly when all its elements are object references, a    *)
(* plain vector or struct exactly when none is a Sui reference, and every  *)
(* other mix (a vector of receiving references or digests, an object after *)
(* a plain value, a nested object vector) aborts.                          *)
CompositesNeverCoerced ==
    /\ concrete_vector(values) =
          CASE values # <<>> /\ \A k \in 1..Len(values) : values[k] = "Object" -> "ObjVec"
            [] \A k \in 1..Len(values) : values[k] = "MoveValue" -> "MoveValue"
            [] OTHER -> "panic"
    /\ concrete_struct(values) =
          IF \A k \in 1..Len(values) : values[k] = "MoveValue" THEN "MoveValue" ELSE "panic"
=============================================================================
