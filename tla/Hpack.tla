-------------------------------- MODULE Hpack --------------------------------
(***************************************************************************)
(* Header compression of the HTTP/2 prober (orchestrator/hpack.py): the    *)
(* integers, and the decoder's dynamic table beside the peer's.  The peer  *)
(* is a correct encoder of RFC 7541.  The decoder does not read a          *)
(* Huffman-coded string: it keeps Unread in its place, of length 0.        *)
(***************************************************************************)
EXTENDS Integers, Sequences, FiniteSetsExt, TLC

CONSTANTS
  Names, Texts,   \* header names, and values
  Length,         \* how many octets each of them has
  StaticTable,    \* the fields of the static table (STATIC)
  DefaultSize     \* table size both ends begin with (4096)

Static == 61            \* entries of the static table
MaxTableSize == 65536
Overhead == 32

Unread == "unread"
Bad == [name |-> "bad", text |-> "bad"]     \* HpackError

ASSUME HpackAssumption ==
  /\ Names \cap Texts = {} /\ {Unread, "bad"} \cap (Names \cup Texts) = {}
  /\ Length \in [Names \cup Texts -> Nat]
  /\ StaticTable \in [1..Static -> [name: Names, text: Texts]]
  /\ DefaultSize \in 0..MaxTableSize

NoField == [name |-> Unread, text |-> Unread]
Fields == [name: Names, text: Texts]
Entries == [name: Names \cup {Unread}, text: Texts \cup {Unread}]

-----------------------------------------------------------------------------
(* Integers of RFC 7541, 5.1, as octets without the flag bits.             *)

PrefixLimit(bits) == 2 ^ bits - 1

Octets[value \in Nat] ==
  IF value < 128 THEN <<value>> ELSE <<128 + (value % 128)>> \o Octets[value \div 128]

IntEncode(value, bits) ==
  LET limit == PrefixLimit(bits)
  IN  IF value < limit THEN <<value>> ELSE <<limit>> \o Octets[value - limit]

\* Seven bits an octet, the lowest first.
IntDecode(octets, bits) ==
  LET limit == PrefixLimit(bits)
      from[i \in Nat] == IF i > Len(octets) THEN 0 ELSE (octets[i] % 128) + 128 * from[i + 1]
  IN  IF octets[1] < limit THEN octets[1] ELSE limit + from[2]

-----------------------------------------------------------------------------
(* Dynamic tables, newest entry first.                                     *)

Octet(string) == IF string = Unread THEN 0 ELSE Length[string]

EntrySize(entry) == Octet(entry.name) + Octet(entry.text) + Overhead

\* The size of each of a table's beginnings.
Sizes(table) ==
  LET size[n \in 0..Len(table)] == IF n = 0 THEN 0 ELSE size[n - 1] + EntrySize(table[n])
  IN  size

\* Mutant of Evict: a table of exactly the limit is too large.
EvictEarly(table, limit) ==
  SubSeq(table, 1, Max({n \in 0..Len(table) : n = 0 \/ Sizes(table)[n] < limit}))

\* Oldest entries are dropped until the rest fits.
Evict(table, limit) == SubSeq(table, 1, Max({n \in 0..Len(table) : Sizes(table)[n] <= limit}))

\* The peer's own, which is none of the prober's code.
PeerEvict(table, limit) == SubSeq(table, 1, Max({n \in 0..Len(table) : Sizes(table)[n] <= limit}))

\* Mutant of Insert: an entry with an unread value is not kept.
InsertRead(table, entry, limit) ==
  IF entry.text = Unread THEN table ELSE Evict(<<entry>> \o table, limit)

Insert(table, entry, limit) == Evict(<<entry>> \o table, limit)

\* An index past both tables is refused, and so is 0.
Lookup(table, index) ==
  CASE index \in 1..Static -> StaticTable[index]
    [] index \in Static + 1 .. Static + Len(table) -> table[index - Static]
    [] OTHER -> Bad

-----------------------------------------------------------------------------
(* One representation of a header block.  `index` is octets; an index of 0 *)
(* says that the name is spelled out.  A peer that Huffman-codes does so   *)
(* for every string of a representation.                                   *)
(* A field that is all in the static table leaves both ends' tables alone, *)
(* and both have the same one: it is left out.                             *)

Read(string, huffman) == IF huffman THEN Unread ELSE string

\* What the decoder makes of a representation: its table, its limit, what it yields.
Decode(table, limit, rep) ==
  CASE rep.kind = "indexed" ->
         [table |-> table, limit |-> limit, got |-> Lookup(table, IntDecode(rep.index, 7))]
    [] rep.kind = "update" ->
         LET requested == IntDecode(rep.index, 5)
             clamped == IF requested < MaxTableSize THEN requested ELSE MaxTableSize
         IN  [table |-> Evict(table, clamped), limit |-> clamped, got |-> NoField]
    [] rep.kind \in {"insert", "literal"} ->
         LET index == IntDecode(rep.index, IF rep.kind = "insert" THEN 6 ELSE 4)
             named == Lookup(table, index)
             entry == [name |-> IF index = 0 THEN Read(rep.field.name, rep.huffman) ELSE named.name,
                       text |-> Read(rep.field.text, rep.huffman)]
         IN  IF index # 0 /\ named = Bad
             THEN [table |-> table, limit |-> limit, got |-> Bad]
             ELSE [table |-> IF rep.kind = "insert" THEN Insert(table, entry, limit) ELSE table,
                   limit |-> limit, got |-> entry]

\* The peer's table and limit after it has sent a representation.
PeerAfter(table, limit, rep) ==
  CASE rep.kind = "update" -> [table |-> PeerEvict(table, rep.size), limit |-> rep.size]
    [] rep.kind = "insert" -> [table |-> PeerEvict(<<rep.field>> \o table, limit), limit |-> limit]
    [] OTHER -> [table |-> table, limit |-> limit]

\* What a peer with this table may send, if it may choose among `sizes` as its limit.
Representation(kind, index, field, huffman, size) ==
  [kind |-> kind, index |-> index, field |-> field, huffman |-> huffman, size |-> size]

Indexed(table) ==
  {Representation("indexed", IntEncode(Static + i, 7), table[i], FALSE, 0) : i \in DOMAIN table}

Updates(sizes) == {Representation("update", IntEncode(s, 5), NoField, FALSE, s) : s \in sizes}

\* A name of the static table goes by its first index.
FirstOfName == {i \in 1..Static : \A j \in 1..i - 1 : StaticTable[j].name # StaticTable[i].name}

\* The name is spelled out, or it is that of a static or of a dynamic entry.
Named(index, name) ==
  {Representation(kind, IntEncode(index, IF kind = "insert" THEN 6 ELSE 4),
                  [name |-> name, text |-> text], huffman, 0) :
     kind \in {"insert", "literal"}, text \in Texts, huffman \in BOOLEAN}

Spelled == UNION {Named(0, name) : name \in Names}
NamedInStatic == UNION {Named(i, StaticTable[i].name) : i \in FirstOfName}
NamedIn(table) == UNION {Named(Static + i, table[i].name) : i \in DOMAIN table}

Literals(table) == Spelled \cup NamedInStatic \cup NamedIn(table)

Representations(table, sizes) == Indexed(table) \cup Updates(sizes) \cup Literals(table)

\* A field is yielded as it was sent, or unread where a string was Huffman-coded.
Survives(field, got) ==
  got.name \in {field.name, Unread} /\ got.text \in {field.text, Unread}
=============================================================================
