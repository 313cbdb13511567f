------------------------------ MODULE KeyCodec ------------------------------
(***************************************************************************)
(* The key encodings: memcomparable user keys with inverted timestamps     *)
(* (transaction/mvcc/codec.rs) and keys of two levels                      *)
(* (util/multi_level_key.rs).  Keys are sequences of bytes, as in the      *)
(* code; ENC_GROUP_SIZE, the width of a timestamp and that of a length are *)
(* parameters (8, 8 and 4 in the code).                                    *)
(***************************************************************************)
EXTENDS Integers, Sequences, FiniteSets, SequencesExt

CONSTANTS GroupSize, TsBytes, LenBytes,
          SampleBytes,      \* bound: the bytes of user keys
          MaxLen,           \* bound: their length
          SampleTs          \* bound: timestamps

Marker == 255
Separator == 255
Failed == <<-1>>    \* Err(..)

ASSUME CodecAssumption ==
  /\ GroupSize \in 1..254 /\ TsBytes \in Nat \ {0} /\ LenBytes \in Nat \ {0}
  /\ SampleBytes \subseteq 0..255 /\ SampleTs \subseteq 0..(256 ^ TsBytes - 1)

VARIABLE sample     \* two user keys with a timestamp each

SampleKeys == UNION {[1..n -> SampleBytes] : n \in 0..MaxLen}
CodecInit == sample \in [one : SampleKeys, two : SampleKeys, t : SampleTs, u : SampleTs]

\* to_be_bytes and from_be_bytes.
BigEndian(n, width) == [i \in 1..width |-> (n \div 256 ^ (width - i)) % 256]
FromBigEndian(b) == FoldLeft(LAMBDA acc, x : 256 * acc + x, 0, b)

\* Slices and keys are ordered byte by byte, a prefix first.
Below(a, b) ==
  \/ \E i \in DOMAIN a \cap DOMAIN b : a[i] < b[i] /\ \A j \in 1..(i - 1) : a[j] = b[j]
  \/ Len(a) < Len(b) /\ SubSeq(b, 1, Len(a)) = a

-----------------------------------------------------------------------------
(* codec.rs *)
Pad(data, g) == LET remain == Len(data) - g * GroupSize
                IN  IF remain >= GroupSize THEN 0 ELSE GroupSize - remain

\* Mutants: no group is added to a key that fills its last one; the marker is
\* the length of the group.
GroupsMutant(data) == IF data = << >> THEN 0..0 ELSE 0..((Len(data) - 1) \div GroupSize)
Groups(data) == 0..(Len(data) \div GroupSize)
PaddedMutant(data, g) ==
  LET from == g * GroupSize
  IN  [i \in 1..(GroupSize + 1) |->
         IF i > GroupSize THEN Pad(data, g)
         ELSE IF from + i <= Len(data) THEN data[from + i] ELSE 0]
\* A group of the encoding: the bytes, zeros, and the marker 0xFF - padding.
Padded(data, g) ==
  LET from == g * GroupSize
  IN  [i \in 1..(GroupSize + 1) |->
         IF i > GroupSize THEN Marker - Pad(data, g)
         ELSE IF from + i <= Len(data) THEN data[from + i] ELSE 0]
encode_bytes(data) == FlattenSeq([n \in 1..Cardinality(Groups(data)) |-> Padded(data, n - 1)])

\* decode_bytes: groups up to the first marker below 0xFF; the data and the
\* number of bytes read, or Failed.
decode_bytes(b) ==
  LET marker(g) == b[g * (GroupSize + 1)]
      last == {g \in 1..(Len(b) \div (GroupSize + 1)) :
                 marker(g) # Marker /\ \A h \in 1..(g - 1) : marker(h) = Marker}
      n == CHOOSE g \in last : TRUE
      pad == Marker - marker(n)
      byte(i) == b[i + (i - 1) \div GroupSize]
  IN  IF last = {} \/ pad > GroupSize
           \/ \E i \in (n * GroupSize - pad + 1)..(n * GroupSize) : byte(i) # 0
      THEN [data |-> Failed, offset |-> 0]
      ELSE [data |-> [i \in 1..(n * GroupSize - pad) |-> byte(i)], offset |-> n * (GroupSize + 1)]

encode_key(user_key, ts) == encode_bytes(user_key) \o BigEndian(256 ^ TsBytes - 1 - ts, TsBytes)
decode_user_key(k) == decode_bytes(k).data
decode_timestamp(k) ==
  LET from == decode_bytes(k).offset
  IN  IF decode_bytes(k).data = Failed \/ Len(k) < from + TsBytes THEN -1
      ELSE 256 ^ TsBytes - 1 - FromBigEndian(SubSeq(k, from + 1, from + TsBytes))

-----------------------------------------------------------------------------
(* multi_level_key.rs *)
encode_multi_level_key(primary, secondary) ==
  BigEndian(Len(primary), LenBytes) \o primary \o <<Separator>> \o secondary

\* An encoding that ends with its separator is refused as well.
decode_multi_level_key(k) ==
  LET n == FromBigEndian(SubSeq(k, 1, LenBytes))
  IN  IF Len(k) < LenBytes + 1 \/ Len(k) < LenBytes + n + 2 \/ k[LenBytes + n + 1] # Separator
      THEN <<Failed, Failed>>
      ELSE <<SubSeq(k, LenBytes + 1, LenBytes + n), SubSeq(k, LenBytes + n + 2, Len(k))>>

-----------------------------------------------------------------------------
\* Encoded keys sort by user key, and the versions of a user key from the newest
\* to the oldest, whatever bytes, zeros and lengths the keys have; keys of two
\* levels with the same primary key sort by the second.
EncodingKeepsOrder ==
  LET a == encode_key(sample.one, sample.t)
      b == encode_key(sample.two, sample.u)
  IN  /\ Below(a, b) <=> \/ Below(sample.one, sample.two)
                         \/ sample.one = sample.two /\ sample.t > sample.u
      /\ \A p \in {<< >>, <<Separator>>} :
           Below(encode_multi_level_key(p, sample.one), encode_multi_level_key(p, sample.two))
             <=> Below(sample.one, sample.two)

\* Decoding an encoded key gives the user key and the timestamp back, and a key
\* of two levels decodes to what it was made from when the second is not empty.
DecodingInverts ==
  LET k == encode_key(sample.one, sample.t)
  IN  /\ decode_user_key(k) = sample.one /\ decode_timestamp(k) = sample.t
      /\ sample.two # << >> =>
           decode_multi_level_key(encode_multi_level_key(sample.one, sample.two))
             = <<sample.one, sample.two>>
==============================================================================
