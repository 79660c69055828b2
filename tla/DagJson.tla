--------------------------------- MODULE DagJson --------------------------------
(***************************************************************************)
(* packages/utils, dag/walkers.ts: the links of a dag-json block.  The     *)
(* decoder takes tokens from DagJsonTokenizer, which turns a map that      *)
(* stands for a link, or for bytes, into one token.                        *)
(*   value    the JSON value of the block                                  *)
(*   buffer, stream   tokenBuffer, a stack, and the tokens after it        *)
(*   decoded  the tokens given to the decoder: of JSON, "link" (tag 42) or *)
(*            "data" (bytes)                                               *)
(*   bailed   next has thrown                                              *)
(* A value is <<"str">>, <<"num">> or <<"map", fields>>; the fields of a  *)
(* map are <<"end">> or <<"field", key, value, fields>>.                   *)
(***************************************************************************)
EXTENDS Naturals, Sequences, SequencesExt

CONSTANTS
  JsonKeys,
  JsonNodes,        \* values, and fields
  Rank, MaxRank     \* node -> how large it is

Scalar(v) == v[1] \in {"str", "num"}
Map(v) == v[1] = "map"
Field(v) == v[1] = "field"
Values == {v \in JsonNodes : Scalar(v) \/ Map(v)}
Fields == JsonNodes \ Values

\* What a node is made of is smaller than the node.
NodesOK ==
  /\ MaxRank \in Nat /\ Rank \in [JsonNodes -> 0..MaxRank] /\ JsonKeys \cap {"map", "break", "num"} = {}
  /\ \A v \in JsonNodes :
       \/ v \in {<<"str">>, <<"num">>, <<"end">>}
       \/ v = <<"map", v[2]>> /\ v[2] \in Fields /\ Rank[v[2]] < Rank[v]
       \/ /\ v = <<"field", v[2], v[3], v[4]>> /\ v[2] \in JsonKeys
          /\ v[3] \in Values /\ v[4] \in Fields /\ Rank[v[3]] < Rank[v] /\ Rank[v[4]] < Rank[v]

VARIABLES value, buffer, stream, decoded, bailed

jsonVars == <<value, buffer, stream, decoded, bailed>>

Tokens[v \in JsonNodes] ==
  IF Scalar(v) THEN v
  ELSE IF Map(v) THEN <<"map">> \o Tokens[v[2]]
  ELSE IF Field(v) THEN <<v[2]>> \o Tokens[v[3]] \o Tokens[v[4]]
  ELSE <<"break">>

JsonInit ==
  /\ value \in Values
  /\ stream = Tokens[value] /\ buffer = <<>> /\ decoded = <<>> /\ bailed = FALSE
-----------------------------------------------------------------------------
IsString(t) == t \notin {"map", "break", "num"}

\* What _next gives, call after call.
Ahead == Reverse(buffer) \o stream

\* next returns t, having called _next n times and pushed some tokens after that.
Give(t, n, pushed) ==
  /\ decoded' = Append(decoded, t)
  /\ IF n <= Len(buffer) THEN buffer' = SubSeq(buffer, 1, Len(buffer) - n) \o pushed /\ UNCHANGED stream
     ELSE buffer' = pushed /\ stream' = SubSeq(stream, n - Len(buffer) + 1, Len(stream))
  /\ UNCHANGED <<value, bailed>>

Throw == bailed' = TRUE /\ UNCHANGED <<value, buffer, stream, decoded>>

Plain(a) == a[1] # "map" /\ Give(a[1], 1, <<>>)

Link(a) ==
  /\ a[1] = "map" /\ a[2] = "/" /\ IsString(a[3])
  /\ IF a[4] = "break" THEN Give("link", 4, <<a[3]>>) ELSE Throw

Data(a) ==
  /\ a[1] = "map" /\ a[2] = "/" /\ a[3] = "map" /\ a[4] = "bytes" /\ IsString(a[5])
  /\ IF a[6] = "break" /\ a[7] = "break" THEN Give("data", 7, <<>>) ELSE Throw

\* Mutant: the tokens are pushed in the order they were read.
BailForward(a) ==
  /\ a[1] = "map"
  /\ \/ a[2] # "/" /\ Give("map", 2, <<a[2]>>)
     \/ a[2] = "/" /\ a[3] # "map" /\ ~IsString(a[3]) /\ Give("map", 3, <<a[2], a[3]>>)
     \/ a[2] = "/" /\ a[3] = "map" /\ a[4] # "bytes" /\ Give("map", 4, <<a[2], a[3], a[4]>>)
     \/ a[2] = "/" /\ a[3] = "map" /\ a[4] = "bytes" /\ ~IsString(a[5]) /\ Give("map", 5, <<a[2], a[3], a[4], a[5]>>)

\* The map is an ordinary one: what was looked at is pushed, the key last.
Bail(a) ==
  /\ a[1] = "map"
  /\ \/ a[2] # "/" /\ Give("map", 2, <<a[2]>>)
     \/ a[2] = "/" /\ a[3] # "map" /\ ~IsString(a[3]) /\ Give("map", 3, <<a[3], a[2]>>)
     \/ a[2] = "/" /\ a[3] = "map" /\ a[4] # "bytes" /\ Give("map", 4, <<a[4], a[3], a[2]>>)
     \/ a[2] = "/" /\ a[3] = "map" /\ a[4] = "bytes" /\ ~IsString(a[5]) /\ Give("map", 5, <<a[5], a[4], a[3], a[2]>>)

Done == Ahead = <<>>
JsonNext == ~bailed /\ ~Done /\ (Plain(Ahead) \/ Link(Ahead) \/ Data(Ahead) \/ Bail(Ahead))

JsonSpec == JsonInit /\ [][JsonNext]_jsonVars
-----------------------------------------------------------------------------
\* The map has key as its first field, with a string; or it has "/", with a map that has "bytes".
Names(v, key) == Map(v) /\ Field(v[2]) /\ v[2][2] = key /\ v[2][3] = <<"str">>
Nests(v) == Map(v) /\ Field(v[2]) /\ v[2][2] = "/" /\ Names(v[2][3], "bytes")
Alone(v) == v[2][4] = <<"end">>

\* What the decoder should see of a value: "error" where a link or bytes have further fields.
Meaning[v \in JsonNodes] ==
  IF Scalar(v) THEN v
  ELSE IF Names(v, "/") THEN IF Alone(v) THEN <<"link", "str">> ELSE <<"error">>
  ELSE IF Nests(v) THEN IF Alone(v) /\ Alone(v[2][3]) THEN <<"data">> ELSE <<"error">>
  ELSE IF Map(v) THEN <<"map">> \o Meaning[v[2]]
  ELSE IF Field(v) THEN <<v[2]>> \o Meaning[v[3]] \o Meaning[v[4]]
  ELSE <<"break">>

\* walkers.ts, "Implements rules outlined in https://github.com/ipld/specs/pull/356": however maps are nested, the
\* decoder sees the links and the bytes and nothing else changed, and what is neither a link nor a map throws.
JsonDecoded ==
  /\ Done => decoded = Meaning[value]
  /\ bailed => Append(decoded, "error") = SubSeq(Meaning[value], 1, Len(decoded) + 1)
=============================================================================
