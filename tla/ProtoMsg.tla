------------------------------ MODULE ProtoMsg ------------------------------
(***************************************************************************)
(* The orchestration messages on one stream.  The client encodes a request *)
(* (encodeProtoMsg, skdb_orchestration.ts), the server decodes it          *)
(* (decodeProtoMsg, Orchestration.kt) and answers in chunks, which the     *)
(* client's ProtoMsgDecoder puts together again.                           *)
(*                                                                         *)
(* A buffer is a sequence of numbers: one for each header field, however   *)
(* many bytes it has, and one for each byte of a text.  Lengths are        *)
(* written as 16-bit unsigned numbers and read as signed ones; ShortMod is *)
(* the number of values such a field has, 2^16 in the code.  After a text  *)
(* whose length was cut, the fields that follow are read in its bytes; here *)
(* one number is taken where the code takes two bytes.                     *)
(***************************************************************************)
EXTENDS Integers, Sequences, SequencesExt

CONSTANTS Bytes,      \* the bytes of a text
          ShortMod,   \* values of a 16-bit field
          MaxQuery,   \* MAX_QUERY_LENGTH
          Texts,      \* the texts of a request that has one or two
          TailTexts,  \* the texts of a tail
          BatchTexts, \* the texts of the tails of a batch
          Chunks,     \* the payloads of the chunks of an answer
          MaxReplies  \* bound: chunks the server sends

ASSUME ProtoBounds ==
  /\ Bytes \subseteq Nat
  /\ \A set \in {Texts, TailTexts, BatchTexts, Chunks} : set \subseteq Seq(Bytes)
  /\ MaxQuery \in Nat /\ MaxReplies \in Nat
  /\ ShortMod \in Nat /\ ShortMod >= 6 \* the size of a batch is such a field too

VARIABLES request, \* the request the client sent last
          wire,    \* its bytes
          got,     \* what the server made of them
          replies, \* chunks on their way to the client
          whole,   \* what the server meant: complete messages, in order
          partial, \* payload sent since the last chunk with the fin flag
          bufs, msgs, \* the state of ProtoMsgDecoder
          popped,  \* messages the client took
          result,  \* what the method that asked has returned
          kind,    \* what is looked at: a stream "asking", a "mirror" or a "request",
                   \* "closed" by the server, "cut" with its socket or "reset"
          sent     \* chunks sent

requestVars == <<request, wire, got>>
replyVars == <<replies, whole, partial, bufs, msgs, popped, result, kind, sent>>
vars == <<requestVars, replyVars>>
-----------------------------------------------------------------------------
(* Requests. *)

Tails(texts) ==
  [type : {"tail"}, since : 0..1, table : texts, expectedColumns : texts,
   filterExpr : texts, params : texts]
Requests ==
  [type : {"query"}, format : 0..2, query : Texts]
    \cup [type : {"schema"}, scope : 1..3, name : Texts \ {<<>>}, suffix : Texts]
    \cup [type : {"schema"}, scope : {0}, name : {<<>>}, suffix : {<<>>}]
    \cup Tails(TailTexts)
    \cup [type : {"tailBatch"}, requests : [1..2 -> Tails(BatchTexts)]]
    \cup [type : {"pushPromise"}, schemas : Texts]
    \cup [type : {"createDatabase"}, name : Texts]
    \cup [type : {"createUser"}]
    \cup [type : {"data"}, payload : Texts]

Field(text) == <<Len(text) % ShortMod>> \o text

EncodeQuery(m) == <<1, m.format, Len(m.query)>> \o m.query
EncodeSchemaNoSuffix(m) == <<4, m.scope>> \o Field(m.name)
EncodeSchema(m) == <<4, m.scope>> \o Field(m.name) \o Field(m.suffix)
EncodeTail(m) ==
  <<2, m.since>> \o Field(m.table) \o Field(m.expectedColumns)
    \o Field(m.filterExpr) \o Field(m.params)
EncodeTailBatch(m) ==
  <<7, Len(m.requests) % ShortMod>>
    \o FlattenSeq([i \in DOMAIN m.requests |-> EncodeTail(m.requests[i])])
EncodePushPromise(m) == <<3>> \o Field(m.schemas)
EncodeCreateDatabase(m) == <<5>> \o Field(m.name)

\* Data of a local tail, in one chunk.
EncodeData(m) == <<0, 1>> \o m.payload

encodeProtoMsg(m) ==
  CASE m.type = "query" -> EncodeQuery(m)
    [] m.type = "schema" -> EncodeSchema(m)
    [] m.type = "tail" -> EncodeTail(m)
    [] m.type = "tailBatch" -> EncodeTailBatch(m)
    [] m.type = "pushPromise" -> EncodePushPromise(m)
    [] m.type = "createDatabase" -> EncodeCreateDatabase(m)
    [] m.type = "createUser" -> <<6>>
    [] m.type = "data" -> EncodeData(m)

\* getShort().toInt(), and the text of that length; a negative length or the end
\* of the buffer is an exception, after which nothing more is read.
Signed(v) == IF v >= ShortMod \div 2 THEN v - ShortMod ELSE v
Error == [text |-> <<>>, next |-> 0]
Text(buf, p, n) ==
  IF n < 0 \/ p + n > Len(buf) THEN Error
  ELSE [text |-> SubSeq(buf, p + 1, p + n), next |-> p + n + 1]
ReadField(buf, p) ==
  IF p = 0 \/ p > Len(buf) THEN Error ELSE Text(buf, p, Signed(buf[p]))

Refused == [type |-> "error"]

DecodeTail(buf, p) ==
  LET table == ReadField(buf, p + 2)
      columns == ReadField(buf, table.next)
      filter == ReadField(buf, columns.next)
      params == ReadField(buf, filter.next)
  IN [msg |-> [type |-> "tail", since |-> buf[p + 1], table |-> table.text,
               expectedColumns |-> columns.text, filterExpr |-> filter.text,
               params |-> params.text],
      next |-> params.next]

\* The tails of a batch, one after the other from position 3; anything else
\* among them is an exception.
DecodeTailBatch(buf, n) ==
  LET read[i \in 0..n] ==
        IF i = 0 THEN [msgs |-> <<>>, next |-> 3]
        ELSE LET before == read[i - 1]
                 one == IF \/ before.next = 0 \/ before.next >= Len(buf)
                           \/ buf[before.next] # 2
                        THEN [msg |-> Refused, next |-> 0]
                        ELSE DecodeTail(buf, before.next)
             IN [msgs |-> Append(before.msgs, one.msg), next |-> one.next]
  IN read[n]

Decoded(reader, msg) == IF reader.next = 0 THEN Refused ELSE msg

decodeProtoMsg(buf) ==
  CASE buf[1] = 0 -> [type |-> "data", payload |-> SubSeq(buf, 3, Len(buf))]
    [] buf[1] = 1 ->
         LET q == IF buf[3] > MaxQuery THEN Error ELSE Text(buf, 3, buf[3]) IN
         Decoded(q, [type |-> "query", format |-> buf[2], query |-> q.text])
    [] buf[1] = 2 -> LET t == DecodeTail(buf, 1) IN Decoded(t, t.msg)
    [] buf[1] = 3 ->
         LET s == ReadField(buf, 2) IN
         Decoded(s, [type |-> "pushPromise", schemas |-> s.text])
    [] buf[1] = 4 /\ Signed(buf[3]) < 1 ->
         [type |-> "schema", scope |-> buf[2], name |-> <<>>, suffix |-> <<>>]
    [] buf[1] = 4 /\ Signed(buf[3]) >= 1 ->
         LET name == ReadField(buf, 3)
             suffix == ReadField(buf, name.next)
         IN Decoded(suffix, [type |-> "schema", scope |-> buf[2], name |-> name.text,
                             suffix |-> suffix.text])
    [] buf[1] = 5 ->
         LET name == ReadField(buf, 2) IN
         Decoded(name, [type |-> "createDatabase", name |-> name.text])
    [] buf[1] = 6 -> [type |-> "createUser"]
    [] buf[1] = 7 ->
         LET batch == DecodeTailBatch(buf, Signed(buf[2])) IN
         Decoded(batch, [type |-> "tailBatch", requests |-> batch.msgs])

NoMessage == [type |-> "none"]

SendRequest ==
  /\ kind = "asking" /\ request = NoMessage
  /\ request' \in Requests /\ wire' = encodeProtoMsg(request')
  /\ UNCHANGED <<got, replyVars>>

ServerDecodes ==
  /\ wire # <<>> /\ got' = decodeProtoMsg(wire) /\ wire' = <<>>
  /\ UNCHANGED <<request, replyVars>>
-----------------------------------------------------------------------------
(* Answers. *)

\* One chunk of the output of a process or a query; shouldFlush is the fin flag.
ServerSendsData ==
  \E payload \in Chunks, fin \in BOOLEAN :
    /\ kind \in {"mirror", "request"} /\ sent < MaxReplies /\ sent' = sent + 1
    /\ replies' = Append(replies, [type |-> "data", fin |-> fin, payload |-> payload])
    /\ partial' = IF fin THEN <<>> ELSE partial \o payload
    /\ whole' = IF fin THEN Append(whole, [type |-> "data", payload |-> partial \o payload])
                ELSE whole
    /\ UNCHANGED <<requestVars, bufs, msgs, popped, result, kind>>

\* Credentials, or a message of a later protocol, which the client cannot read.
ServerSendsOther ==
  \E type \in {"credentials", "future"} :
    /\ kind \in {"mirror", "request"} /\ sent < MaxReplies /\ sent' = sent + 1
    /\ replies' = Append(replies, [type |-> type])
    /\ whole' = Append(whole, [type |-> type])
    /\ UNCHANGED <<requestVars, partial, bufs, msgs, popped, result, kind>>

\* ProtoMsgDecoder.push: the buffers and the stack of messages after one chunk.
PushedBufsKept(m) == IF m.type = "data" THEN Append(bufs, m.payload) ELSE bufs
PushedBufs(m) ==
  CASE m.type # "data" -> bufs
    [] m.type = "data" /\ m.fin -> <<>>
    [] OTHER -> Append(bufs, m.payload)
PushedMsgs(m) ==
  CASE m.type # "data" -> Append(msgs, [type |-> m.type])
    [] m.type = "data" /\ m.fin ->
         Append(msgs, [type |-> "data", payload |-> FlattenSeq(Append(bufs, m.payload))])
    [] OTHER -> msgs

\* onData of a mirror's streams: push, and pop at once when a message is ready.
MirrorHears ==
  /\ kind = "mirror" /\ replies # <<>> /\ replies' = Tail(replies)
  /\ bufs' = PushedBufs(Head(replies))
  /\ popped' = popped \o PushedMsgs(Head(replies))
  /\ UNCHANGED <<requestVars, whole, partial, msgs, result, kind, sent>>

\* makeRequest: onData only pushes, onClose takes the last message, if any.
RequestHears ==
  /\ kind = "request" /\ replies # <<>> /\ replies' = Tail(replies)
  /\ bufs' = PushedBufs(Head(replies)) /\ msgs' = PushedMsgs(Head(replies))
  /\ UNCHANGED <<requestVars, whole, partial, popped, result, kind, sent>>

FirstMessage == Head(msgs)
LastMessage == Last(msgs)

\* The methods of the remote database and what each makes of its answer: exec and
\* the schemas want data, the others credentials; all else is an exception.
Thrown == [type |-> "thrown"]
StringMethods == {"exec", "tableSchema", "viewSchema", "schema"}
CredentialMethods == {"createDatabase", "createUser"}
ServerMethods == StringMethods \cup CredentialMethods
strictCastData(m) == IF m.type = "data" THEN m ELSE Thrown
strictCastCredentials(m) == IF m.type = "credentials" THEN m ELSE Thrown
makeRequest(method, m) ==
  IF method \in StringMethods THEN strictCastData(m) ELSE strictCastCredentials(m)

\* onClose: the last complete message of what arrived, if any.
OnClose ==
  /\ popped' = <<IF msgs = <<>> THEN NoMessage ELSE LastMessage>>
  /\ \E method \in ServerMethods : result' = makeRequest(method, popped'[1])
  /\ msgs' = IF msgs = <<>> THEN msgs ELSE Front(msgs)
  /\ UNCHANGED <<requestVars, whole, partial, bufs, sent>>

\* The close of the server comes behind all it sent.
RequestCloses ==
  /\ kind = "request" /\ replies = <<>>
  /\ kind' = "closed"
  /\ OnClose /\ UNCHANGED replies

\* The socket is lost: onSocketClose calls the same onClose, and the chunks in
\* flight never arrive.
RequestCut ==
  /\ kind = "request"
  /\ kind' = "cut"
  /\ OnClose /\ replies' = <<>>

\* onError: the promise is rejected, whatever arrived.
RequestReset ==
  /\ kind = "request"
  /\ kind' = "reset" /\ result' = Thrown /\ replies' = <<>>
  /\ UNCHANGED <<requestVars, whole, partial, bufs, msgs, popped, sent>>
-----------------------------------------------------------------------------
Init ==
  /\ request = NoMessage /\ wire = <<>> /\ got = NoMessage
  /\ replies = <<>> /\ whole = <<>> /\ partial = <<>>
  /\ bufs = <<>> /\ msgs = <<>> /\ popped = <<>> /\ result = NoMessage /\ sent = 0
  /\ kind \in {"asking", "mirror", "request"}

RequestStep == SendRequest \/ ServerDecodes
ReplyStep ==
  \/ ServerSendsData \/ ServerSendsOther
  \/ MirrorHears \/ RequestHears
  \/ RequestCloses \/ RequestCut \/ RequestReset
Next == RequestStep \/ ReplyStep
Spec == Init /\ [][Next]_vars
-----------------------------------------------------------------------------
\* The texts a request carries with a 16-bit length.
TextsOf(m) ==
  CASE m.type = "schema" -> {m.name, m.suffix}
    [] m.type = "tail" -> {m.table, m.expectedColumns, m.filterExpr, m.params}
    [] m.type = "tailBatch" -> UNION {{r.table, r.expectedColumns, r.filterExpr, r.params} :
                                      r \in {m.requests[i] : i \in DOMAIN m.requests}}
    [] m.type = "pushPromise" -> {m.schemas}
    [] m.type = "createDatabase" -> {m.name}
    [] OTHER -> {}
TooLong(m) == m.type = "query" /\ Len(m.query) > MaxQuery
Fits(m) == ~TooLong(m) /\ \A t \in TextsOf(m) : Len(t) < ShortMod \div 2

\* What is left of a text whose length was written modulo 2^16.
Cut(text) == SubSeq(text, 1, Len(text) % ShortMod)

\* The server reads the request the client wrote, field by field, as long as
\* a query is not above MAX_QUERY_LENGTH and every other length is below 2^15.
\* Above, decodeProtoMsg takes the length for a negative number: the request is
\* refused (the ByteArray of a negative size), but a schema query for a name of
\* such a length becomes one for all tables.  From 2^16 on encodeProtoMsg has
\* cut the length: a database is created, or schemas are promised, under what
\* is left of the text, unless that too is refused.
RequestUnderstood ==
  got # NoMessage =>
    /\ Fits(request) => got = request
    /\ TooLong(request) => got = Refused
    /\ (~Fits(request) /\ request.type # "schema"
          /\ \A t \in TextsOf(request) : Len(t) < ShortMod) => got = Refused
    /\ (request.type = "schema" /\ Len(request.name) \in (ShortMod \div 2)..(ShortMod - 1)) =>
         got = [request EXCEPT !.name = <<>>, !.suffix = <<>>]
    /\ request.type = "createDatabase" =>
         got \in {Refused, [request EXCEPT !.name = Cut(@)]}
    /\ request.type = "pushPromise" =>
         got \in {Refused, [request EXCEPT !.schemas = Cut(@)]}

\* ProtoMsgDecoder gives back the messages the server meant, whatever the way
\* they were cut into chunks and whatever came between the chunks.
Reassembled == kind = "mirror" => IsPrefix(popped, whole)

\* makeRequest resolves with the last complete message of the answer when the
\* server closed the stream, and with null if there was none.  When the socket
\* was lost it is one of the complete messages, the last that arrived, or null,
\* and never what was put together of a message that was cut.  A method returns
\* that message or throws, whatever the server sent.
AnswerIsLast ==
  /\ kind = "closed" => popped = <<IF whole = <<>> THEN NoMessage ELSE Last(whole)>>
  /\ kind = "cut" => \/ popped = <<NoMessage>>
                     \/ Len(msgs) < Len(whole) /\ popped = <<whole[Len(msgs) + 1]>>
  /\ kind \in {"closed", "cut"} =>
       result \in {popped[1], Thrown} \ {NoMessage, [type |-> "future"]}
=============================================================================
