----------------------------- MODULE OllamaChat -----------------------------
(***************************************************************************)
(* OllamaBackend::chat (src/src/model/ollama/ollama_backend.cpp) with the  *)
(* stream parser it uses (stream_parser.cpp): one exchange with the model  *)
(* server.  The answer is a body of JSON lines.  libcurl hands it over in  *)
(* pieces cut anywhere; a streaming exchange parses the lines as they      *)
(* complete, any other parses the body when it is all there.               *)
(*                                                                         *)
(* A line is two halves, so that a piece can end inside it, and a newline, *)
(* which the last line may lack.  A line of kind "delta" carries text or   *)
(* tool calls, "done" text and the token usage, "error" is an object with  *)
(* neither, "junk" is no JSON object.                                      *)
(***************************************************************************)
EXTENDS Naturals, Sequences, SequencesExt

CONSTANT MaxLines   \* bounds the lines of a body

ASSUME MaxLinesAssumption == MaxLines \in Nat

Kind == {"delta", "done", "error", "junk"}
Line == 1..MaxLines
Byte == [line : Line, part : {"first", "second", "newline"}]

VARIABLES mode,      \* "plain", "stream", or "callback": with a StreamCallback
          lines,     \* the lines the server sends
          tail,      \* the last line: "newline", "whole" or "cut" in two
          sent,      \* bytes of it libcurl has handed over
          pc,        \* where chat is
          buffered,  \* chat's buffered
          body,      \* perform_post's response_body
          chunks,    \* the chunks parsed
          seen       \* the chunks the StreamCallback was given

chatVars == <<mode, lines, tail, sent, pc, buffered, body, chunks, seen>>
exchange == <<mode, lines, tail>>

PC == {"transfer", "on_data", "answered", "returned", "threw"}

-----------------------------------------------------------------------------
(* The body and what the parser makes of it.                               *)

Part(i, part) == [line |-> i, part |-> part]

BytesOf(i) ==
  LET last == i = Len(lines)
  IN  <<Part(i, "first")>>
        \o (IF last /\ tail = "cut" THEN <<>> ELSE <<Part(i, "second")>>)
        \o (IF last /\ tail # "newline" THEN <<>> ELSE <<Part(i, "newline")>>)

Body == FlattenSeq([i \in 1..Len(lines) |-> BytesOf(i)])

\* parse_stream_line on a whole line of a JSON object: its number.  Anything
\* else gives no chunk.
ParseStreamLine(text) ==
  IF /\ Len(text) = 2
     /\ text[1].line = text[2].line
     /\ lines[text[1].line] # "junk"
  THEN <<text[1].line>> ELSE <<>>

IsNewline(byte) == byte.part = "newline"
NewlineAt(bytes) == SelectInSeq(bytes, IsNewline)   \* 0: no newline yet

\* parse_stream: the chunks of a text, one line at a time.
ParseStream(bytes) ==
  LET Starts(i) == i = 1 \/ IsNewline(bytes[i - 1])
      LineFrom(i) ==
        LET rest == SubSeq(bytes, i, Len(bytes))
        IN  SubSeq(rest, 1, IF NewlineAt(rest) = 0 THEN Len(rest)
                            ELSE NewlineAt(rest) - 1)
  IN  FlattenSeq([i \in 1..Len(bytes) |->
                    IF Starts(i) THEN ParseStreamLine(LineFrom(i)) ELSE <<>>])

\* aggregate_chunks: the texts and calls in order, the last usage given.
AggregateChunks(parsed) ==
  LET HasContent(i) == lines[i] \in {"delta", "done"}
      HasUsage(i) == lines[i] = "done"
      usages == SelectSeq(parsed, HasUsage)
  IN  [content |-> SelectSeq(parsed, HasContent),
       usage |-> IF usages = <<>> THEN 0 ELSE Last(usages)]

-----------------------------------------------------------------------------
Streaming == mode # "plain"

ChatInit ==
  /\ mode \in {"plain", "stream", "callback"}
  /\ lines \in UNION {[1..n -> Kind] : n \in 0..MaxLines}
  /\ tail \in {"newline", "whole", "cut"}
  /\ lines = <<>> => tail = "newline"
  /\ sent = 0
  /\ pc = "transfer"
  /\ buffered = <<>> /\ body = <<>> /\ chunks = <<>> /\ seen = <<>>

\* libcurl has a piece of the body: stream_callback or write_callback.
Deliver ==
  /\ pc = "transfer"
  /\ \E upto \in (sent + 1)..Len(Body) :
       LET piece == SubSeq(Body, sent + 1, upto)
       IN  /\ sent' = upto
           /\ IF Streaming
              THEN /\ buffered' = buffered \o piece
                   /\ pc' = "on_data"
                   /\ UNCHANGED body
              ELSE /\ body' = body \o piece
                   /\ UNCHANGED <<pc, buffered>>
  /\ UNCHANGED <<exchange, chunks, seen>>

Keep(parsed) ==
  /\ chunks' = chunks \o parsed
  /\ seen' = IF mode = "callback" THEN seen \o parsed ELSE seen

\* mutant: the rest of the piece goes with the line.
TakeLineClearsBuffer ==
  /\ Keep(ParseStreamLine(SubSeq(buffered, 1, NewlineAt(buffered) - 1)))
  /\ buffered' = <<>>

\* on_data: one turn of its loop.
TakeLine ==
  LET end == NewlineAt(buffered)
  IN  /\ Keep(ParseStreamLine(SubSeq(buffered, 1, end - 1)))
      /\ buffered' = SubSeq(buffered, end + 1, Len(buffered))

OnData ==
  /\ pc = "on_data" /\ NewlineAt(buffered) # 0
  /\ TakeLine
  /\ UNCHANGED <<exchange, sent, pc, body>>

\* mutant: on_data takes one line of a piece.
DataTakenEarly ==
  /\ pc = "on_data"
  /\ pc' = "transfer"
  /\ UNCHANGED <<exchange, sent, buffered, body, chunks, seen>>

DataTaken ==
  /\ pc = "on_data" /\ NewlineAt(buffered) = 0
  /\ pc' = "transfer"
  /\ UNCHANGED <<exchange, sent, buffered, body, chunks, seen>>

\* The transfer breaks off, or ends with a status outside 200..299: chat
\* throws, after whatever the callback has already been given.
ExchangeFails ==
  /\ pc = "transfer"
  /\ pc' = "threw"
  /\ UNCHANGED <<exchange, sent, buffered, body, chunks, seen>>

ExchangeEnds ==
  /\ pc = "transfer" /\ sent = Len(Body)
  /\ pc' = "answered"
  /\ UNCHANGED <<exchange, sent, buffered, body, chunks, seen>>

\* What no newline completed: the body when nothing was parsed, which is
\* empty in a streaming exchange, and otherwise the rest of the buffer.
FinishParsing ==
  Keep(IF chunks = <<>> THEN ParseStream(body) ELSE ParseStreamLine(buffered))

Return ==
  /\ pc = "answered"
  /\ FinishParsing
  /\ pc' = "returned"
  /\ UNCHANGED <<exchange, sent, buffered, body>>

ChatNext ==
  \/ Deliver \/ OnData \/ DataTaken
  \/ ExchangeFails \/ ExchangeEnds \/ Return

ChatSpec == ChatInit /\ [][ChatNext]_chatVars

-----------------------------------------------------------------------------
(* Properties.                                                             *)

\* Every variable keeps its type; only a streaming exchange uses chat's
\* buffer, only a plain one the transport's body, and between pieces the
\* buffer holds no finished line.
ChatTypeOK ==
  /\ mode \in {"plain", "stream", "callback"}
  /\ lines \in Seq(Kind) /\ Len(lines) <= MaxLines
  /\ tail \in {"newline", "whole", "cut"}
  /\ sent \in 0..Len(Body)
  /\ pc \in PC
  /\ buffered \in Seq(Byte) /\ body \in Seq(Byte)
  /\ chunks \in Seq(Line) /\ seen \in Seq(Line)
  /\ Streaming => body = <<>>
  /\ ~Streaming => buffered = <<>> /\ pc # "on_data"
  /\ pc = "transfer" => NewlineAt(buffered) = 0

\* The lines with a JSON object among the first n, in order, leaving out a
\* last one cut in two.
Objects(n) ==
  LET IsObject(i) == lines[i] # "junk" /\ ~(i = Len(lines) /\ tail = "cut")
  IN  FlattenSeq([i \in 1..n |-> IF IsObject(i) THEN <<i>> ELSE <<>>])

\* However libcurl cuts the body, and in every mode, the answer is made of
\* all its JSON objects, each once and in order, with the last usage among
\* them: except that a streaming exchange in which no line was complete
\* before the end loses an unterminated last line, since chat then parses
\* the transport's body, which streaming leaves empty. The callback is given
\* what the answer is made of: at the return exactly its chunks, and when
\* chat throws the chunks of the lines that had arrived, none twice.
PiecesDoNotMatter ==
  /\ pc = "returned" =>
       LET complete == Objects(Len(lines) - (IF tail = "newline" THEN 0 ELSE 1))
           objects == IF Streaming /\ complete = <<>> THEN <<>>
                      ELSE Objects(Len(lines))
       IN  AggregateChunks(chunks) = AggregateChunks(objects)
  /\ mode = "callback" /\ pc = "returned" => seen = chunks
  /\ mode = "callback" /\ pc = "threw" => IsPrefix(seen, Objects(Len(lines)))
=============================================================================
