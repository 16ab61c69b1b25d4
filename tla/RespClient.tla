------------------------------ MODULE RespClient ------------------------------
(* One command over one connection to Redis, as every prototype sends it: with *)
(* AUTH and SELECT before it where the client is configured so, and replies    *)
(* read off a stream of bytes that the network cuts anywhere.  The Node client *)
(* writes all its commands at once and parses its buffer anew on every chunk;  *)
(* the readers (Python, JAX, Julia, Go) send a command when they have read the *)
(* reply before it.  Of integers and arrays no prototype asks; the commands'   *)
(* own bytes are left out.                                                     *)
EXTENDS Naturals, SequencesExt

CONSTANTS Bytes,    \* those of the replies and of the values
          Payloads  \* what a key may hold

ASSUME RespAssumption ==
  /\ {"+", "-", "$", "t", "\r", "\n"} \subseteq Bytes
  /\ {"0", "1", "2", "3", "4", "5", "6", "7", "8", "9"} \subseteq Bytes
  /\ Payloads \subseteq Seq(Bytes)

VARIABLES setup,     \* what the client is configured with and what Redis accepts
          sent,      \* how many commands the client has written
          replies,   \* what Redis has replied
          database,  \* the connection's: authenticated, and where it writes
          delivered, \* how many bytes have reached the client
          taken,     \* how many replies the client has parsed, and up to where
          outcome,   \* what the command returned
          written    \* the databases a SET took effect in

respVars == <<setup, sent, replies, database, delivered, taken, outcome, written>>

CRLF == <<"\r", "\n">>
Digits == <<"0", "1", "2", "3", "4", "5", "6", "7", "8", "9">>

Status == [kind |-> "status", data |-> <<"t">>]
Refusal == [kind |-> "error", data |-> <<"t">>]
Missed == [kind |-> "nil", data |-> <<>>]
Bulk(payload) == [kind |-> "bulk", data |-> payload]

Waiting == [kind |-> "waiting"]
Failed == [kind |-> "failed"]
Returned(reply) == [kind |-> IF reply.kind = "error" THEN "refused" ELSE "answered",
                    reply |-> reply]

Setups ==
  [client : {"node", "reader"}, commands : {<<>>, <<"AUTH">>, <<"SELECT">>, <<"AUTH", "SELECT">>},
   command : {"GET", "SET"}, accepts : SUBSET {"AUTH", "SELECT"}, open : BOOLEAN,
   value : {Missed} \union {Bulk(payload) : payload \in Payloads}]

Commands == Append(setup.commands, setup.command)

-----------------------------------------------------------------------------
(* Redis: it executes what was sent in its order, whether or not the client    *)
(* still listens, and refuses what is not allowed.                             *)

Reply(command) ==
  IF \/ command # "AUTH" /\ ~setup.open /\ ~database.authenticated
     \/ command \in {"AUTH", "SELECT"} \ setup.accepts
  THEN Refusal
  ELSE IF command = "GET" THEN setup.value ELSE Status

Execute ==
  /\ Len(replies) < sent
  /\ LET command == Commands[Len(replies) + 1]
         reply == Reply(command)
         done == reply.kind # "error"
     IN /\ replies' = Append(replies, reply)
        /\ database' = [authenticated |-> database.authenticated \/ (command = "AUTH" /\ done),
                        number |-> IF command = "SELECT" /\ done THEN "asked"
                                   ELSE database.number]
        /\ written' = IF command = "SET" /\ done THEN written \union {database.number}
                      ELSE written
  /\ UNCHANGED <<setup, sent, delivered, taken, outcome>>

\* A number without its last so many digits, and its digits.
Leading(number, count) ==
  LET leading[k \in Nat] == IF k = 0 THEN number ELSE leading[k - 1] \div 10
  IN leading[count]

Decimal(number) ==
  LET width == Min({k \in 1..(number + 1) : Leading(number, k) = 0})
  IN [i \in 1..width |-> Digits[(Leading(number, width - i) % 10) + 1]]

Encode(reply) ==
  CASE reply.kind = "status" -> <<"+">> \o reply.data \o CRLF
    [] reply.kind = "error" -> <<"-">> \o reply.data \o CRLF
    [] reply.kind = "nil" -> <<"$", "-", "1">> \o CRLF
    [] reply.kind = "bulk" ->
         <<"$">> \o Decimal(Len(reply.data)) \o CRLF \o reply.data \o CRLF

\* One after the other the bytes of at most three replies.
Part(sequence, i) == IF i \in DOMAIN sequence THEN Encode(sequence[i]) ELSE <<>>
Stream(sequence) == Part(sequence, 1) \o Part(sequence, 2) \o Part(sequence, 3)

-----------------------------------------------------------------------------
(* The client.                                                                 *)

Incomplete == [reply |-> Missed, next |-> 0]

\* What is left of the line that starts at a place of the buffer, if it has ended.
LineEnds(buffer, at) == {i \in at..(Len(buffer) - 1) : SubSeq(buffer, i, i + 1) = CRLF}

\* The number that the digits of a header denote.
Digit(byte) == CHOOSE d \in 0..9 : Digits[d + 1] = byte

Size(header) ==
  LET value[k \in 0..Len(header)] ==
        IF k = 0 THEN 0 ELSE 10 * value[k - 1] + Digit(header[k])
  IN value[Len(header)]

Sized(buffer, start, size) ==
  IF Len(buffer) < start + size + 1 THEN Incomplete
  ELSE [reply |-> Bulk(SubSeq(buffer, start, start + size - 1)), next |-> start + size + 2]

\* What a header line announces, which ends before a place of the buffer.
Decoded(buffer, prefix, header, start) ==
  CASE prefix = "+" -> [reply |-> [kind |-> "status", data |-> header], next |-> start]
    [] prefix = "-" -> [reply |-> [kind |-> "error", data |-> header], next |-> start]
    [] prefix = "$" /\ header = <<"-", "1">> -> [reply |-> Missed, next |-> start]
    [] prefix = "$" /\ header # <<"-", "1">> -> Sized(buffer, start, Size(header))

\* The reply at a place of the buffer and the place after it.
ParseResp(buffer, at) ==
  IF at > Len(buffer) \/ LineEnds(buffer, at) = {} THEN Incomplete
  ELSE LET end == Min(LineEnds(buffer, at))
       IN Decoded(buffer, buffer[at], SubSeq(buffer, at + 1, end - 1), end + 2)

\* One round of the loop over the replies.
Take(state, buffer) ==
  LET parsed == ParseResp(buffer, state.next)
      count == state.count + 1
  IN IF state.outcome # Waiting \/ parsed = Incomplete THEN state
     ELSE [count |-> count, next |-> parsed.next,
           outcome |-> IF parsed.reply.kind = "error" \/ count = Len(Commands)
                       THEN Returned(parsed.reply) ELSE Waiting]

\* Mutant of Sent: the readers write their commands at once.
SentAhead(count) == Len(Commands)

\* How many commands a client has written that has read so many replies.
Sent(count) == IF setup.client = "node" THEN Len(Commands) ELSE count + 1

\* The next bytes reach the client, which takes what replies it can.
Arrive ==
  /\ outcome = Waiting
  /\ \E n \in (delivered + 1)..Len(Stream(replies)) :
       LET buffer == SubSeq(Stream(replies), 1, n)
           before == [count |-> taken.count, next |-> taken.next, outcome |-> Waiting]
           state == Take(Take(Take(before, buffer), buffer), buffer)
       IN /\ delivered' = n
          /\ taken' = [count |-> state.count, next |-> state.next]
          /\ outcome' = state.outcome
          /\ sent' = IF state.outcome = Waiting THEN Sent(state.count) ELSE sent
  /\ UNCHANGED <<setup, replies, database, written>>

\* Mutant of ReadEnded: nobody compares the length of the data with the header's.
ReadEndedShort(buffer) ==
  LET ends == LineEnds(buffer, taken.next)
  IN IF ends # {} THEN Returned(Bulk(SubSeq(buffer, Min(ends) + 2, Len(buffer)))) ELSE Failed

\* The end of the stream within a reply: an empty prefix, a line without its
\* end, and data or a trailer that is too short are errors.
ReadEnded(buffer) == Failed

\* Redis or the network ends the connection.  The Node client listens to errors,
\* not to the end.
Disconnect ==
  /\ outcome = Waiting
  /\ outcome' \in IF setup.client = "node" THEN {Failed, [kind |-> "forgotten"]}
                  ELSE {ReadEnded(SubSeq(Stream(replies), 1, delivered))}
  /\ UNCHANGED <<setup, sent, replies, database, delivered, taken, written>>

\* The socket's timeout or the context's deadline.
TimeOut ==
  /\ outcome = Waiting /\ outcome' = Failed
  /\ UNCHANGED <<setup, sent, replies, database, delivered, taken, written>>

-----------------------------------------------------------------------------
RespInit ==
  /\ setup \in Setups /\ (setup.command = "SET" => setup.value = Missed)
  /\ sent = Sent(0) /\ replies = <<>>
  /\ database = [authenticated |-> FALSE, number |-> "default"]
  /\ delivered = 0 /\ taken = [count |-> 0, next |-> 1]
  /\ outcome = Waiting /\ written = {}

RespNext == Execute \/ Arrive \/ Disconnect \/ TimeOut

RespSpec == RespInit /\ [][RespNext]_respVars

-----------------------------------------------------------------------------
Accepted(count) == \A i \in 1..count : replies[i].kind # "error"

\* However the bytes are cut, and whatever a value holds that looks like a reply:
\* a client returns the last reply when all before it were accepted, or the first
\* refusal, never a part of one; and a client that waits is owed bytes.
AnswersAreReplies ==
  /\ outcome.kind = "answered" =>
       /\ Len(replies) = Len(Commands) /\ Accepted(Len(replies))
       /\ outcome.reply = Last(replies)
  /\ outcome.kind = "refused" =>
       \E i \in DOMAIN replies : Accepted(i - 1) /\ replies[i] = outcome.reply
  /\ (outcome = Waiting /\ taken.count < Len(replies)) =>
       Len(Stream(SubSeq(replies, 1, taken.count + 1))) > delivered

\* A reader's SET takes effect in the database it is configured with or nowhere,
\* whatever Redis refuses, late effects included.  The Node client has sent its
\* SET before it reads that its SELECT was refused.
WritesWhereAsked ==
  setup.client = "reader" =>
    written \subseteq {IF "SELECT" \in ToSet(setup.commands) THEN "asked" ELSE "default"}
=============================================================================
