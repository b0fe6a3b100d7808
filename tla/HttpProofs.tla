----------------------------- MODULE HttpProofs -----------------------------
(***************************************************************************)
(* The two services that answer HTTP requests of readers.                  *)
(*                                                                         *)
(* The server (HttpServer!AnswersFollowLog): what the GETs of a client add *)
(* up to, for any number of clients, lives of the path, cached answers,    *)
(* stops and faults.  The invariant says of every client how far its       *)
(* messages reach in the stream that is there, and of every answer in the  *)
(* cache which messages it carries, and for which offset.                  *)
(*                                                                         *)
(* The proxy (Proxy!StoredIsPrefix): what a proxied stream holds is a      *)
(* prefix of the upstream body, for every number of callers, streams,      *)
(* chunks and faults.  The invariant says where the chunks of a pipe are:  *)
(* while the pipe may still store something, what is stored and what it    *)
(* has gathered make up the chunks read so far; once a batch is given up   *)
(* nothing is gathered, and the steps that are left store nothing.         *)
(***************************************************************************)
EXTENDS HttpServer, Proxy, TLAPS

(* The server *)

MessageId == Nat \X Nat
HttpOffset == Nat \cup {FromBegin, FromNow}
LifeType == [len : Nat, closed : BOOLEAN]
StreamSeen == [life : Nat, len : Nat, closed : BOOLEAN]
AgentType ==
  [state : {"idle", "waiting", "hung", "over"}, off : HttpOffset, at : Nat, cursor : Nat,
   got : Seq(MessageId), eof : Nat, copy : StreamSeen, truth : StreamSeen]
AnswerType == [msgs : Seq(MessageId), off : Nat, cursor : Nat, eof : Nat]
EntryType == [off : HttpOffset, cursor : Nat, answer : AnswerType]

HttpTypeOK ==
  /\ httpSetup \in HttpSetup /\ lives \in Seq(LifeType) /\ exists \in BOOLEAN
  /\ agents \in [HttpClients -> AgentType] /\ edge \subseteq EntryType /\ interval \in Nat
  /\ exists => Len(lives) > 0

\* messages of one stream follow one another
Consecutive(g) == \A k \in 2 .. Len(g) : g[k][1] = g[k - 1][1] => g[k][2] = g[k - 1][2] + 1

\* the messages of the last stream in L lead to the offset
LeadsTo(g, off, L) ==
  Len(g) > 0 =>
    /\ g[Len(g)][1] \in 1 .. Len(L) /\ off \in Nat
    /\ g[Len(g)][1] = Len(L) => off = g[Len(g)][2] /\ off <= L[Len(L)].len

\* Stream-Closed came from a closed stream, and with the last of its messages
EofFits(e, g, L) ==
  e # 0 => /\ e \in 1 .. Len(L) /\ L[e].closed
           /\ Len(g) > 0 /\ g[Len(g)][1] = e => g[Len(g)][2] = L[e].len

\* a client that began at the first message has it, or has none
FromFirst(e, g, off, L) ==
  IF Len(g) = 0 THEN off \in {FromBegin, 0} /\ (e # 0 => L[e].len = 0) ELSE g[1][2] = 1

AgentFits(a, mode, from, L) ==
  /\ a.state = "waiting" => /\ mode # "conditional"
                            /\ a.at = L[Len(L)].len /\ ~L[Len(L)].closed
  /\ a.eof # 0 => a.state = "over"
  /\ mode = "sse" \/ Len(L) <= 1 =>
       /\ Consecutive(a.got) /\ LeadsTo(a.got, a.off, L) /\ EofFits(a.eof, a.got, L)
       /\ a.state = "waiting" => a.off \in {a.at, FromNow}
  /\ Len(L) <= 1 => /\ a.off \in Nat => Len(L) > 0 /\ a.off <= L[Len(L)].len
                    /\ from = FromBegin => FromFirst(a.eof, a.got, a.off, L)

\* an answer carries the messages after f of a stream
Carries(ans, life, f) ==
  /\ \A k \in 1 .. Len(ans.msgs) : ans.msgs[k][1] = life /\ ans.msgs[k][2] = f + k
  /\ ans.off = f + Len(ans.msgs)

\* f is where a request for an offset begins
BeginsAt(off, f) == (off \in Nat => f = off) /\ (off = FromBegin => f = 0)

EndsRight(ans, life, s) ==
  /\ ans.off <= s.len
  /\ ans.eof # 0 => ans.eof = life /\ s.closed /\ ans.off = s.len

EntryFits(e, L) ==
  Len(L) <= 1 =>
    /\ Len(L) = 1 /\ EndsRight(e.answer, 1, L[1])
    /\ \E f \in Nat : Carries(e.answer, 1, f) /\ BeginsAt(e.off, f)

CopyFits(a) == a.copy.life = a.truth.life => a.copy = a.truth

HttpInv ==
  /\ HttpTypeOK
  /\ \A c \in HttpClients : AgentFits(agents[c], Mode(c), StartOffset(c), lives)
  /\ \A c \in HttpClients : agents[c].state = "waiting" => exists
  /\ \A c \in HttpClients : CopyFits(agents[c])
  /\ \A e \in edge : EntryFits(e, lives)

-----------------------------------------------------------------------------
(* Answers *)

LEMMA ReadFacts ==
  ASSUME NEW s \in StreamSeen, NEW start \in Nat,
         NEW off, off = start \/ (off = FromBegin /\ start = 0)
  PROVE  /\ ReadFrom(s, off) \in Seq(MessageId)
         /\ Len(ReadFrom(s, off)) = IF start < s.len THEN s.len - start ELSE 0
         /\ \A k \in 1 .. Len(ReadFrom(s, off)) :
              ReadFrom(s, off)[k][1] = s.life /\ ReadFrom(s, off)[k][2] = start + k
<1>1. s.len \in Nat /\ s.life \in Nat
  BY DEF StreamSeen
<1>2. PICK n \in Nat : n = IF start < s.len THEN s.len - start ELSE 0
  <2>1. CASE start < s.len
    <3>1. s.len - start \in Nat
      BY <1>1, <2>1
    <3> QED BY <2>1, <3>1
  <2>2. CASE ~(start < s.len)
    BY <2>2
  <2> QED BY <2>1, <2>2
<1>3. PICK m : m = [k \in 1 .. n |-> <<s.life, start + k>>]
  OBVIOUS
<1>4. ReadFrom(s, off) = m
  <2>1. (IF off = FromBegin THEN 0 ELSE off) = start
    BY DEF FromBegin
  <2> QED BY <1>2, <1>3, <2>1 DEF ReadFrom
<1>5. \A k \in 1 .. n : <<s.life, start + k>> \in MessageId
  BY <1>1 DEF MessageId
<1>6. m \in [1 .. n -> MessageId]
  BY <1>3, <1>5
<1>7. m \in Seq(MessageId) /\ Len(m) = n
  BY <1>6
<1>8. \A k \in 1 .. n : m[k] = <<s.life, start + k>>
  BY <1>3
<1>9. \A k \in 1 .. Len(m) : m[k][1] = s.life /\ m[k][2] = start + k
  BY <1>1, <1>7, <1>8
<1> QED BY <1>2, <1>4, <1>7, <1>9

\* The answer with what is after an offset: it leads to the end of the stream.
LEMMA ReadAnswers ==
  ASSUME NEW s \in StreamSeen, NEW start \in Nat, NEW cursor \in Nat,
         NEW off, off = start \/ (off = FromBegin /\ start = 0),
         NEW ans, ans = ReadResponse(s, ReadFrom(s, off), cursor)
  PROVE  /\ ans \in AnswerType /\ ans.off = s.len /\ ans.cursor = cursor
         /\ ans.eof = IF s.closed THEN s.life ELSE 0
         /\ Carries(ans, s.life, IF start <= s.len THEN start ELSE s.len)
         /\ ans.msgs = ReadFrom(s, off)
<1>1. PICK m : m = ReadFrom(s, off)
  OBVIOUS
<1>2. /\ m \in Seq(MessageId) /\ Len(m) = IF start < s.len THEN s.len - start ELSE 0
      /\ \A k \in 1 .. Len(m) : m[k][1] = s.life /\ m[k][2] = start + k
  BY <1>1, ReadFacts
<1>3. s.len \in Nat /\ s.life \in Nat
  BY DEF StreamSeen
<1>4. (IF m = <<>> THEN s.len ELSE Last(m)[2]) = s.len
  <2>1. CASE start < s.len
    <3>1. PICK n \in Nat : n = s.len - start /\ n > 0 /\ Len(m) = n
      BY <1>2, <1>3, <2>1
    <3>2. m # <<>> /\ Last(m)[2] = start + n
      BY <1>2, <3>1 DEF Last
    <3> QED BY <1>3, <3>1, <3>2
  <2>2. CASE ~(start < s.len)
    <3>1. Len(m) = 0
      BY <1>2, <2>2
    <3>2. m = <<>>
      BY <1>2, <3>1
    <3> QED BY <3>2
  <2> QED BY <2>1, <2>2
<1>5. PICK e \in Nat : e = IF s.closed THEN s.life ELSE 0
  BY <1>3
<1>6. ans = [msgs |-> m, off |-> s.len, cursor |-> cursor, eof |-> e]
  BY <1>1, <1>4, <1>5 DEF ReadResponse, HttpAnswer
<1>7. ans \in AnswerType /\ ans.off = s.len /\ ans.cursor = cursor /\ ans.msgs = m /\ ans.eof = e
  BY <1>2, <1>3, <1>6 DEF AnswerType
<1>8. Carries(ans, s.life, IF start <= s.len THEN start ELSE s.len)
  <2>1. CASE start < s.len
    <3>1. Len(m) = s.len - start /\ s.len = start + Len(m)
      BY <1>2, <1>3, <2>1
    <3>2. Carries(ans, s.life, start)
      BY <1>2, <1>7, <3>1 DEF Carries
    <3>3. (IF start <= s.len THEN start ELSE s.len) = start
      BY <1>3, <2>1
    <3> QED BY <3>2, <3>3
  <2>2. CASE ~(start < s.len)
    <3>1. Len(m) = 0 /\ (IF start <= s.len THEN start ELSE s.len) = s.len
      BY <1>2, <1>3, <2>2
    <3> QED BY <1>3, <1>7, <3>1 DEF Carries
  <2> QED BY <2>1, <2>2
<1> QED BY <1>1, <1>5, <1>7, <1>8

\* An answer without messages.
LEMMA EmptyAnswers ==
  ASSUME NEW off \in Nat, NEW cursor \in Nat, NEW eof \in Nat, NEW life,
         NEW ans, ans = HttpAnswer(<<>>, off, cursor, eof)
  PROVE  ans \in AnswerType /\ ans.off = off /\ ans.eof = eof /\ Carries(ans, life, off)
<1>1. <<>> \in Seq(MessageId) /\ Len(<<>>) = 0
  OBVIOUS
<1>2. PICK m \in Seq(MessageId) : m = <<>> /\ Len(m) = 0
  BY <1>1
<1>3. ans = [msgs |-> m, off |-> off, cursor |-> cursor, eof |-> eof]
  BY <1>2 DEF HttpAnswer
<1>4. PICK r : r = [msgs |-> m, off |-> off, cursor |-> cursor, eof |-> eof]
  OBVIOUS
<1>5. r \in AnswerType /\ r.off = off /\ r.eof = eof /\ r.msgs = m
  BY <1>2, <1>4 DEF AnswerType
<1>6. Carries(r, life, off)
  BY <1>2, <1>5 DEF Carries
<1> QED BY <1>3, <1>4, <1>5, <1>6

LEMMA CursorTyped ==
  ASSUME interval \in Nat, NEW cursor \in Nat, NEW j \in 1 .. MaxJitter
  PROVE  GenerateResponseCursor(cursor, j) \in Nat
BY HttpAssumption DEF GenerateResponseCursor

-----------------------------------------------------------------------------
(* Clients *)

LEMMA Appended ==
  ASSUME NEW S, NEW g \in Seq(S), NEW m \in Seq(S)
  PROVE  /\ g \o m \in Seq(S) /\ Len(g \o m) = Len(g) + Len(m)
         /\ \A i \in 1 .. Len(g) : (g \o m)[i] = g[i]
         /\ \A i \in 1 .. Len(m) : (g \o m)[Len(g) + i] = m[i]
OBVIOUS

LEMMA ReceiveTyped ==
  ASSUME NEW a \in AgentType, NEW ans \in AnswerType
  PROVE  LET b == Receive(a, ans)
         IN /\ b \in AgentType /\ b.got = a.got \o ans.msgs /\ b.off = ans.off /\ b.eof = ans.eof
            /\ b.state = (IF ans.eof # 0 THEN "over" ELSE "idle") /\ b.at = a.at
            /\ b.copy = a.copy /\ b.truth = a.truth
<1>1. a.got \in Seq(MessageId) /\ ans.msgs \in Seq(MessageId)
  BY DEF AgentType, AnswerType
<1>2. a.got \o ans.msgs \in Seq(MessageId)
  BY <1>1, Appended
<1>3. ans.off \in HttpOffset /\ ans.eof \in Nat /\ ans.cursor \in Nat /\ a.cursor \in Nat
  BY DEF AnswerType, AgentType, HttpOffset
<1>4. PICK st \in {"over", "idle"} : st = IF ans.eof # 0 THEN "over" ELSE "idle"
  OBVIOUS
<1>5. PICK cu \in Nat : cu = IF ans.cursor = 0 THEN a.cursor ELSE ans.cursor
  BY <1>3
<1>6. Receive(a, ans) = [a EXCEPT !.got = a.got \o ans.msgs, !.off = ans.off, !.cursor = cu,
                                  !.eof = ans.eof, !.state = st]
  BY <1>4, <1>5 DEF Receive
<1> QED BY <1>2, <1>3, <1>4, <1>5, <1>6 DEF AgentType

\* The client goes on from where it was.
LEMMA ReceiveFits ==
  ASSUME NEW a \in AgentType, NEW ans \in AnswerType, NEW mode, NEW from, NEW L \in Seq(LifeType),
         Len(L) > 0, AgentFits(a, mode, from, L), a.eof = 0, NEW f \in Nat,
         Carries(ans, Len(L), f), EndsRight(ans, Len(L), L[Len(L)]),
         BeginsAt(a.off, f) \/ (a.off \in Nat /\ a.off > L[Len(L)].len)
  PROVE  AgentFits(Receive(a, ans), mode, from, L)
<1>1. PICK b : b = Receive(a, ans)
  OBVIOUS
<1>2. /\ b \in AgentType /\ b.got = a.got \o ans.msgs /\ b.off = ans.off /\ b.eof = ans.eof
      /\ b.state = (IF ans.eof # 0 THEN "over" ELSE "idle")
  BY <1>1, ReceiveTyped
<1>3. PICK g \in Seq(MessageId) : g = a.got
  BY DEF AgentType
<1>4. PICK m \in Seq(MessageId) : m = ans.msgs
  BY DEF AnswerType
<1>5. PICK h \in Seq(MessageId) : h = b.got
  BY <1>2 DEF AgentType
<1>6. PICK n \in Nat : n = Len(g)
  OBVIOUS
<1>7. PICK k \in Nat : k = Len(m)
  OBVIOUS
<1>8. PICK l \in Nat \ {0} : l = Len(L)
  <2>1. Len(L) \in Nat
    OBVIOUS
  <2> QED BY <2>1
<1>9. L[l] \in LifeType /\ L[l].len \in Nat
  <2>1. l \in 1 .. Len(L)
    BY <1>8
  <2>2. L[l] \in LifeType
    BY <2>1
  <2> QED BY <2>2 DEF LifeType
<1>10. PICK z \in Nat : z = L[l].len
  BY <1>9
<1>11. /\ Len(h) = n + k /\ \A i \in 1 .. n : h[i] = g[i]
       /\ \A i \in 1 .. k : h[n + i][1] = l /\ h[n + i][2] = f + i
  <2>1. h = g \o m
    BY <1>2, <1>3, <1>4, <1>5
  <2>2. \A i \in 1 .. k : m[i][1] = l /\ m[i][2] = f + i
    BY <1>4, <1>7, <1>8 DEF Carries
  <2> QED BY <1>6, <1>7, <2>1, <2>2, Appended
<1>12. b.off = f + k /\ b.off \in Nat /\ f + k <= z
  BY <1>2, <1>4, <1>7, <1>8, <1>10 DEF Carries, EndsRight
<1>13. b.eof # 0 => b.eof = l /\ L[l].closed /\ f + k = z
  BY <1>2, <1>8, <1>10, <1>12 DEF EndsRight
<1>14. b.state # "waiting" /\ (b.eof # 0 => b.state = "over")
  BY <1>2
<1>15. ASSUME mode = "sse" \/ Len(L) <= 1
       PROVE  Consecutive(h) /\ LeadsTo(h, b.off, L) /\ EofFits(b.eof, h, L)
  <2>1. Consecutive(g) /\ LeadsTo(g, a.off, L)
    BY <1>3, <1>15 DEF AgentFits
  <2>2. n > 0 => /\ g[n][1] \in 1 .. l
                 /\ g[n][1] = l => a.off = g[n][2] /\ g[n][2] = f
    <3>1. n > 0 => /\ g[n][1] \in 1 .. l /\ a.off \in Nat
                   /\ g[n][1] = l => a.off = g[n][2] /\ a.off <= z
      BY <1>6, <1>8, <1>10, <2>1 DEF LeadsTo
    <3>2. n > 0 /\ g[n][1] = l => BeginsAt(a.off, f)
      BY <1>8, <1>10, <3>1
    <3> QED BY <3>1, <3>2 DEF BeginsAt
  <2>3. Consecutive(h)
    <3>1. SUFFICES ASSUME NEW i \in 2 .. n + k, h[i][1] = h[i - 1][1]
                   PROVE  h[i][2] = h[i - 1][2] + 1
      BY <1>11 DEF Consecutive
    <3>2. CASE i \in 2 .. n
      <4>1. i \in 1 .. n /\ i - 1 \in 1 .. n
        BY <3>2
      <4>2. h[i] = g[i] /\ h[i - 1] = g[i - 1]
        BY <1>11, <4>1
      <4> QED BY <1>6, <2>1, <3>1, <3>2, <4>2 DEF Consecutive
    <3>3. CASE i = n + 1
      <4>1. n > 0 /\ n \in 1 .. n /\ 1 \in 1 .. k /\ i - 1 = n
        BY <3>3
      <4>2. h[i][1] = l /\ h[i][2] = f + 1 /\ h[i - 1] = g[n]
        BY <1>11, <3>3, <4>1
      <4> QED BY <2>2, <3>1, <4>1, <4>2
    <3>4. CASE i \in n + 2 .. n + k
      <4>1. PICK x \in 2 .. k : i = n + x
        <5>1. i - n \in 2 .. k /\ i = n + (i - n)
          BY <3>4
        <5> QED BY <5>1
      <4>2. x \in 1 .. k /\ x - 1 \in 1 .. k /\ i - 1 = n + (x - 1)
        BY <4>1
      <4>3. h[i][2] = f + x /\ h[i - 1][2] = f + (x - 1)
        BY <1>11, <4>1, <4>2
      <4> QED BY <4>1, <4>3
    <3> QED BY <3>1, <3>2, <3>3, <3>4
  <2>4. n + k > 0 => /\ h[n + k][1] \in 1 .. l
                     /\ h[n + k][1] = l => h[n + k][2] = f + k
    <3>1. CASE k > 0
      <4>1. k \in 1 .. k
        BY <3>1
      <4> QED BY <1>8, <1>11, <4>1
    <3>2. CASE k = 0 /\ n > 0
      <4>1. h[n] = g[n] /\ n + k = n
        BY <1>11, <3>2
      <4> QED BY <2>2, <3>2, <4>1
    <3> QED BY <3>1, <3>2
  <2>5. LeadsTo(h, b.off, L)
    BY <1>8, <1>10, <1>11, <1>12, <2>4 DEF LeadsTo
  <2>6. EofFits(b.eof, h, L)
    BY <1>8, <1>10, <1>11, <1>13, <2>4 DEF EofFits
  <2> QED BY <2>3, <2>5, <2>6
<1>16. ASSUME Len(L) <= 1, from = FromBegin
       PROVE  FromFirst(b.eof, h, b.off, L)
  <2>1. FromFirst(a.eof, g, a.off, L) /\ (a.off \in Nat => a.off <= z)
    BY <1>3, <1>8, <1>10, <1>16 DEF AgentFits
  <2>2. BeginsAt(a.off, f)
    BY <1>8, <1>10, <2>1
  <2>3. n = 0 => f = 0
    BY <1>6, <2>1, <2>2 DEF FromFirst, BeginsAt
  <2>4. CASE n > 0
    <3>1. h[1] = g[1] /\ Len(h) # 0
      BY <1>11, <2>4
    <3>2. g[1][2] = 1
      BY <1>6, <2>1, <2>4 DEF FromFirst
    <3> QED BY <3>1, <3>2 DEF FromFirst
  <2>5. CASE n = 0 /\ k > 0
    <3>1. h[n + 1][2] = f + 1 /\ n + 1 = 1 /\ Len(h) # 0
      BY <1>11, <2>5
    <3> QED BY <2>3, <2>5, <3>1 DEF FromFirst
  <2>6. CASE n = 0 /\ k = 0
    <3>1. Len(h) = 0 /\ b.off = 0
      BY <1>11, <1>12, <2>3, <2>6
    <3>2. b.eof # 0 => L[b.eof].len = 0
      BY <1>10, <1>13, <2>3, <2>6
    <3> QED BY <3>1, <3>2 DEF FromFirst
  <2> QED BY <2>4, <2>5, <2>6
<1>17. b.off \in Nat => Len(L) > 0 /\ b.off <= L[Len(L)].len
  BY <1>8, <1>10, <1>12
<1> QED BY <1>1, <1>5, <1>14, <1>15, <1>16, <1>17 DEF AgentFits

\* A long-poll client, once the path has been created again.
LEMMA ReceiveLoose ==
  ASSUME NEW a \in AgentType, NEW ans \in AnswerType, NEW mode, NEW from, NEW L \in Seq(LifeType),
         mode # "sse", Len(L) > 1
  PROVE  AgentFits(Receive(a, ans), mode, from, L)
<1>1. PICK b : b = Receive(a, ans)
  OBVIOUS
<1>2. b.eof = ans.eof /\ b.state = (IF ans.eof # 0 THEN "over" ELSE "idle")
  BY <1>1, ReceiveTyped
<1>3. b.state # "waiting" /\ (b.eof # 0 => b.state = "over")
  BY <1>2
<1>4. ~(mode = "sse" \/ Len(L) <= 1) /\ ~(Len(L) <= 1)
  <2>1. Len(L) \in Nat
    OBVIOUS
  <2> QED BY <2>1
<1> QED BY <1>1, <1>3, <1>4 DEF AgentFits

InState(a, st) == [a EXCEPT !.state = st]
WaitsAt(a, off) == [a EXCEPT !.state = "waiting", !.at = off]

\* A client that no longer waits.
LEMMA StateOnly ==
  ASSUME NEW a \in AgentType, NEW mode, NEW from, NEW L,
         NEW st \in {"idle", "hung", "over"}, AgentFits(a, mode, from, L),
         a.eof # 0 => st = "over", CopyFits(a),
         NEW b, b = InState(a, st)
  PROVE  b \in AgentType /\ AgentFits(b, mode, from, L) /\ CopyFits(b)
<1>1. /\ b \in AgentType /\ b.state = st /\ b.eof = a.eof /\ b.got = a.got /\ b.off = a.off
      /\ b.at = a.at /\ b.copy = a.copy /\ b.truth = a.truth
  BY DEF AgentType, InState, WaitsAt
<1>2. AgentFits(b, mode, from, L)
  BY <1>1 DEF AgentFits
<1> QED BY <1>1, <1>2 DEF CopyFits

\* A client that begins to wait at the end of the stream.
LEMMA WaitFits ==
  ASSUME NEW a \in AgentType, NEW mode, NEW from, NEW L,
         AgentFits(a, mode, from, L), a.eof = 0, mode # "conditional",
         ~L[Len(L)].closed, NEW off \in Nat, off = L[Len(L)].len, a.off \in {off, FromNow},
         CopyFits(a), NEW b, b = WaitsAt(a, off)
  PROVE  b \in AgentType /\ AgentFits(b, mode, from, L) /\ CopyFits(b)
<1>1. /\ b \in AgentType /\ b.state = "waiting" /\ b.eof = a.eof /\ b.got = a.got /\ b.off = a.off
      /\ b.at = off /\ b.copy = a.copy /\ b.truth = a.truth
  BY DEF AgentType, InState, WaitsAt
<1>2. AgentFits(b, mode, from, L)
  BY <1>1 DEF AgentFits
<1> QED BY <1>1, <1>2 DEF CopyFits

-----------------------------------------------------------------------------
(* The stream grows, or is closed *)

Grows(L, s) ==
  /\ Len(L) > 0 /\ s \in StreamSeen /\ s.life = Len(L) /\ s.len >= L[Len(L)].len
  /\ ~L[Len(L)].closed /\ (s.len = L[Len(L)].len => s.closed)

GrownTo(L, s) == [L EXCEPT ![s.life] = [len |-> s.len, closed |-> s.closed]]

LEMMA GrownLives ==
  ASSUME NEW L \in Seq(LifeType), NEW s, Grows(L, s), NEW M, M = GrownTo(L, s)
  PROVE  /\ M \in Seq(LifeType) /\ Len(M) = Len(L)
         /\ M[Len(L)].len = s.len /\ M[Len(L)].closed = s.closed
         /\ \A i \in 1 .. Len(L) : i # Len(L) => M[i] = L[i]
<1>1. [len |-> s.len, closed |-> s.closed] \in LifeType
  BY DEF Grows, StreamSeen, LifeType
<1>2. s.life \in 1 .. Len(L)
  <2>1. Len(L) \in Nat
    OBVIOUS
  <2> QED BY <2>1 DEF Grows
<1>3. PICK r \in LifeType : r = [len |-> s.len, closed |-> s.closed]
  BY <1>1
<1>4. M = [L EXCEPT ![s.life] = r]
  BY <1>3 DEF GrownTo
<1>5. M \in Seq(LifeType) /\ Len(M) = Len(L)
  BY <1>2, <1>4
<1>6. M[s.life] = r /\ \A i \in 1 .. Len(L) : i # s.life => M[i] = L[i]
  BY <1>2, <1>4
<1> QED BY <1>3, <1>5, <1>6 DEF Grows

LEMMA GrownFits ==
  ASSUME NEW L \in Seq(LifeType), NEW s, Grows(L, s),
         NEW M, M = GrownTo(L, s),
         NEW a \in AgentType, NEW mode, NEW from, AgentFits(a, mode, from, L),
         a.state # "waiting"
  PROVE  AgentFits(a, mode, from, M)
<1>1. /\ M \in Seq(LifeType) /\ Len(M) = Len(L)
      /\ M[Len(L)].len = s.len /\ M[Len(L)].closed = s.closed
      /\ \A i \in 1 .. Len(L) : i # Len(L) => M[i] = L[i]
  BY GrownLives
<1>2. PICK l \in Nat \ {0} : l = Len(L)
  <2>1. Len(L) \in Nat
    OBVIOUS
  <2> QED BY <2>1 DEF Grows
<1>3. L[l].len \in Nat /\ s.len \in Nat
  <2>1. l \in 1 .. Len(L)
    BY <1>2
  <2>2. L[l] \in LifeType
    BY <2>1
  <2> QED BY <2>2 DEF LifeType, Grows, StreamSeen
<1>4. Len(M) = l /\ M[l].len = s.len /\ M[l].len >= L[l].len /\ ~L[l].closed
  BY <1>1, <1>2 DEF Grows
<1>5. \A e \in 1 .. l : L[e].closed => M[e] = L[e]
  BY <1>1, <1>2, <1>4
<1>6. PICK g \in Seq(MessageId) : g = a.got
  BY DEF AgentType
<1>7. a.off \in Nat /\ a.off <= L[l].len => a.off <= M[l].len
  BY <1>3, <1>4
<1>8. ASSUME mode = "sse" \/ Len(M) <= 1
      PROVE  Consecutive(a.got) /\ LeadsTo(a.got, a.off, M) /\ EofFits(a.eof, a.got, M)
  <2>1. Consecutive(g) /\ LeadsTo(g, a.off, L) /\ EofFits(a.eof, g, L)
    BY <1>1, <1>6, <1>8 DEF AgentFits
  <2>2. LeadsTo(g, a.off, M)
    BY <1>2, <1>4, <1>7, <2>1 DEF LeadsTo
  <2>3. EofFits(a.eof, g, M)
    BY <1>2, <1>4, <1>5, <2>1 DEF EofFits
  <2> QED BY <1>6, <2>1, <2>2, <2>3
<1>9. ASSUME Len(M) <= 1
      PROVE  /\ a.off \in Nat => Len(M) > 0 /\ a.off <= M[Len(M)].len
             /\ from = FromBegin => FromFirst(a.eof, a.got, a.off, M)
  <2>1. /\ a.off \in Nat => a.off <= L[l].len
        /\ from = FromBegin => FromFirst(a.eof, a.got, a.off, L)
        /\ EofFits(a.eof, a.got, L)
    BY <1>1, <1>2, <1>9 DEF AgentFits
  <2>2. a.off \in Nat => Len(M) > 0 /\ a.off <= M[Len(M)].len
    BY <1>2, <1>4, <1>7, <2>1
  <2>3. a.eof # 0 => M[a.eof] = L[a.eof]
    BY <1>2, <1>5, <2>1 DEF EofFits
  <2> QED BY <2>1, <2>2, <2>3 DEF FromFirst
<1>10. a.eof # 0 => a.state = "over"
  BY DEF AgentFits
<1> QED BY <1>8, <1>9, <1>10 DEF AgentFits

LEMMA GrownEntry ==
  ASSUME NEW L \in Seq(LifeType), NEW s, Grows(L, s),
         NEW M, M = GrownTo(L, s),
         NEW e \in EntryType, EntryFits(e, L)
  PROVE  EntryFits(e, M)
<1>1. Len(M) = Len(L) /\ M[Len(L)].len = s.len /\ M[Len(L)].closed = s.closed
  BY GrownLives
<1>2. SUFFICES ASSUME Len(M) <= 1
               PROVE  /\ Len(M) = 1 /\ EndsRight(e.answer, 1, M[1])
                      /\ \E f \in Nat : Carries(e.answer, 1, f) /\ BeginsAt(e.off, f)
  BY DEF EntryFits
<1>3. /\ Len(L) = 1 /\ EndsRight(e.answer, 1, L[1])
      /\ \E f \in Nat : Carries(e.answer, 1, f) /\ BeginsAt(e.off, f)
  BY <1>1, <1>2 DEF EntryFits
<1>4. e.answer.off \in Nat
  BY DEF EntryType, AnswerType
<1>5. L[1].len \in Nat /\ s.len \in Nat
  <2>1. Len(L) = 1 /\ 1 \in 1 .. Len(L)
    BY <1>3
  <2>2. L[1] \in LifeType
    BY <2>1
  <2> QED BY <2>2 DEF LifeType, Grows, StreamSeen
<1>6. M[1].len = s.len /\ s.len >= L[1].len /\ ~L[1].closed
  BY <1>1, <1>3 DEF Grows
<1>7. EndsRight(e.answer, 1, M[1])
  BY <1>3, <1>4, <1>5, <1>6 DEF EndsRight
<1> QED BY <1>1, <1>3, <1>7

\* The path is created again.
LEMMA CreatedFits ==
  ASSUME NEW L \in Seq(LifeType), NEW r \in LifeType, NEW M, M = Append(L, r),
         NEW a \in AgentType, NEW mode, NEW from,
         AgentFits(a, mode, from, L), a.state # "waiting"
  PROVE  AgentFits(a, mode, from, M)
<1>1. PICK l \in Nat : l = Len(L)
  OBVIOUS
<1>2. Len(M) = l + 1 /\ \A i \in 1 .. l : M[i] = L[i]
  BY <1>1
<1>3. PICK g \in Seq(MessageId) : g = a.got
  BY DEF AgentType
<1>4. PICK n \in Nat : n = Len(g)
  OBVIOUS
<1>5. ASSUME mode = "sse" \/ Len(M) <= 1
      PROVE  Consecutive(g) /\ LeadsTo(g, a.off, M) /\ EofFits(a.eof, g, M)
  <2>1. Consecutive(g) /\ LeadsTo(g, a.off, L) /\ EofFits(a.eof, g, L)
    BY <1>1, <1>2, <1>3, <1>5 DEF AgentFits
  <2>2. n > 0 => g[n][1] \in 1 .. l /\ a.off \in Nat
    BY <1>1, <1>4, <2>1 DEF LeadsTo
  <2>3. n > 0 => g[n][1] \in 1 .. l + 1 /\ g[n][1] # l + 1
    BY <2>2
  <2>4. LeadsTo(g, a.off, M)
    BY <1>2, <1>4, <2>2, <2>3 DEF LeadsTo
  <2>5. EofFits(a.eof, g, M)
    <3>1. SUFFICES ASSUME a.eof # 0
                   PROVE  /\ a.eof \in 1 .. Len(M) /\ M[a.eof].closed
                          /\ n > 0 /\ g[n][1] = a.eof => g[n][2] = M[a.eof].len
      BY <1>4 DEF EofFits
    <3>2. /\ a.eof \in 1 .. l /\ L[a.eof].closed
          /\ n > 0 /\ g[n][1] = a.eof => g[n][2] = L[a.eof].len
      BY <1>1, <1>4, <2>1, <3>1 DEF EofFits
    <3>3. M[a.eof] = L[a.eof] /\ a.eof \in 1 .. l + 1
      BY <1>2, <3>2
    <3> QED BY <1>2, <3>2, <3>3
  <2> QED BY <2>1, <2>4, <2>5
<1>6. ASSUME Len(M) <= 1
      PROVE  a.off \notin Nat /\ (from = FromBegin => FromFirst(a.eof, g, a.off, M))
  <2>1. l = 0
    BY <1>2, <1>6
  <2>2. /\ a.off \in Nat => l > 0
        /\ from = FromBegin => FromFirst(a.eof, g, a.off, L)
        /\ LeadsTo(g, a.off, L) /\ EofFits(a.eof, g, L)
    BY <1>1, <1>3, <2>1 DEF AgentFits
  <2>3. n = 0 /\ a.eof = 0
    <3>1. n > 0 => g[n][1] \in 1 .. 0
      BY <1>1, <1>4, <2>1, <2>2 DEF LeadsTo
    <3>2. a.eof # 0 => a.eof \in 1 .. 0
      BY <1>1, <2>1, <2>2 DEF EofFits
    <3> QED BY <3>1, <3>2
  <2> QED BY <1>4, <2>1, <2>2, <2>3 DEF FromFirst
<1>7. a.eof # 0 => a.state = "over"
  BY DEF AgentFits
<1> QED BY <1>3, <1>5, <1>6, <1>7 DEF AgentFits

-----------------------------------------------------------------------------
(* Requests and their answers *)

\* s is the last stream of L
LastIs(L, s) ==
  /\ Len(L) > 0 /\ s \in StreamSeen /\ s.life = Len(L) /\ s.len = L[Len(L)].len
  /\ s.closed = L[Len(L)].closed

\* a client at an offset is served from off, which is start
Starts(at, off, start, len) ==
  /\ off = start \/ (off = FromBegin /\ start = 0)
  /\ (BeginsAt(at, start) /\ start <= len) \/ (at \in Nat /\ at > len)

LEMMA OffsetStarts ==
  ASSUME NEW at \in HttpOffset, NEW len \in Nat, NEW off,
         off = IF at = FromNow THEN len ELSE at
  PROVE  \E start \in Nat : Starts(at, off, start, len)
<1>1. CASE at = FromNow
  <2>1. off = len /\ BeginsAt(at, len)
    BY <1>1 DEF BeginsAt, FromNow, FromBegin
  <2>2. Starts(at, off, len, len)
    BY <2>1 DEF Starts
  <2> QED BY <2>2
<1>2. CASE at = FromBegin
  <2>1. off = FromBegin /\ BeginsAt(at, 0)
    BY <1>2 DEF BeginsAt, FromNow, FromBegin
  <2>2. Starts(at, off, 0, len)
    BY <2>1 DEF Starts
  <2> QED BY <2>2
<1>3. CASE at \in Nat
  <2>1. off = at /\ BeginsAt(at, at)
    BY <1>3 DEF BeginsAt, FromNow, FromBegin
  <2>2. Starts(at, off, at, len)
    BY <1>3, <2>1 DEF Starts
  <2> QED BY <1>3, <2>2
<1> QED BY <1>1, <1>2, <1>3 DEF HttpOffset

\* The answer that the cache may keep.
LEMMA NewEntry ==
  ASSUME NEW a \in AgentType, NEW ans \in AnswerType, NEW L \in Seq(LifeType), Len(L) > 0,
         EndsRight(ans, Len(L), L[Len(L)]),
         NEW f \in Nat, Carries(ans, Len(L), f), Len(L) <= 1 => BeginsAt(a.off, f)
  PROVE  Entry(a, ans) \in EntryType /\ EntryFits(Entry(a, ans), L)
<1>1. PICK e : e = Entry(a, ans)
  OBVIOUS
<1>2. e \in EntryType /\ e.off = a.off /\ e.answer = ans
  BY <1>1 DEF Entry, EntryType, AgentType
<1>3. EntryFits(e, L)
  <2>1. SUFFICES ASSUME Len(L) <= 1
                 PROVE  /\ Len(L) = 1 /\ EndsRight(ans, 1, L[1])
                        /\ \E x \in Nat : Carries(ans, 1, x) /\ BeginsAt(a.off, x)
    BY <1>2 DEF EntryFits
  <2>2. Len(L) = 1
    <3>1. PICK l \in Nat : l = Len(L)
      OBVIOUS
    <3>2. l <= 1 /\ l > 0
      BY <2>1, <3>1
    <3> QED BY <3>1, <3>2
  <2> QED BY <2>1, <2>2
<1> QED BY <1>1, <1>2, <1>3

LEMMA ServedFits ==
  ASSUME NEW a \in AgentType, NEW mode, NEW from, NEW L \in Seq(LifeType),
         AgentFits(a, mode, from, L), a.eof = 0, NEW s, LastIs(L, s),
         NEW off, NEW start \in Nat, Starts(a.off, off, start, s.len), NEW cursor \in Nat,
         NEW ans, ans = ReadResponse(s, ReadFrom(s, off), cursor)
  PROVE  /\ ans \in AnswerType /\ AgentFits(Receive(a, ans), mode, from, L)
         /\ ans.off = s.len /\ (ans.eof = 0 => ~L[Len(L)].closed)
         /\ Entry(a, ans) \in EntryType /\ EntryFits(Entry(a, ans), L)
<1>1. s \in StreamSeen /\ (off = start \/ (off = FromBegin /\ start = 0))
  BY DEF LastIs, Starts
<1>2. /\ ans \in AnswerType /\ ans.off = s.len /\ ans.eof = (IF s.closed THEN s.life ELSE 0)
      /\ Carries(ans, s.life, IF start <= s.len THEN start ELSE s.len)
  BY <1>1, ReadAnswers
<1>3. PICK f \in Nat : f = IF start <= s.len THEN start ELSE s.len
  <2>1. s.len \in Nat
    BY <1>1 DEF StreamSeen
  <2> QED BY <2>1
<1>4. s.len \in Nat /\ s.life = Len(L) /\ s.life # 0 /\ s.len = L[Len(L)].len /\ Len(L) \in Nat
  <2>1. Len(L) \in Nat
    OBVIOUS
  <2> QED BY <1>1, <2>1 DEF LastIs, StreamSeen
<1>5. Carries(ans, Len(L), f)
  BY <1>2, <1>3, <1>4
<1>6. EndsRight(ans, Len(L), L[Len(L)])
  <2>1. ans.off <= L[Len(L)].len
    BY <1>2, <1>4
  <2>2. ans.eof # 0 => ans.eof = Len(L) /\ L[Len(L)].closed
    BY <1>2, <1>4 DEF LastIs
  <2> QED BY <1>2, <1>4, <2>1, <2>2 DEF EndsRight
<1>7. ans.eof = 0 => ~L[Len(L)].closed
  BY <1>2, <1>4 DEF LastIs
<1>8. BeginsAt(a.off, f) \/ (a.off \in Nat /\ a.off > s.len)
  BY <1>3, <1>4 DEF Starts
<1>9. AgentFits(Receive(a, ans), mode, from, L)
  <2>1. Len(L) > 0 /\ (BeginsAt(a.off, f) \/ (a.off \in Nat /\ a.off > L[Len(L)].len))
    BY <1>4, <1>8 DEF LastIs
  <2> QED BY <1>2, <1>5, <1>6, <2>1, ReceiveFits
<1>10. Len(L) <= 1 => BeginsAt(a.off, f)
  <2>1. Len(L) <= 1 /\ a.off \in Nat => a.off <= s.len
    BY <1>4 DEF AgentFits
  <2> QED BY <1>4, <1>8, <2>1
<1>11. Entry(a, ans) \in EntryType /\ EntryFits(Entry(a, ans), L)
  <2>1. Len(L) > 0
    BY DEF LastIs
  <2> QED BY <1>2, <1>5, <1>6, <1>10, <2>1, NewEntry
<1> QED BY <1>2, <1>7, <1>9, <1>11

\* One turn of the SSE loop.
LEMMA TurnFits ==
  ASSUME NEW a \in AgentType, NEW mode, NEW from, NEW L \in Seq(LifeType),
         mode # "conditional", AgentFits(a, mode, from, L), a.eof = 0, CopyFits(a),
         NEW s, LastIs(L, s), NEW off, NEW start \in Nat, Starts(a.off, off, start, s.len),
         NEW b, b = SSETurn(s, a, off)
  PROVE  b \in AgentType /\ AgentFits(b, mode, from, L) /\ CopyFits(b)
<1>1. PICK ans : ans = ReadResponse(s, ReadFrom(s, off), 0)
  OBVIOUS
<1>2. PICK d : d = Receive(a, ans)
  OBVIOUS
<1>3. b = IF ans.eof # 0 THEN d ELSE [d EXCEPT !.state = "waiting", !.at = ans.off]
  BY <1>1, <1>2 DEF SSETurn
<1>4. /\ ans \in AnswerType /\ AgentFits(d, mode, from, L)
      /\ ans.off = s.len /\ (ans.eof = 0 => ~L[Len(L)].closed)
  BY <1>1, <1>2, ServedFits
<1>5. /\ d \in AgentType /\ d.off = ans.off /\ d.eof = ans.eof /\ CopyFits(d)
  BY <1>2, <1>4, ReceiveTyped DEF CopyFits
<1>6. CASE ans.eof # 0
  BY <1>3, <1>4, <1>5, <1>6
<1>7. CASE ans.eof = 0
  <2>0. PICK o \in Nat : o = ans.off
    BY <1>4 DEF AnswerType
  <2>1. b = WaitsAt(d, o)
    BY <1>3, <1>7, <2>0 DEF WaitsAt
  <2>2. o = L[Len(L)].len /\ d.off \in {o, FromNow}
    BY <1>4, <1>5, <2>0 DEF LastIs
  <2>3. ~L[Len(L)].closed /\ d.eof = 0
    BY <1>4, <1>5, <1>7
  <2> QED BY <1>4, <1>5, <2>1, <2>2, <2>3, WaitFits
<1> QED BY <1>6, <1>7

\* The answer of a wait that a write ends.
LEMMA WokenAnswers ==
  ASSUME interval \in Nat, NEW s \in StreamSeen, NEW a \in AgentType, a.at <= s.len,
         a.at = s.len => s.closed, NEW j \in 1 .. MaxJitter,
         NEW ans, ans = WokenPoll(s, a, j)
  PROVE  /\ ans \in AnswerType /\ Carries(ans, s.life, a.at)
         /\ ans.off <= s.len /\ (ans.eof # 0 => ans.eof = s.life /\ s.closed /\ ans.off = s.len)
<1>1. a.at \in Nat /\ a.cursor \in Nat /\ s.len \in Nat /\ s.life \in Nat
  BY DEF AgentType, StreamSeen
<1>2. PICK cu \in Nat : cu = GenerateResponseCursor(a.cursor, j)
  BY <1>1, CursorTyped
<1>3. PICK m : m = ReadFrom(s, a.at)
  OBVIOUS
<1>4. m \in Seq(MessageId) /\ Len(m) = IF a.at < s.len THEN s.len - a.at ELSE 0
  BY <1>1, <1>3, ReadFacts
<1>5. ans = IF m = <<>> THEN HttpAnswer(<<>>, a.at, cu, s.life) ELSE ReadResponse(s, m, cu)
  BY <1>2, <1>3 DEF WokenPoll
<1>6. CASE m = <<>>
  <2>1. Len(m) = 0
    BY <1>6
  <2>2. a.at = s.len /\ s.closed
    <3>1. ~(a.at < s.len)
      BY <1>1, <1>4, <2>1
    <3> QED BY <1>1, <3>1
  <2>3. ans = HttpAnswer(<<>>, a.at, cu, s.life)
    BY <1>5, <1>6
  <2>4. ans \in AnswerType /\ ans.off = a.at /\ ans.eof = s.life /\ Carries(ans, s.life, a.at)
    <3>1. PICK at \in Nat : at = a.at
      BY <1>1
    <3>2. PICK life \in Nat : life = s.life
      BY <1>1
    <3>3. ans = HttpAnswer(<<>>, at, cu, life)
      BY <2>3, <3>1, <3>2
    <3>4. ans \in AnswerType /\ ans.off = at /\ ans.eof = life /\ Carries(ans, life, at)
      BY <3>3, EmptyAnswers
    <3> QED BY <3>1, <3>2, <3>4
  <2> QED BY <1>1, <2>2, <2>4
<1>7. CASE m # <<>>
  <2>1. ans = ReadResponse(s, ReadFrom(s, a.at), cu)
    BY <1>3, <1>5, <1>7
  <2>2. /\ ans \in AnswerType /\ ans.off = s.len /\ ans.eof = (IF s.closed THEN s.life ELSE 0)
        /\ Carries(ans, s.life, IF a.at <= s.len THEN a.at ELSE s.len)
    BY <1>1, <2>1, ReadAnswers
  <2>3. Carries(ans, s.life, a.at)
    BY <2>2
  <2> QED BY <1>1, <2>2, <2>3
<1> QED BY <1>6, <1>7

-----------------------------------------------------------------------------
(* Steps *)

\* What a step has to keep.
LEMMA Together ==
  ASSUME HttpInv, UNCHANGED httpSetup, lives' \in Seq(LifeType), exists' \in BOOLEAN,
         exists' => Len(lives') > 0, interval' \in Nat,
         agents' \in [HttpClients -> AgentType],
         \A c \in HttpClients : AgentFits(agents'[c], Mode(c), StartOffset(c), lives'),
         \A c \in HttpClients : CopyFits(agents'[c]),
         \A c \in HttpClients : agents'[c].state = "waiting" => exists',
         \A e \in edge' : e \in EntryType /\ EntryFits(e, lives')
  PROVE  HttpInv'
<1>1. HttpTypeOK'
  BY DEF HttpInv, HttpTypeOK
<1>2. \A c \in HttpClients : Mode(c)' = Mode(c) /\ StartOffset(c)' = StartOffset(c)
  BY DEF Mode, StartOffset
<1>3. \A c \in HttpClients : AgentFits(agents'[c], Mode(c)', StartOffset(c)', lives')
  BY <1>2
<1> QED BY <1>1, <1>3 DEF HttpInv

LEMMA OneClient ==
  ASSUME HttpInv, NEW c \in HttpClients, NEW b \in AgentType,
         AgentFits(b, Mode(c), StartOffset(c), lives), CopyFits(b),
         b.state = "waiting" => exists, AgentBecomes(c, b),
         UNCHANGED <<httpSetup, lives, exists, interval>>,
         \A e \in edge' : e \in edge \/ (e \in EntryType /\ EntryFits(e, lives))
  PROVE  HttpInv'
<1>1. agents \in [HttpClients -> AgentType] /\ agents' = [agents EXCEPT ![c] = b]
  BY DEF HttpInv, HttpTypeOK, AgentBecomes
<1>2. agents' \in [HttpClients -> AgentType]
  BY <1>1
<1>3. agents'[c] = b /\ \A d \in HttpClients : d # c => agents'[d] = agents[d]
  BY <1>1
<1>4. \A d \in HttpClients : AgentFits(agents'[d], Mode(d), StartOffset(d), lives)
  BY <1>3 DEF HttpInv
<1>5. \A d \in HttpClients : CopyFits(agents'[d])
  BY <1>3 DEF HttpInv
<1>6. \A d \in HttpClients : agents'[d].state = "waiting" => exists
  BY <1>3 DEF HttpInv
<1>7. \A e \in edge' : e \in EntryType /\ EntryFits(e, lives)
  BY DEF HttpInv, HttpTypeOK
<1>8. /\ lives' = lives /\ exists' = exists /\ httpSetup' = httpSetup /\ interval' = interval
      /\ lives \in Seq(LifeType) /\ exists \in BOOLEAN /\ (exists => Len(lives) > 0)
      /\ interval \in Nat
  BY DEF HttpInv, HttpTypeOK
<1>9. /\ lives' \in Seq(LifeType) /\ exists' \in BOOLEAN /\ (exists' => Len(lives') > 0)
      /\ interval' \in Nat
  BY <1>8
<1>10. \A d \in HttpClients : AgentFits(agents'[d], Mode(d), StartOffset(d), lives')
  BY <1>4, <1>8
<1>11. \A d \in HttpClients : agents'[d].state = "waiting" => exists'
  BY <1>6, <1>8
<1>12. \A e \in edge' : e \in EntryType /\ EntryFits(e, lives')
  BY <1>7, <1>8
<1> QED BY <1>2, <1>5, <1>8, <1>9, <1>10, <1>11, <1>12, Together

\* What is known of a client.
LEMMA ClientFacts ==
  ASSUME HttpInv, NEW c \in HttpClients
  PROVE  /\ agents[c] \in AgentType /\ AgentFits(agents[c], Mode(c), StartOffset(c), lives)
         /\ CopyFits(agents[c]) /\ (agents[c].state = "waiting" => exists)
         /\ agents[c].state # "over" => agents[c].eof = 0
         /\ lives \in Seq(LifeType) /\ interval \in Nat
         /\ Mode(c) \in {"conditional", "long-poll", "sse"}
<1>1. agents[c] \in AgentType /\ lives \in Seq(LifeType) /\ interval \in Nat
  BY DEF HttpInv, HttpTypeOK
<1>2. AgentFits(agents[c], Mode(c), StartOffset(c), lives)
  BY DEF HttpInv
<1>3. CopyFits(agents[c]) /\ (agents[c].state = "waiting" => exists)
  BY DEF HttpInv
<1>4. agents[c].state # "over" => agents[c].eof = 0
  BY <1>2 DEF AgentFits
<1>5. Mode(c) \in {"conditional", "long-poll", "sse"}
  BY DEF HttpInv, HttpTypeOK, HttpSetup, Mode
<1> QED BY <1>1, <1>2, <1>3, <1>4, <1>5

\* What a request finds.
LEMMA CurrentFacts ==
  ASSUME HttpInv, exists
  PROVE  /\ LastIs(lives, Current) /\ Current \in StreamSeen /\ Current.life = Len(lives)
         /\ Current.len = lives[Len(lives)].len /\ Current.closed = lives[Len(lives)].closed
         /\ Current.len \in Nat /\ Len(lives) > 0
<1>1. lives \in Seq(LifeType) /\ Len(lives) > 0
  BY DEF HttpInv, HttpTypeOK
<1>2. Len(lives) \in Nat /\ Len(lives) \in 1 .. Len(lives)
  BY <1>1
<1>3. PICK r \in LifeType : r = lives[Len(lives)]
  BY <1>1, <1>2
<1>4. Current = [life |-> Len(lives), len |-> r.len, closed |-> r.closed]
  BY <1>3 DEF Current, StreamAt, Life
<1>5. /\ Current \in StreamSeen /\ Current.life = Len(lives) /\ Current.len = r.len
      /\ Current.closed = r.closed
  BY <1>2, <1>3, <1>4 DEF StreamSeen, LifeType
<1>6. Current.len \in Nat
  BY <1>3, <1>5 DEF LifeType
<1> QED BY <1>1, <1>3, <1>5, <1>6 DEF LastIs

LEMMA GetNothingKeeps ==
  ASSUME HttpInv, NEW c \in HttpClients, GetNothing(c)
  PROVE  HttpInv'
<1>1. PICK a : a = agents[c]
  OBVIOUS
<1>2. PICK b : b = InState(a, "over")
  OBVIOUS
<1>3. a \in AgentType /\ AgentFits(a, Mode(c), StartOffset(c), lives) /\ CopyFits(a)
  BY <1>1, ClientFacts
<1>4. b \in AgentType /\ AgentFits(b, Mode(c), StartOffset(c), lives) /\ CopyFits(b)
  BY <1>2, <1>3, StateOnly
<1>5. b.state # "waiting"
  BY <1>2, <1>3 DEF InState, AgentType
<1>6. AgentBecomes(c, b)
  BY <1>1, <1>2 DEF GetNothing, InState
<1>7. UNCHANGED <<httpSetup, lives, exists, interval>> /\ \A e \in edge' : e \in edge
  BY DEF GetNothing
<1> QED BY <1>4, <1>5, <1>6, <1>7, OneClient

LEMMA DisconnectKeeps ==
  ASSUME HttpInv, NEW c \in HttpClients, Disconnect(c)
  PROVE  HttpInv'
<1>1. PICK a : a = agents[c]
  OBVIOUS
<1>2. PICK b : b = InState(a, "idle")
  OBVIOUS
<1>3. a \in AgentType /\ AgentFits(a, Mode(c), StartOffset(c), lives) /\ CopyFits(a) /\ a.eof = 0
  <2>1. a.state # "over"
    BY <1>1 DEF Disconnect
  <2> QED BY <1>1, <2>1, ClientFacts
<1>4. b \in AgentType /\ AgentFits(b, Mode(c), StartOffset(c), lives) /\ CopyFits(b)
  BY <1>2, <1>3, StateOnly
<1>5. b.state # "waiting"
  BY <1>2, <1>3 DEF InState, AgentType
<1>6. AgentBecomes(c, b)
  BY <1>1, <1>2 DEF Disconnect, InState
<1>7. UNCHANGED <<httpSetup, lives, exists, interval>> /\ \A e \in edge' : e \in edge
  BY DEF Disconnect
<1> QED BY <1>4, <1>5, <1>6, <1>7, OneClient

LEMMA GetConditionalKeeps ==
  ASSUME HttpInv, NEW c \in HttpClients, GetConditional(c)
  PROVE  HttpInv'
<1>1. PICK a : a = agents[c]
  OBVIOUS
<1>2. PICK cur \in StreamSeen : cur = Current
  BY CurrentFacts DEF GetConditional
<1>3. a \in AgentType /\ AgentFits(a, Mode(c), StartOffset(c), lives) /\ CopyFits(a)
  BY <1>1, ClientFacts
<1>4. PICK same : same = (a.copy # NoStreamYet /\ ETag(a.copy) = ETag(cur))
  OBVIOUS
<1>5. PICK cp \in StreamSeen : cp = IF same THEN a.copy ELSE cur
  BY <1>3 DEF AgentType
<1>6. PICK b : b = [a EXCEPT !.copy = cp, !.truth = cur]
  OBVIOUS
<1>7. /\ b \in AgentType /\ b.state = a.state /\ b.off = a.off /\ b.at = a.at /\ b.got = a.got
      /\ b.eof = a.eof /\ b.copy = cp /\ b.truth = cur
  BY <1>3, <1>6 DEF AgentType
<1>8. AgentFits(b, Mode(c), StartOffset(c), lives)
  BY <1>3, <1>7 DEF AgentFits
<1>9. CopyFits(b)
  <2>1. SUFFICES ASSUME cp.life = cur.life
                 PROVE  cp = cur
    BY <1>7 DEF CopyFits
  <2>2. CASE cp = cur
    BY <2>2
  <2>3. CASE cp # cur
    <3>1. cp = a.copy /\ ETag(a.copy) = ETag(cur)
      BY <1>4, <1>5, <2>3
    <3>2. cp.len = cur.len /\ cp.closed = cur.closed
      BY <3>1 DEF ETag
    <3> QED BY <2>1, <3>2 DEF StreamSeen
  <2> QED BY <2>2, <2>3
<1>10. b.state # "waiting"
  BY <1>1, <1>7 DEF GetConditional
<1>11. AgentBecomes(c, b)
  BY <1>1, <1>2, <1>4, <1>5, <1>6 DEF GetConditional
<1>12. UNCHANGED <<httpSetup, lives, exists, interval>> /\ \A e \in edge' : e \in edge
  BY DEF GetConditional
<1> QED BY <1>7, <1>8, <1>9, <1>10, <1>11, <1>12, OneClient

\* An answer that the cache may keep fits whoever sent its request.
LEMMA EntryAnswers ==
  ASSUME NEW a \in AgentType, NEW mode, NEW from, NEW L \in Seq(LifeType),
         AgentFits(a, mode, from, L), a.eof = 0, mode # "sse",
         NEW e \in EntryType, EntryFits(e, L), e.off = a.off
  PROVE  AgentFits(Receive(a, e.answer), mode, from, L)
<1>1. PICK l \in Nat : l = Len(L)
  OBVIOUS
<1>2. PICK ans \in AnswerType : ans = e.answer
  BY DEF EntryType
<1>3. CASE l > 1
  <2>1. AgentFits(Receive(a, ans), mode, from, L)
    BY <1>1, <1>3, ReceiveLoose
  <2> QED BY <1>2, <2>1
<1>4. CASE ~(l > 1)
  <2>1. PICK f \in Nat : Carries(ans, 1, f) /\ BeginsAt(a.off, f)
    BY <1>1, <1>2, <1>4 DEF EntryFits
  <2>2. Len(L) = 1 /\ EndsRight(ans, 1, L[1])
    BY <1>1, <1>2, <1>4 DEF EntryFits
  <2>3. Len(L) > 0 /\ Carries(ans, Len(L), f) /\ EndsRight(ans, Len(L), L[Len(L)])
    BY <2>1, <2>2
  <2>4. AgentFits(Receive(a, ans), mode, from, L)
    BY <2>1, <2>3, ReceiveFits
  <2> QED BY <1>2, <2>4
<1> QED BY <1>3, <1>4

LEMMA ReceiveStops ==
  ASSUME NEW a \in AgentType, NEW ans \in AnswerType, CopyFits(a)
  PROVE  /\ Receive(a, ans) \in AgentType /\ CopyFits(Receive(a, ans))
         /\ Receive(a, ans).state # "waiting"
<1>1. PICK b : b = Receive(a, ans)
  OBVIOUS
<1>2. /\ b \in AgentType /\ b.copy = a.copy /\ b.truth = a.truth
      /\ b.state = (IF ans.eof # 0 THEN "over" ELSE "idle")
  BY <1>1, ReceiveTyped
<1>3. b.state # "waiting" /\ CopyFits(b)
  BY <1>2 DEF CopyFits
<1> QED BY <1>1, <1>2, <1>3

LEMMA PollAnswered ==
  ASSUME HttpInv, NEW c \in HttpClients, Mode(c) = "long-poll", NEW a, a = agents[c], a.eof = 0,
         NEW ans \in AnswerType, NEW e \in EntryType, EntryFits(e, lives), e.off = a.off,
         e.answer = ans, AgentBecomes(c, Receive(a, ans)),
         edge' \subseteq edge \cup {e},
         UNCHANGED <<httpSetup, lives, exists, interval>>
  PROVE  HttpInv'
<1>1. /\ a \in AgentType /\ AgentFits(a, Mode(c), StartOffset(c), lives) /\ CopyFits(a)
      /\ lives \in Seq(LifeType)
  BY ClientFacts
<1>2. PICK b : b = Receive(a, ans)
  OBVIOUS
<1>3. b \in AgentType /\ CopyFits(b) /\ b.state # "waiting"
  BY <1>1, <1>2, ReceiveStops
<1>4. PICK mode : mode = Mode(c) /\ mode # "sse"
  OBVIOUS
<1>5. AgentFits(a, mode, StartOffset(c), lives)
  BY <1>1, <1>4
<1>6. AgentFits(Receive(a, e.answer), mode, StartOffset(c), lives)
  BY <1>1, <1>4, <1>5, EntryAnswers
<1>7. AgentFits(b, Mode(c), StartOffset(c), lives)
  BY <1>2, <1>4, <1>6
<1>8. AgentBecomes(c, b)
  BY <1>2
<1>9. \A x \in edge' : x \in edge \/ (x \in EntryType /\ EntryFits(x, lives))
  OBVIOUS
<1> QED BY <1>3, <1>7, <1>8, <1>9, OneClient

LEMMA GetFromCacheKeeps ==
  ASSUME HttpInv, NEW c \in HttpClients, GetFromCache(c)
  PROVE  HttpInv'
<1>1. PICK a : a = agents[c]
  OBVIOUS
<1>2. PICK e \in CachedFor(a) : AgentBecomes(c, Receive(a, e.answer))
  BY <1>1 DEF GetFromCache
<1>3. e \in edge /\ e.off = a.off /\ e \in EntryType /\ EntryFits(e, lives)
  BY <1>2 DEF CachedFor, HttpInv, HttpTypeOK
<1>4. PICK ans \in AnswerType : ans = e.answer
  BY <1>3 DEF EntryType
<1>5. AgentBecomes(c, Receive(a, ans))
  BY <1>2, <1>4
<1>6. Mode(c) = "long-poll" /\ a.state = "idle"
  BY <1>1 DEF GetFromCache
<1>7. a.eof = 0
  BY <1>1, <1>6, ClientFacts
<1>8. UNCHANGED <<httpSetup, lives, exists, interval>> /\ edge' \subseteq edge \cup {e}
  BY DEF GetFromCache
<1> QED BY <1>1, <1>3, <1>4, <1>5, <1>6, <1>7, <1>8, PollAnswered

\* What the cache has after an answer.
LEMMA Remembers ==
  ASSUME NEW new, Remember(new)
  PROVE  edge' \subseteq edge \cup new
BY DEF Remember

LEMMA GetLongPollKeeps ==
  ASSUME HttpInv, NEW c \in HttpClients, GetLongPoll(c)
  PROVE  HttpInv'
<1>1. PICK a : a = agents[c]
  OBVIOUS
<1>2. exists /\ Mode(c) = "long-poll" /\ a.state = "idle"
  BY <1>1 DEF GetLongPoll
<1>3. /\ a \in AgentType /\ AgentFits(a, Mode(c), StartOffset(c), lives) /\ CopyFits(a)
      /\ lives \in Seq(LifeType) /\ interval \in Nat /\ a.eof = 0
  BY <1>1, <1>2, ClientFacts
<1>4. PICK s : s = Current
  OBVIOUS
<1>5. /\ LastIs(lives, s) /\ s \in StreamSeen /\ s.life = Len(lives) /\ s.len \in Nat
      /\ s.len = lives[Len(lives)].len /\ s.closed = lives[Len(lives)].closed /\ Len(lives) > 0
  BY <1>2, <1>4, CurrentFacts
<1>6. PICK off : off = IF a.off = FromNow THEN s.len ELSE a.off
  OBVIOUS
<1>7. a.off \in HttpOffset /\ a.cursor \in Nat
  BY <1>3 DEF AgentType
<1>8. UNCHANGED <<httpSetup, lives, exists, interval>>
  BY DEF GetLongPoll
<1>9. CASE off = s.len /\ s.closed
  <2>1. PICK ans : ans = HttpAnswer(<<>>, off, 0, Len(lives))
    OBVIOUS
  <2>2. AgentBecomes(c, Receive(a, ans)) /\ Remember({Entry(a, ans)})
    BY <1>1, <1>4, <1>6, <1>9, <2>1 DEF GetLongPoll, Life
  <2>3. PICK n \in Nat : n = s.len /\ off = n
    BY <1>5, <1>9
  <2>4. PICK l \in Nat : l = Len(lives)
    BY <1>3
  <2>5. ans = HttpAnswer(<<>>, n, 0, l)
    BY <2>1, <2>3, <2>4
  <2>6. ans \in AnswerType /\ ans.off = n /\ ans.eof = l /\ Carries(ans, l, n)
    BY <2>5, EmptyAnswers
  <2>7. EndsRight(ans, l, lives[l])
    <3>1. lives[l].len = n /\ n <= n
      BY <1>5, <2>3, <2>4
    <3>2. lives[l].closed
      BY <1>5, <1>9, <2>4
    <3> QED BY <2>6, <3>1, <3>2 DEF EndsRight
  <2>8. BeginsAt(a.off, n)
    BY <1>6, <1>7, <2>3 DEF BeginsAt, FromNow, FromBegin, HttpOffset
  <2>9. PICK e : e = Entry(a, ans)
    OBVIOUS
  <2>10. e \in EntryType /\ EntryFits(e, lives)
    BY <1>3, <1>5, <2>4, <2>6, <2>7, <2>8, <2>9, NewEntry
  <2>11. e.off = a.off /\ e.answer = ans /\ edge' \subseteq edge \cup {e}
    BY <2>2, <2>9, Remembers DEF Entry
  <2> QED BY <1>1, <1>2, <1>3, <1>8, <2>2, <2>6, <2>10, <2>11, PollAnswered
<1>10. CASE off = s.len /\ ~s.closed
  <2>1. AgentBecomes(c, WaitsAt(a, off)) /\ UNCHANGED edge
    BY <1>1, <1>4, <1>6, <1>10 DEF GetLongPoll, WaitsAt
  <2>2. PICK n \in Nat : n = s.len /\ off = n
    BY <1>5, <1>10
  <2>3. a.off \in {n, FromNow}
    BY <1>6, <2>2
  <2>4. PICK b : b = WaitsAt(a, n)
    OBVIOUS
  <2>5. ~lives[Len(lives)].closed /\ n = lives[Len(lives)].len
    BY <1>5, <1>10, <2>2
  <2>6. PICK mode : mode = Mode(c) /\ mode # "conditional"
    BY <1>2
  <2>7. b \in AgentType /\ AgentFits(b, mode, StartOffset(c), lives) /\ CopyFits(b)
    <3>1. AgentFits(a, mode, StartOffset(c), lives)
      BY <1>3, <2>6
    <3> QED BY <1>3, <2>3, <2>4, <2>5, <2>6, <3>1, WaitFits
  <2>8. AgentFits(b, Mode(c), StartOffset(c), lives)
    BY <2>6, <2>7
  <2>9. AgentBecomes(c, b) /\ \A e \in edge' : e \in edge
    BY <2>1, <2>2, <2>4
  <2> QED BY <1>2, <1>8, <2>7, <2>8, <2>9, OneClient
<1>11. CASE off # s.len
  <2>1. PICK j \in 1 .. MaxJitter :
          LET ans == ReadResponse(s, ReadFrom(s, off), GenerateResponseCursor(a.cursor, j))
          IN AgentBecomes(c, Receive(a, ans)) /\ Remember({Entry(a, ans)})
    BY <1>1, <1>4, <1>6, <1>11 DEF GetLongPoll
  <2>2. PICK cu \in Nat : cu = GenerateResponseCursor(a.cursor, j)
    BY <1>3, <1>7, CursorTyped
  <2>3. PICK ans : ans = ReadResponse(s, ReadFrom(s, off), cu)
    OBVIOUS
  <2>4. AgentBecomes(c, Receive(a, ans)) /\ Remember({Entry(a, ans)})
    BY <2>1, <2>2, <2>3
  <2>5. PICK start \in Nat : Starts(a.off, off, start, s.len)
    BY <1>5, <1>6, <1>7, OffsetStarts
  <2>6. PICK e : e = Entry(a, ans)
    OBVIOUS
  <2>7. ans \in AnswerType /\ e \in EntryType /\ EntryFits(e, lives)
    BY <1>3, <1>5, <2>3, <2>5, <2>6, ServedFits
  <2>8. e.off = a.off /\ e.answer = ans /\ edge' \subseteq edge \cup {e}
    BY <2>4, <2>6, Remembers DEF Entry
  <2> QED BY <1>1, <1>2, <1>3, <1>8, <2>4, <2>7, <2>8, PollAnswered
<1> QED BY <1>9, <1>10, <1>11

LEMMA OpenSSEKeeps ==
  ASSUME HttpInv, NEW c \in HttpClients, OpenSSE(c)
  PROVE  HttpInv'
<1>1. PICK a : a = agents[c]
  OBVIOUS
<1>2. exists /\ Mode(c) = "sse" /\ a.state = "idle"
  BY <1>1 DEF OpenSSE
<1>3. /\ a \in AgentType /\ AgentFits(a, Mode(c), StartOffset(c), lives) /\ CopyFits(a)
      /\ lives \in Seq(LifeType) /\ a.eof = 0
  BY <1>1, <1>2, ClientFacts
<1>4. PICK s : s = Current
  OBVIOUS
<1>5. LastIs(lives, s) /\ s.len \in Nat
  BY <1>2, <1>4, CurrentFacts
<1>6. PICK off : off = IF a.off = FromNow THEN s.len ELSE a.off
  OBVIOUS
<1>7. a.off \in HttpOffset
  BY <1>3 DEF AgentType
<1>8. PICK start \in Nat : Starts(a.off, off, start, s.len)
  BY <1>5, <1>6, <1>7, OffsetStarts
<1>9. PICK b : b = SSETurn(s, a, off)
  OBVIOUS
<1>10. PICK mode : mode = Mode(c) /\ mode # "conditional"
  BY <1>2
<1>11. b \in AgentType /\ AgentFits(b, mode, StartOffset(c), lives) /\ CopyFits(b)
  <2>1. AgentFits(a, mode, StartOffset(c), lives)
    BY <1>3, <1>10
  <2> QED BY <1>3, <1>5, <1>8, <1>9, <1>10, <2>1, TurnFits
<1>12. AgentFits(b, Mode(c), StartOffset(c), lives)
  BY <1>10, <1>11
<1>13. AgentBecomes(c, b)
  BY <1>1, <1>4, <1>6, <1>9 DEF OpenSSE
<1>14. UNCHANGED <<httpSetup, lives, exists, interval>> /\ \A e \in edge' : e \in edge
  BY DEF OpenSSE
<1> QED BY <1>2, <1>11, <1>12, <1>13, <1>14, OneClient

\* A wait that ends without news: the client is told the offset it waits at.
LEMMA NoNews ==
  ASSUME HttpInv, NEW c \in WaitingIn("long-poll"), NEW cu \in Nat,
         NEW ans, ans = HttpAnswer(<<>>, agents[c].at, cu, 0)
  PROVE  /\ ans \in AnswerType /\ Entry(agents[c], ans) \in EntryType
         /\ EntryFits(Entry(agents[c], ans), lives)
<1>1. PICK a : a = agents[c]
  OBVIOUS
<1>2. c \in HttpClients /\ Mode(c) = "long-poll" /\ a.state = "waiting"
  BY <1>1 DEF WaitingIn
<1>3. /\ a \in AgentType /\ AgentFits(a, Mode(c), StartOffset(c), lives) /\ exists
      /\ lives \in Seq(LifeType)
  BY <1>1, <1>2, ClientFacts
<1>4. PICK l \in Nat : l = Len(lives)
  BY <1>3
<1>5. l > 0
  BY <1>3, <1>4 DEF HttpInv, HttpTypeOK
<1>6. PICK n \in Nat : n = a.at
  BY <1>3 DEF AgentType
<1>7. n = lives[l].len /\ (l <= 1 => a.off \in {n, FromNow})
  BY <1>2, <1>3, <1>4, <1>6 DEF AgentFits
<1>8. ans = HttpAnswer(<<>>, n, cu, 0)
  BY <1>1, <1>6
<1>9. ans \in AnswerType /\ ans.off = n /\ ans.eof = 0 /\ Carries(ans, l, n)
  BY <1>8, EmptyAnswers
<1>10. EndsRight(ans, l, lives[l])
  BY <1>7, <1>9 DEF EndsRight
<1>11. l <= 1 => BeginsAt(a.off, n)
  BY <1>7 DEF BeginsAt, FromNow, FromBegin
<1>12. Entry(a, ans) \in EntryType /\ EntryFits(Entry(a, ans), lives)
  BY <1>3, <1>4, <1>5, <1>9, <1>10, <1>11, NewEntry
<1> QED BY <1>1, <1>9, <1>12

LEMMA PollTimesOutKeeps ==
  ASSUME HttpInv, NEW c \in HttpClients, PollTimesOut(c)
  PROVE  HttpInv'
<1>1. PICK a : a = agents[c]
  OBVIOUS
<1>2. c \in WaitingIn("long-poll")
  BY DEF PollTimesOut
<1>3. Mode(c) = "long-poll" /\ a.state = "waiting"
  BY <1>1, <1>2 DEF WaitingIn
<1>4. a \in AgentType /\ interval \in Nat /\ a.eof = 0
  BY <1>1, <1>3, ClientFacts
<1>5. a.cursor \in Nat
  BY <1>4 DEF AgentType
<1>6. PICK j \in 1 .. MaxJitter :
        LET ans == HttpAnswer(<<>>, a.at, GenerateResponseCursor(a.cursor, j), 0)
        IN AgentBecomes(c, Receive(a, ans)) /\ Remember({Entry(a, ans)})
  BY <1>1 DEF PollTimesOut
<1>7. PICK cu \in Nat : cu = GenerateResponseCursor(a.cursor, j)
  BY <1>4, <1>5, CursorTyped
<1>8. PICK ans : ans = HttpAnswer(<<>>, a.at, cu, 0)
  OBVIOUS
<1>9. AgentBecomes(c, Receive(a, ans)) /\ Remember({Entry(a, ans)})
  BY <1>6, <1>7, <1>8
<1>10. PICK e : e = Entry(a, ans)
  OBVIOUS
<1>11. ans \in AnswerType /\ e \in EntryType /\ EntryFits(e, lives)
  BY <1>1, <1>2, <1>8, <1>10, NoNews
<1>12. e.off = a.off /\ e.answer = ans /\ edge' \subseteq edge \cup {e}
  BY <1>9, <1>10, Remembers DEF Entry
<1>13. UNCHANGED <<httpSetup, lives, exists, interval>>
  BY DEF PollTimesOut
<1> QED BY <1>1, <1>3, <1>4, <1>9, <1>11, <1>12, <1>13, PollAnswered

LEMMA PutStreamKeeps ==
  ASSUME HttpInv, NEW len \in 0 .. 1, NEW closed \in BOOLEAN, PutStream(len, closed)
  PROVE  HttpInv'
<1>1. PICK r : r = [len |-> len, closed |-> closed]
  OBVIOUS
<1>2. r \in LifeType
  BY <1>1 DEF LifeType
<1>3. /\ lives' = Append(lives, r) /\ exists' = TRUE /\ ~exists
      /\ UNCHANGED <<httpSetup, agents, edge, interval>>
  BY <1>1 DEF PutStream
<1>4. lives \in Seq(LifeType) /\ agents \in [HttpClients -> AgentType] /\ interval \in Nat
  BY DEF HttpInv, HttpTypeOK
<1>5. lives' \in Seq(LifeType) /\ Len(lives') = Len(lives) + 1 /\ Len(lives') > 0
  BY <1>2, <1>3, <1>4
<1>6. PICK M : M = lives'
  OBVIOUS
<1>7. ASSUME NEW c \in HttpClients
      PROVE  /\ AgentFits(agents'[c], Mode(c), StartOffset(c), lives') /\ CopyFits(agents'[c])
             /\ agents'[c].state # "waiting"
  <2>1. PICK a : a = agents[c] /\ a = agents'[c]
    BY <1>3
  <2>2. /\ a \in AgentType /\ AgentFits(a, Mode(c), StartOffset(c), lives) /\ CopyFits(a)
        /\ a.state # "waiting"
    BY <1>3, <2>1, ClientFacts
  <2>3. M = Append(lives, r)
    BY <1>3, <1>6
  <2>4. AgentFits(a, Mode(c), StartOffset(c), M)
    BY <1>2, <1>4, <2>2, <2>3, CreatedFits
  <2> QED BY <1>6, <2>1, <2>2, <2>4
<1>8. ASSUME NEW e \in edge'
      PROVE  e \in EntryType /\ EntryFits(e, lives')
  <2>1. e \in EntryType /\ EntryFits(e, lives)
    BY <1>3 DEF HttpInv, HttpTypeOK
  <2>2. PICK l \in Nat : l = Len(lives)
    BY <1>4
  <2>3. Len(lives') = l + 1
    BY <1>5, <2>2
  <2>4. ~(Len(lives') <= 1)
    <3>1. l # 0
      BY <2>1, <2>2 DEF EntryFits
    <3> QED BY <2>3, <3>1
  <2> QED BY <2>1, <2>4 DEF EntryFits
<1> QED BY <1>3, <1>4, <1>5, <1>7, <1>8, Together

LEMMA DeleteStreamKeeps ==
  ASSUME HttpInv, DeleteStream
  PROVE  HttpInv'
<1>1. /\ lives \in Seq(LifeType) /\ agents \in [HttpClients -> AgentType] /\ interval \in Nat
      /\ edge \subseteq EntryType
  BY DEF HttpInv, HttpTypeOK
<1>2. /\ exists' = FALSE /\ UNCHANGED <<httpSetup, lives, edge, interval>>
      /\ agents' = [c \in HttpClients |->
           CASE c \in WaitingIn("long-poll") -> InState(agents[c], "over")
             [] c \in WaitingIn("sse")       -> InState(agents[c], "hung")
             [] OTHER                        -> agents[c]]
  BY DEF DeleteStream, InState
<1>3. ASSUME NEW c \in HttpClients
      PROVE  /\ agents'[c] \in AgentType /\ AgentFits(agents'[c], Mode(c), StartOffset(c), lives)
             /\ CopyFits(agents'[c]) /\ agents'[c].state # "waiting"
  <2>1. PICK a : a = agents[c]
    OBVIOUS
  <2>2. /\ a \in AgentType /\ AgentFits(a, Mode(c), StartOffset(c), lives) /\ CopyFits(a)
        /\ a.state # "over" => a.eof = 0
    BY <2>1, ClientFacts
  <2>3. CASE c \in WaitingIn("long-poll")
    <3>1. PICK b : b = InState(a, "over")
      OBVIOUS
    <3>2. b = agents'[c]
      <4>1. c \notin WaitingIn("sse")
        BY <2>3 DEF WaitingIn
      <4> QED BY <1>2, <2>1, <2>3, <3>1, <4>1
    <3>3. b \in AgentType /\ AgentFits(b, Mode(c), StartOffset(c), lives) /\ CopyFits(b)
      BY <2>2, <3>1, StateOnly
    <3>4. b.state # "waiting"
      BY <2>2, <3>1 DEF InState, AgentType
    <3> QED BY <3>2, <3>3, <3>4
  <2>4. CASE c \in WaitingIn("sse")
    <3>1. PICK b : b = InState(a, "hung")
      OBVIOUS
    <3>2. c \notin WaitingIn("long-poll") /\ a.state = "waiting"
      BY <2>1, <2>4 DEF WaitingIn
    <3>3. b = agents'[c]
      BY <1>2, <2>1, <2>4, <3>1, <3>2
    <3>4. b \in AgentType /\ AgentFits(b, Mode(c), StartOffset(c), lives) /\ CopyFits(b)
      BY <2>2, <3>1, <3>2, StateOnly
    <3>5. b.state # "waiting"
      BY <2>2, <3>1 DEF InState, AgentType
    <3> QED BY <3>3, <3>4, <3>5
  <2>5. CASE c \notin WaitingIn("long-poll") /\ c \notin WaitingIn("sse")
    <3>1. agents'[c] = a
      BY <1>2, <2>1, <2>5
    <3>2. a.state # "waiting"
      <4>1. a.state = "waiting" => Mode(c) # "conditional"
        BY <2>2 DEF AgentFits
      <4>2. Mode(c) \in {"conditional", "long-poll", "sse"}
        BY ClientFacts
      <4> QED BY <2>1, <2>5, <4>1, <4>2 DEF WaitingIn
    <3> QED BY <2>2, <3>1, <3>2
  <2> QED BY <2>3, <2>4, <2>5
<1>4. agents' \in [HttpClients -> AgentType]
  <2>1. PICK F : agents' = [c \in HttpClients |-> F[c]]
    <3>1. agents' = [c \in HttpClients |-> agents'[c]]
      BY <1>2
    <3> QED BY <3>1
  <2>2. \A c \in HttpClients : F[c] \in AgentType
    BY <1>3, <2>1
  <2> QED BY <2>1, <2>2
<1>5. \A c \in HttpClients : AgentFits(agents'[c], Mode(c), StartOffset(c), lives')
  BY <1>2, <1>3
<1>6. \A e \in edge' : e \in EntryType /\ EntryFits(e, lives')
  BY <1>2 DEF HttpInv, HttpTypeOK
<1> QED BY <1>1, <1>2, <1>3, <1>4, <1>5, <1>6, Together

-----------------------------------------------------------------------------
(* Writes *)

\* Receiving ends a wait, so it does not matter that there was one.
LEMMA ReceiveIdle ==
  ASSUME NEW a \in AgentType, NEW ans \in AnswerType
  PROVE  Receive(InState(a, "idle"), ans) = Receive(a, ans)
<1>1. PICK st : st = IF ans.eof # 0 THEN "over" ELSE "idle"
  OBVIOUS
<1>2. PICK cu : cu = IF ans.cursor = 0 THEN a.cursor ELSE ans.cursor
  OBVIOUS
<1>3. PICK d : d = InState(a, "idle")
  OBVIOUS
<1>4. d \in AgentType /\ d.got = a.got /\ d.cursor = a.cursor
  BY <1>3 DEF InState, AgentType
<1>5. PICK g : g = a.got \o ans.msgs
  OBVIOUS
<1>6. Receive(a, ans) = [a EXCEPT !.got = g, !.off = ans.off, !.cursor = cu,
                                  !.eof = ans.eof, !.state = st]
  BY <1>1, <1>2, <1>5 DEF Receive
<1>7. Receive(d, ans) = [d EXCEPT !.got = g, !.off = ans.off, !.cursor = cu,
                                  !.eof = ans.eof, !.state = st]
  BY <1>1, <1>2, <1>4, <1>5 DEF Receive
<1>8. [d EXCEPT !.got = g, !.off = ans.off, !.cursor = cu, !.eof = ans.eof, !.state = st]
      = [a EXCEPT !.got = g, !.off = ans.off, !.cursor = cu, !.eof = ans.eof, !.state = st]
  BY <1>3 DEF InState, AgentType
<1> QED BY <1>3, <1>6, <1>7, <1>8

\* A client that waits, as the stream grows.
LEMMA WaiterFacts ==
  ASSUME NEW a \in AgentType, NEW mode, NEW from, NEW L \in Seq(LifeType),
         AgentFits(a, mode, from, L), a.state = "waiting", a.eof = 0, CopyFits(a),
         NEW s, Grows(L, s), NEW M, M = GrownTo(L, s), NEW d, d = InState(a, "idle")
  PROVE  /\ d \in AgentType /\ AgentFits(d, mode, from, M) /\ CopyFits(d) /\ d.eof = 0
         /\ d.off = a.off /\ a.at \in Nat /\ a.at <= s.len /\ (a.at = s.len => s.closed)
         /\ mode = "sse" \/ Len(M) <= 1 => BeginsAt(a.off, a.at)
         /\ M \in Seq(LifeType) /\ Len(M) > 0 /\ Len(M) = s.life /\ s \in StreamSeen
         /\ M[Len(M)].len = s.len /\ M[Len(M)].closed = s.closed
<1>1. d \in AgentType /\ AgentFits(d, mode, from, L) /\ CopyFits(d)
  BY StateOnly
<1>2. d.eof = 0 /\ d.off = a.off /\ d.state # "waiting" /\ a.at \in Nat
  BY DEF InState, AgentType
<1>3. AgentFits(d, mode, from, M)
  BY <1>1, <1>2, GrownFits
<1>4. /\ M \in Seq(LifeType) /\ Len(M) = Len(L)
      /\ M[Len(L)].len = s.len /\ M[Len(L)].closed = s.closed
  BY GrownLives
<1>5. a.at = L[Len(L)].len
  BY DEF AgentFits
<1>6. s \in StreamSeen /\ s.life = Len(L) /\ Len(L) > 0
  BY DEF Grows
<1>7. a.at <= s.len /\ (a.at = s.len => s.closed)
  BY <1>5 DEF Grows
<1>8. mode = "sse" \/ Len(M) <= 1 => BeginsAt(a.off, a.at)
  <2>1. mode = "sse" \/ Len(L) <= 1 => a.off \in {a.at, FromNow}
    BY DEF AgentFits
  <2> QED BY <1>2, <1>4, <2>1 DEF BeginsAt, FromNow, FromBegin
<1>9. Len(M) > 0 /\ Len(M) = s.life /\ M[Len(M)].len = s.len /\ M[Len(M)].closed = s.closed
  BY <1>4, <1>6
<1> QED BY <1>1, <1>2, <1>3, <1>4, <1>6, <1>7, <1>8, <1>9

LEMMA WokenPollFits ==
  ASSUME interval \in Nat, NEW a \in AgentType, NEW mode, NEW from, NEW L \in Seq(LifeType),
         AgentFits(a, mode, from, L), a.state = "waiting", a.eof = 0, CopyFits(a), mode # "sse",
         NEW s, Grows(L, s), NEW M, M = GrownTo(L, s),
         NEW j \in 1 .. MaxJitter, NEW ans, ans = WokenPoll(s, a, j)
  PROVE  /\ Receive(a, ans) \in AgentType /\ AgentFits(Receive(a, ans), mode, from, M)
         /\ CopyFits(Receive(a, ans)) /\ Receive(a, ans).state # "waiting"
         /\ Entry(a, ans) \in EntryType /\ EntryFits(Entry(a, ans), M)
<1>1. PICK d : d = InState(a, "idle")
  OBVIOUS
<1>2. /\ d \in AgentType /\ AgentFits(d, mode, from, M) /\ CopyFits(d) /\ d.eof = 0
      /\ d.off = a.off /\ a.at \in Nat /\ a.at <= s.len /\ (a.at = s.len => s.closed)
      /\ mode = "sse" \/ Len(M) <= 1 => BeginsAt(a.off, a.at)
      /\ M \in Seq(LifeType) /\ Len(M) > 0 /\ Len(M) = s.life /\ s \in StreamSeen
      /\ M[Len(M)].len = s.len /\ M[Len(M)].closed = s.closed
  BY <1>1, WaiterFacts
<1>3. /\ ans \in AnswerType /\ Carries(ans, s.life, a.at)
      /\ ans.off <= s.len /\ (ans.eof # 0 => ans.eof = s.life /\ s.closed /\ ans.off = s.len)
  BY <1>2, WokenAnswers
<1>4. EndsRight(ans, Len(M), M[Len(M)])
  BY <1>2, <1>3 DEF EndsRight
<1>5. PICK f \in Nat : f = a.at
  BY <1>2
<1>6. Carries(ans, Len(M), f) /\ (Len(M) <= 1 => BeginsAt(a.off, f))
  BY <1>2, <1>3, <1>5
<1>7. PICK e : e = Entry(a, ans)
  OBVIOUS
<1>8. e \in EntryType /\ EntryFits(e, M)
  BY <1>2, <1>3, <1>4, <1>6, <1>7, NewEntry
<1>9. e.off = d.off /\ e.answer = ans
  BY <1>2, <1>7 DEF Entry
<1>10. AgentFits(Receive(d, e.answer), mode, from, M)
  BY <1>2, <1>8, <1>9, EntryAnswers
<1>11. Receive(d, ans) = Receive(a, ans)
  BY <1>1, <1>3, ReceiveIdle
<1>12. AgentFits(Receive(a, ans), mode, from, M)
  BY <1>9, <1>10, <1>11
<1>13. /\ Receive(a, ans) \in AgentType /\ CopyFits(Receive(a, ans))
       /\ Receive(a, ans).state # "waiting"
  BY <1>3, ReceiveStops
<1> QED BY <1>7, <1>8, <1>12, <1>13

LEMMA WokenTurnFits ==
  ASSUME NEW a \in AgentType, NEW mode, NEW from, NEW L \in Seq(LifeType),
         AgentFits(a, mode, from, L), a.state = "waiting", a.eof = 0, CopyFits(a), mode = "sse",
         NEW s, Grows(L, s), NEW M, M = GrownTo(L, s), NEW b, b = SSETurn(s, a, a.at)
  PROVE  b \in AgentType /\ AgentFits(b, mode, from, M) /\ CopyFits(b)
<1>1. PICK d : d = InState(a, "idle")
  OBVIOUS
<1>2. /\ d \in AgentType /\ AgentFits(d, mode, from, M) /\ CopyFits(d) /\ d.eof = 0
      /\ d.off = a.off /\ a.at \in Nat /\ a.at <= s.len /\ (a.at = s.len => s.closed)
      /\ mode = "sse" \/ Len(M) <= 1 => BeginsAt(a.off, a.at)
      /\ M \in Seq(LifeType) /\ Len(M) > 0 /\ Len(M) = s.life /\ s \in StreamSeen
      /\ M[Len(M)].len = s.len /\ M[Len(M)].closed = s.closed
  BY <1>1, WaiterFacts
<1>3. LastIs(M, s)
  BY <1>2 DEF LastIs
<1>4. PICK f \in Nat : f = a.at
  BY <1>2
<1>5. Starts(d.off, f, f, s.len)
  BY <1>2, <1>4 DEF Starts
<1>6. PICK ans : ans = ReadResponse(s, ReadFrom(s, f), 0)
  OBVIOUS
<1>7. ans \in AnswerType
  BY <1>2, <1>6, ReadAnswers
<1>8. Receive(d, ans) = Receive(a, ans)
  BY <1>1, <1>7, ReceiveIdle
<1>9. SSETurn(s, a, f) = IF ans.eof # 0 THEN Receive(a, ans)
                         ELSE WaitsAt(Receive(a, ans), ans.off)
  BY <1>6 DEF SSETurn, WaitsAt
<1>10. SSETurn(s, d, f) = IF ans.eof # 0 THEN Receive(d, ans)
                          ELSE WaitsAt(Receive(d, ans), ans.off)
  BY <1>6 DEF SSETurn, WaitsAt
<1>11. b = SSETurn(s, d, f)
  BY <1>4, <1>8, <1>9, <1>10
<1> QED BY <1>2, <1>3, <1>5, <1>11, TurnFits

LEMMA WriteKeeps ==
  ASSUME HttpInv, exists, NEW s, Grows(lives, s), Write(s)
  PROVE  HttpInv'
<1>1. /\ lives \in Seq(LifeType) /\ agents \in [HttpClients -> AgentType] /\ interval \in Nat
      /\ edge \subseteq EntryType
  BY DEF HttpInv, HttpTypeOK
<1>2. PICK M : M = GrownTo(lives, s)
  OBVIOUS
<1>3. lives' = M /\ UNCHANGED <<httpSetup, exists, interval>>
  BY <1>2 DEF Write, GrownTo
<1>4. PICK jitter \in [HttpClients -> 1 .. MaxJitter] :
        /\ agents' = [c \in HttpClients |->
             CASE c \in WaitingIn("long-poll")
                    -> Receive(agents[c], WokenPoll(s, agents[c], jitter[c]))
               [] c \in WaitingIn("sse") -> SSETurn(s, agents[c], agents[c].at)
               [] OTHER                  -> agents[c]]
        /\ Remember({Entry(agents[c], WokenPoll(s, agents[c], jitter[c])) :
                       c \in WaitingIn("long-poll")})
  BY DEF Write
<1>5. ASSUME NEW c \in WaitingIn("long-poll")
      PROVE  LET b == Receive(agents[c], WokenPoll(s, agents[c], jitter[c]))
                 e == Entry(agents[c], WokenPoll(s, agents[c], jitter[c]))
             IN /\ b \in AgentType /\ AgentFits(b, Mode(c), StartOffset(c), M) /\ CopyFits(b)
                /\ e \in EntryType /\ EntryFits(e, M)
  <2>1. PICK a : a = agents[c]
    OBVIOUS
  <2>2. c \in HttpClients /\ a.state = "waiting"
    BY <2>1 DEF WaitingIn
  <2>3. PICK mode : mode = Mode(c) /\ mode # "sse"
    BY DEF WaitingIn
  <2>4. a \in AgentType /\ AgentFits(a, mode, StartOffset(c), lives) /\ CopyFits(a) /\ a.eof = 0
    BY <2>1, <2>2, <2>3, ClientFacts
  <2>5. PICK j \in 1 .. MaxJitter : j = jitter[c]
    BY <2>2
  <2>6. PICK ans : ans = WokenPoll(s, a, j)
    OBVIOUS
  <2>7. /\ Receive(a, ans) \in AgentType /\ AgentFits(Receive(a, ans), mode, StartOffset(c), M)
        /\ CopyFits(Receive(a, ans))
        /\ Entry(a, ans) \in EntryType /\ EntryFits(Entry(a, ans), M)
    BY <1>1, <1>2, <2>2, <2>3, <2>4, <2>6, WokenPollFits
  <2>8. ans = WokenPoll(s, agents[c], jitter[c])
    BY <2>1, <2>5, <2>6
  <2> QED BY <2>1, <2>3, <2>7, <2>8
<1>6. ASSUME NEW c \in HttpClients
      PROVE  /\ agents'[c] \in AgentType /\ AgentFits(agents'[c], Mode(c), StartOffset(c), M)
             /\ CopyFits(agents'[c])
  <2>1. PICK a : a = agents[c]
    OBVIOUS
  <2>2. /\ a \in AgentType /\ AgentFits(a, Mode(c), StartOffset(c), lives) /\ CopyFits(a)
        /\ a.state # "over" => a.eof = 0
    BY <2>1, ClientFacts
  <2>3. CASE c \in WaitingIn("long-poll")
    <3>1. c \notin WaitingIn("sse")
      BY <2>3 DEF WaitingIn
    <3>2. agents'[c] = Receive(agents[c], WokenPoll(s, agents[c], jitter[c]))
      BY <1>4, <2>3, <3>1
    <3> QED BY <1>5, <2>3, <3>2
  <2>4. CASE c \in WaitingIn("sse")
    <3>1. c \notin WaitingIn("long-poll") /\ a.state = "waiting"
      BY <2>1, <2>4 DEF WaitingIn
    <3>2. PICK b : b = SSETurn(s, a, a.at)
      OBVIOUS
    <3>3. b = agents'[c]
      BY <1>4, <2>1, <2>4, <3>1, <3>2
    <3>4. PICK mode : mode = Mode(c) /\ mode = "sse"
      BY <2>4 DEF WaitingIn
    <3>5. AgentFits(a, mode, StartOffset(c), lives) /\ a.eof = 0
      BY <2>2, <3>1, <3>4
    <3>6. b \in AgentType /\ AgentFits(b, mode, StartOffset(c), M) /\ CopyFits(b)
      BY <1>1, <1>2, <2>2, <3>1, <3>2, <3>4, <3>5, WokenTurnFits
    <3> QED BY <3>3, <3>4, <3>6
  <2>5. CASE c \notin WaitingIn("long-poll") /\ c \notin WaitingIn("sse")
    <3>1. agents'[c] = a
      BY <1>4, <2>1, <2>5
    <3>2. a.state # "waiting"
      <4>1. a.state = "waiting" => Mode(c) # "conditional"
        BY <2>2 DEF AgentFits
      <4>2. Mode(c) \in {"conditional", "long-poll", "sse"}
        BY ClientFacts
      <4> QED BY <2>1, <2>5, <4>1, <4>2 DEF WaitingIn
    <3>3. AgentFits(a, Mode(c), StartOffset(c), M)
      BY <1>1, <1>2, <2>2, <3>2, GrownFits
    <3> QED BY <2>2, <3>1, <3>3
  <2> QED BY <2>3, <2>4, <2>5
<1>7. agents' \in [HttpClients -> AgentType]
  <2>1. agents' = [c \in HttpClients |-> agents'[c]]
    BY <1>4
  <2>2. PICK F : F = agents'
    OBVIOUS
  <2>3. F = [c \in HttpClients |-> F[c]] /\ \A c \in HttpClients : F[c] \in AgentType
    BY <1>6, <2>1, <2>2
  <2>4. F \in [HttpClients -> AgentType]
    BY <2>3
  <2> QED BY <2>2, <2>4
<1>8. \A e \in edge' : e \in EntryType /\ EntryFits(e, M)
  <2>1. PICK new : new = {Entry(agents[c], WokenPoll(s, agents[c], jitter[c])) :
                            c \in WaitingIn("long-poll")}
    OBVIOUS
  <2>2. Remember(new)
    BY <1>4, <2>1
  <2>3. edge' \subseteq edge \cup new
    BY <2>2, Remembers
  <2>4. \A e \in new : e \in EntryType /\ EntryFits(e, M)
    BY <1>5, <2>1
  <2>5. \A e \in edge : e \in EntryType /\ EntryFits(e, M)
    <3>1. \A e \in edge : e \in EntryType /\ EntryFits(e, lives)
      BY DEF HttpInv, HttpTypeOK
    <3> QED BY <1>1, <1>2, <3>1, GrownEntry
  <2> QED BY <2>3, <2>4, <2>5
<1>9. M \in Seq(LifeType) /\ Len(M) > 0
  <2>1. M \in Seq(LifeType) /\ Len(M) = Len(lives)
    BY <1>1, <1>2, GrownLives
  <2> QED BY <2>1 DEF Grows
<1>10. /\ lives' \in Seq(LifeType) /\ exists' \in BOOLEAN /\ (exists' => Len(lives') > 0)
       /\ interval' \in Nat
  BY <1>1, <1>3, <1>9 DEF HttpInv, HttpTypeOK
<1>11. \A c \in HttpClients : AgentFits(agents'[c], Mode(c), StartOffset(c), lives')
  BY <1>3, <1>6
<1>12. \A e \in edge' : e \in EntryType /\ EntryFits(e, lives')
  BY <1>3, <1>8
<1>13. \A c \in HttpClients : agents'[c].state = "waiting" => exists'
  BY <1>3
<1> QED BY <1>3, <1>6, <1>7, <1>10, <1>11, <1>12, <1>13, Together

LEMMA PostMessageKeeps ==
  ASSUME HttpInv, NEW close \in BOOLEAN, PostMessage(close)
  PROVE  HttpInv'
<1>1. exists /\ ~Current.closed
  BY DEF PostMessage
<1>2. PICK s : s = StreamAt(Life, Current.len + 1, close)
  OBVIOUS
<1>3. Write(s)
  BY <1>2 DEF PostMessage
<1>4. /\ Current.len = lives[Len(lives)].len /\ Current.closed = lives[Len(lives)].closed
      /\ Current.len \in Nat /\ Len(lives) > 0
  BY <1>1, CurrentFacts
<1>5. PICK n \in Nat : n = Current.len
  BY <1>4
<1>6. Len(lives) \in Nat
  BY DEF HttpInv, HttpTypeOK
<1>7. s \in StreamSeen /\ s.life = Len(lives) /\ s.len = n + 1
  BY <1>2, <1>5, <1>6 DEF StreamAt, StreamSeen, Life
<1>8. s.len >= lives[Len(lives)].len /\ s.len # lives[Len(lives)].len
  BY <1>4, <1>5, <1>7
<1>9. ~lives[Len(lives)].closed
  BY <1>1, <1>4
<1>10. Grows(lives, s)
  BY <1>4, <1>7, <1>8, <1>9 DEF Grows
<1> QED BY <1>1, <1>3, <1>10, WriteKeeps

LEMMA PostCloseKeeps ==
  ASSUME HttpInv, PostClose
  PROVE  HttpInv'
<1>1. exists /\ ~Current.closed
  BY DEF PostClose
<1>2. PICK s : s = StreamAt(Life, Current.len, TRUE)
  OBVIOUS
<1>3. Write(s)
  BY <1>2 DEF PostClose
<1>4. /\ Current.len = lives[Len(lives)].len /\ Current.closed = lives[Len(lives)].closed
      /\ Current.len \in Nat /\ Len(lives) > 0
  BY <1>1, CurrentFacts
<1>5. PICK n \in Nat : n = Current.len
  BY <1>4
<1>6. Len(lives) \in Nat
  BY DEF HttpInv, HttpTypeOK
<1>7. s \in StreamSeen /\ s.life = Len(lives) /\ s.len = n /\ s.closed
  BY <1>2, <1>5, <1>6 DEF StreamAt, StreamSeen, Life
<1>8. s.len >= lives[Len(lives)].len
  BY <1>4, <1>5, <1>7
<1>9. ~lives[Len(lives)].closed
  BY <1>1, <1>4
<1>10. Grows(lives, s)
  BY <1>4, <1>7, <1>8, <1>9 DEF Grows
<1> QED BY <1>1, <1>3, <1>10, WriteKeeps

-----------------------------------------------------------------------------
(* stop() and the rest *)

\* What a wait that stop() ends is answered with.
LEMMA StoppedAnswer ==
  ASSUME HttpInv, NEW c \in WaitingIn("long-poll"), NEW cu
  PROVE  ReadResponse(Current, <<>>, cu) = HttpAnswer(<<>>, agents[c].at, cu, 0)
<1>1. PICK a : a = agents[c]
  OBVIOUS
<1>2. c \in HttpClients /\ a.state = "waiting"
  BY <1>1 DEF WaitingIn
<1>3. AgentFits(a, Mode(c), StartOffset(c), lives) /\ exists
  BY <1>1, <1>2, ClientFacts
<1>4. a.at = lives[Len(lives)].len /\ ~lives[Len(lives)].closed
  BY <1>2, <1>3 DEF AgentFits
<1>5. Current.len = lives[Len(lives)].len /\ Current.closed = lives[Len(lives)].closed
  BY <1>3, CurrentFacts
<1>6. ~Current.closed /\ Current.len = a.at
  BY <1>4, <1>5
<1> QED BY <1>1, <1>6 DEF ReadResponse, HttpAnswer

LEMMA StopServerKeeps ==
  ASSUME HttpInv, StopServer
  PROVE  HttpInv'
<1>1. /\ lives \in Seq(LifeType) /\ agents \in [HttpClients -> AgentType] /\ interval \in Nat
      /\ edge \subseteq EntryType
  BY DEF HttpInv, HttpTypeOK
<1>2. UNCHANGED <<httpSetup, lives, exists, interval>>
  BY DEF StopServer
<1>3. PICK reached \in SUBSET (WaitingIn("long-poll") \cup WaitingIn("sse")),
           j \in 1 .. MaxJitter :
        LET answer(c) == ReadResponse(Current, <<>>, GenerateResponseCursor(agents[c].cursor, j))
            polls     == reached \cap WaitingIn("long-poll")
        IN /\ agents' = [c \in HttpClients |->
                CASE c \in polls -> Receive(agents[c], answer(c))
                  [] c \in WaitingIn("sse") \/ agents[c].state = "hung"
                       -> [agents[c] EXCEPT !.state = "idle"]
                  [] OTHER -> agents[c]]
           /\ Remember({Entry(agents[c], answer(c)) : c \in polls})
  BY DEF StopServer
<1>4. PICK polls : polls = reached \cap WaitingIn("long-poll")
  OBVIOUS
<1> DEFINE answer(c) == ReadResponse(Current, <<>>, GenerateResponseCursor(agents[c].cursor, j))
<1>5. agents' = [c \in HttpClients |->
                CASE c \in polls -> Receive(agents[c], answer(c))
                  [] c \in WaitingIn("sse") \/ agents[c].state = "hung"
                       -> InState(agents[c], "idle")
                  [] OTHER -> agents[c]]
  BY <1>3, <1>4 DEF InState
<1>6. Remember({Entry(agents[c], answer(c)) : c \in polls})
  BY <1>3, <1>4
<1>7. ASSUME NEW c \in polls
      PROVE  /\ answer(c) \in AnswerType /\ Entry(agents[c], answer(c)) \in EntryType
             /\ EntryFits(Entry(agents[c], answer(c)), lives)
  <2>1. c \in WaitingIn("long-poll") /\ c \in HttpClients
    BY <1>4 DEF WaitingIn
  <2>2. agents[c].cursor \in Nat
    BY <1>1, <2>1 DEF AgentType
  <2>3. PICK cu \in Nat : cu = GenerateResponseCursor(agents[c].cursor, j)
    BY <1>1, <2>2, CursorTyped
  <2>4. answer(c) = ReadResponse(Current, <<>>, cu)
    BY <2>3
  <2>5. answer(c) = HttpAnswer(<<>>, agents[c].at, cu, 0)
    BY <2>1, <2>4, StoppedAnswer
  <2>6. PICK ans : ans = answer(c)
    OBVIOUS
  <2>7. ans = HttpAnswer(<<>>, agents[c].at, cu, 0)
    BY <2>5, <2>6
  <2> HIDE DEF answer
  <2>8. /\ ans \in AnswerType /\ Entry(agents[c], ans) \in EntryType
        /\ EntryFits(Entry(agents[c], ans), lives)
    BY <2>1, <2>7, NoNews
  <2> QED BY <2>6, <2>8
<1> HIDE DEF answer
<1>8. ASSUME NEW c \in HttpClients
      PROVE  /\ agents'[c] \in AgentType /\ AgentFits(agents'[c], Mode(c), StartOffset(c), lives)
             /\ CopyFits(agents'[c]) /\ (agents'[c].state = "waiting" => exists)
  <2>1. PICK a : a = agents[c]
    OBVIOUS
  <2>2. /\ a \in AgentType /\ AgentFits(a, Mode(c), StartOffset(c), lives) /\ CopyFits(a)
        /\ (a.state = "waiting" => exists)
        /\ a.state # "over" => a.eof = 0
    BY <2>1, ClientFacts
  <2>3. CASE c \in polls
    <3>1. c \notin WaitingIn("sse") /\ a.state = "waiting" /\ Mode(c) # "sse"
      BY <1>4, <2>1, <2>3 DEF WaitingIn
    <3>2. PICK ans : ans = answer(c)
      OBVIOUS
    <3>3. agents'[c] = Receive(a, ans)
      BY <1>5, <2>1, <2>3, <3>1, <3>2
    <3>4. ans \in AnswerType /\ Entry(a, ans) \in EntryType /\ EntryFits(Entry(a, ans), lives)
      BY <1>7, <2>1, <2>3, <3>2
    <3>5. PICK e \in EntryType : e = Entry(a, ans)
      BY <3>4
    <3>6. e.off = a.off /\ e.answer = ans /\ EntryFits(e, lives)
      BY <3>4, <3>5 DEF Entry
    <3>7. PICK mode : mode = Mode(c) /\ mode # "sse"
      BY <3>1
    <3>8. AgentFits(a, mode, StartOffset(c), lives) /\ a.eof = 0
      BY <2>2, <3>1, <3>7
    <3>9. AgentFits(Receive(a, e.answer), mode, StartOffset(c), lives)
      BY <1>1, <2>2, <3>6, <3>7, <3>8, EntryAnswers
    <3>10. /\ Receive(a, ans) \in AgentType /\ CopyFits(Receive(a, ans))
           /\ Receive(a, ans).state # "waiting"
      BY <2>2, <3>4, ReceiveStops
    <3> QED BY <3>3, <3>6, <3>7, <3>9, <3>10
  <2>4. CASE c \notin polls /\ (c \in WaitingIn("sse") \/ agents[c].state = "hung")
    <3>1. a.state # "over"
      BY <2>1, <2>4 DEF WaitingIn
    <3>2. PICK b : b = InState(a, "idle")
      OBVIOUS
    <3>3. b = agents'[c]
      BY <1>5, <2>1, <2>4, <3>2
    <3>4. b \in AgentType /\ AgentFits(b, Mode(c), StartOffset(c), lives) /\ CopyFits(b)
      BY <2>2, <3>1, <3>2, StateOnly
    <3>5. b.state # "waiting"
      BY <2>2, <3>2 DEF InState, AgentType
    <3> QED BY <3>3, <3>4, <3>5
  <2>5. CASE c \notin polls /\ ~(c \in WaitingIn("sse") \/ agents[c].state = "hung")
    <3>1. agents'[c] = a
      BY <1>5, <2>1, <2>5
    <3> QED BY <2>2, <3>1
  <2> QED BY <2>3, <2>4, <2>5
<1>9. agents' \in [HttpClients -> AgentType]
  <2>1. agents' = [c \in HttpClients |-> agents'[c]]
    BY <1>5
  <2>2. PICK F : F = agents'
    OBVIOUS
  <2>3. F = [c \in HttpClients |-> F[c]] /\ \A c \in HttpClients : F[c] \in AgentType
    BY <1>8, <2>1, <2>2
  <2>4. F \in [HttpClients -> AgentType]
    BY <2>3
  <2> QED BY <2>2, <2>4
<1>10. \A e \in edge' : e \in EntryType /\ EntryFits(e, lives)
  <2>1. PICK new : new = {Entry(agents[c], answer(c)) : c \in polls}
    OBVIOUS
  <2>2. edge' \subseteq edge \cup new
    BY <1>6, <2>1, Remembers
  <2>3. \A e \in new : e \in EntryType /\ EntryFits(e, lives)
    BY <1>7, <2>1
  <2>4. \A e \in edge : e \in EntryType /\ EntryFits(e, lives)
    BY DEF HttpInv, HttpTypeOK
  <2> QED BY <2>2, <2>3, <2>4
<1>11. /\ lives' \in Seq(LifeType) /\ exists' \in BOOLEAN /\ (exists' => Len(lives') > 0)
       /\ interval' \in Nat
  BY <1>1, <1>2 DEF HttpInv, HttpTypeOK
<1>12. \A c \in HttpClients : AgentFits(agents'[c], Mode(c), StartOffset(c), lives')
  BY <1>2, <1>8
<1>13. \A e \in edge' : e \in EntryType /\ EntryFits(e, lives')
  BY <1>2, <1>10
<1>14. \A c \in HttpClients : agents'[c].state = "waiting" => exists'
  BY <1>2, <1>8
<1> QED BY <1>2, <1>8, <1>9, <1>11, <1>12, <1>13, <1>14, Together

\* Steps that leave the streams, the clients and the cache as they are.
LEMMA NothingMoves ==
  ASSUME HttpInv, UNCHANGED <<httpSetup, lives, exists, agents, edge>>, interval' \in Nat
  PROVE  HttpInv'
<1>1. \A c \in HttpClients : Mode(c)' = Mode(c) /\ StartOffset(c)' = StartOffset(c)
  BY DEF Mode, StartOffset
<1>2. HttpTypeOK'
  BY DEF HttpInv, HttpTypeOK
<1>3. \A c \in HttpClients : AgentFits(agents'[c], Mode(c)', StartOffset(c)', lives')
  BY <1>1 DEF HttpInv
<1> QED BY <1>2, <1>3 DEF HttpInv

LEMMA HttpInitially == HttpInit => HttpInv
<1> SUFFICES ASSUME HttpInit PROVE HttpInv
  OBVIOUS
<1>1. httpSetup \in HttpSetup
  BY HttpAssumption DEF HttpInit
<1>2. <<>> \in Seq(LifeType) /\ <<>> \in Seq(MessageId) /\ Len(<<>>) = 0
  OBVIOUS
<1>3. lives = <<>> /\ exists = FALSE /\ edge = {} /\ interval = 1
  BY DEF HttpInit
<1>4. ASSUME NEW c \in HttpClients
      PROVE  /\ agents[c] \in AgentType
             /\ AgentFits(agents[c], Mode(c), StartOffset(c), lives) /\ CopyFits(agents[c])
             /\ agents[c].state # "waiting"
  <2>1. PICK from : from = StartOffset(c) /\ from \in {FromBegin, FromNow}
    BY <1>1 DEF HttpSetup, StartOffset
  <2>2. PICK a : a = NewAgent(from)
    OBVIOUS
  <2>3. agents[c] = a
    BY <2>1, <2>2 DEF HttpInit
  <2>4. PICK z : z = NoStreamYet
    OBVIOUS
  <2>5. z \in StreamSeen
    BY <2>4 DEF NoStreamYet, StreamAt, StreamSeen
  <2>6. PICK g \in Seq(MessageId) : g = <<>> /\ Len(g) = 0
    BY <1>2
  <2>7. a = [state |-> "idle", off |-> from, at |-> 0, cursor |-> 0, got |-> g,
             eof |-> 0, copy |-> z, truth |-> z]
    BY <2>2, <2>4, <2>6 DEF NewAgent
  <2>8. from \in HttpOffset /\ from \notin Nat
    BY <2>1 DEF HttpOffset, FromBegin, FromNow
  <2>9. /\ a \in AgentType /\ a.state = "idle" /\ a.off = from /\ a.got = g /\ a.eof = 0
        /\ a.copy = z /\ a.truth = z
    BY <2>5, <2>6, <2>7, <2>8 DEF AgentType
  <2>10. CopyFits(a)
    BY <2>9 DEF CopyFits
  <2>11. Consecutive(g) /\ LeadsTo(g, from, lives) /\ EofFits(0, g, lives)
    BY <2>6 DEF Consecutive, LeadsTo, EofFits
  <2>12. from = FromBegin => FromFirst(0, g, from, lives)
    BY <2>6 DEF FromFirst
  <2>13. AgentFits(a, Mode(c), from, lives)
    BY <2>8, <2>9, <2>11, <2>12 DEF AgentFits
  <2> QED BY <2>1, <2>3, <2>9, <2>10, <2>13
<1>5. agents \in [HttpClients -> AgentType]
  <2>1. agents = [c \in HttpClients |-> NewAgent(StartOffset(c))]
    BY DEF HttpInit
  <2>2. agents = [c \in HttpClients |-> agents[c]]
    BY <2>1
  <2>3. PICK F : F = agents
    OBVIOUS
  <2>4. F = [c \in HttpClients |-> F[c]] /\ \A c \in HttpClients : F[c] \in AgentType
    BY <1>4, <2>2, <2>3
  <2>5. F \in [HttpClients -> AgentType]
    BY <2>4
  <2> QED BY <2>3, <2>5
<1>6. HttpTypeOK
  BY <1>1, <1>2, <1>3, <1>5 DEF HttpTypeOK
<1> QED BY <1>3, <1>4, <1>6 DEF HttpInv

LEMMA HttpSteps == HttpInv /\ [HttpNext]_httpVars => HttpInv'
<1> SUFFICES ASSUME HttpInv, [HttpNext]_httpVars PROVE HttpInv'
  OBVIOUS
<1>1. interval \in Nat
  BY DEF HttpInv, HttpTypeOK
<1>2. CASE UNCHANGED httpVars
  BY <1>1, <1>2, NothingMoves DEF httpVars
<1>3. CASE \E c \in HttpClients : HttpRequest(c) \/ PollTimesOut(c) \/ Disconnect(c)
  <2>1. PICK c \in HttpClients : HttpRequest(c) \/ PollTimesOut(c) \/ Disconnect(c)
    BY <1>3
  <2>2. CASE GetNothing(c)
    BY <2>2, GetNothingKeeps
  <2>3. CASE GetConditional(c)
    BY <2>3, GetConditionalKeeps
  <2>4. CASE GetLongPoll(c)
    BY <2>4, GetLongPollKeeps
  <2>5. CASE GetFromCache(c)
    BY <2>5, GetFromCacheKeeps
  <2>6. CASE OpenSSE(c)
    BY <2>6, OpenSSEKeeps
  <2>7. CASE ConsumeInjectedFault(c)
    BY <1>1, <2>7, NothingMoves DEF ConsumeInjectedFault
  <2>8. CASE PollTimesOut(c)
    BY <2>8, PollTimesOutKeeps
  <2>9. CASE Disconnect(c)
    BY <2>9, DisconnectKeeps
  <2> QED BY <2>1, <2>2, <2>3, <2>4, <2>5, <2>6, <2>7, <2>8, <2>9 DEF HttpRequest
<1>4. CASE \E len \in 0 .. 1, closed \in BOOLEAN : PutStream(len, closed)
  BY <1>4, PutStreamKeeps
<1>5. CASE \E close \in BOOLEAN : PostMessage(close)
  BY <1>5, PostMessageKeeps
<1>6. CASE PostClose
  BY <1>6, PostCloseKeeps
<1>7. CASE DeleteStream
  BY <1>7, DeleteStreamKeeps
<1>8. CASE IntervalPasses
  BY <1>1, <1>8, NothingMoves DEF IntervalPasses
<1>9. CASE StopServer
  BY <1>9, StopServerKeeps
<1>10. CASE StartServer
  BY <1>1, <1>10, NothingMoves DEF StartServer
<1>11. CASE InjectFault(1)
  BY <1>1, <1>11, NothingMoves DEF InjectFault
<1>12. CASE ClearInjectedFaults
  BY <1>1, <1>12, NothingMoves DEF ClearInjectedFaults
<1> QED BY <1>2, <1>3, <1>4, <1>5, <1>6, <1>7, <1>8, <1>9, <1>10, <1>11, <1>12 DEF HttpNext

LEMMA AnswersFit == HttpInv => AnswersFollowLog
<1> SUFFICES ASSUME HttpInv, NEW c \in HttpClients, NEW a, a = agents[c]
             PROVE
      /\ Mode(c) = "sse" \/ Life = 1 => \A k \in DOMAIN a.got :
            IF k = 1 THEN StartOffset(c) = FromBegin /\ Life = 1 => a.got[k][2] = 1
            ELSE a.got[k][1] = a.got[k - 1][1] => a.got[k][2] = a.got[k - 1][2] + 1
      /\ a.eof # 0 /\ (Mode(c) = "sse" \/ Life = 1) =>
            /\ lives[a.eof].closed
            /\ a.got # <<>> /\ Last(a.got)[1] = a.eof => Last(a.got)[2] = lives[a.eof].len
            /\ a.got = <<>> /\ StartOffset(c) = FromBegin /\ Life = 1 => Current.len = 0
      /\ a.copy.life = a.truth.life => a.copy = a.truth
  BY DEF AnswersFollowLog
<1>1. /\ a \in AgentType /\ AgentFits(a, Mode(c), StartOffset(c), lives) /\ CopyFits(a)
      /\ lives \in Seq(LifeType)
  BY ClientFacts
<1>2. PICK g \in Seq(MessageId) : g = a.got
  BY <1>1 DEF AgentType
<1>3. PICK n \in Nat : n = Len(g)
  OBVIOUS
<1>4. DOMAIN g = 1 .. n /\ (g # <<>> => n > 0 /\ Last(g) = g[n]) /\ (g = <<>> => n = 0)
  BY <1>3 DEF Last
<1>5. Mode(c) = "sse" \/ Life = 1 => Consecutive(g) /\ EofFits(a.eof, g, lives)
  BY <1>1, <1>2 DEF AgentFits, Life
<1>6. StartOffset(c) = FromBegin /\ Life = 1 => FromFirst(a.eof, g, a.off, lives)
  BY <1>1, <1>2 DEF AgentFits, Life
<1>7. ASSUME Mode(c) = "sse" \/ Life = 1, NEW k \in 1 .. n
      PROVE  IF k = 1 THEN StartOffset(c) = FromBegin /\ Life = 1 => g[k][2] = 1
             ELSE g[k][1] = g[k - 1][1] => g[k][2] = g[k - 1][2] + 1
  <2>1. CASE k = 1
    <3>1. StartOffset(c) = FromBegin /\ Life = 1 => g[1][2] = 1
      BY <1>3, <1>6, <1>7, <2>1 DEF FromFirst
    <3> QED BY <2>1, <3>1
  <2>2. CASE k # 1
    <3>1. k \in 2 .. n
      BY <1>7, <2>2
    <3> QED BY <1>3, <1>5, <1>7, <2>2, <3>1 DEF Consecutive
  <2> QED BY <2>1, <2>2
<1>8. ASSUME a.eof # 0, Mode(c) = "sse" \/ Life = 1
      PROVE  /\ lives[a.eof].closed
             /\ g # <<>> /\ Last(g)[1] = a.eof => Last(g)[2] = lives[a.eof].len
             /\ g = <<>> /\ StartOffset(c) = FromBegin /\ Life = 1 => Current.len = 0
  <2>1. /\ a.eof \in 1 .. Len(lives) /\ lives[a.eof].closed
        /\ n > 0 /\ g[n][1] = a.eof => g[n][2] = lives[a.eof].len
    BY <1>3, <1>5, <1>8 DEF EofFits
  <2>2. g # <<>> /\ Last(g)[1] = a.eof => Last(g)[2] = lives[a.eof].len
    BY <1>4, <2>1
  <2>3. ASSUME g = <<>>, StartOffset(c) = FromBegin, Life = 1
        PROVE  Current.len = 0
    <3>1. lives[a.eof].len = 0
      BY <1>3, <1>4, <1>6, <1>8, <2>3 DEF FromFirst
    <3>2. a.eof = Life
      BY <2>1, <2>3 DEF Life
    <3> QED BY <3>1, <3>2 DEF Current, StreamAt
  <2> QED BY <2>1, <2>2, <2>3
<1>9. a.copy.life = a.truth.life => a.copy = a.truth
  BY <1>1 DEF CopyFits
<1> QED BY <1>2, <1>4, <1>7, <1>8, <1>9

\* What the GETs of every client add up to: its messages follow one another, its
\* Stream-Closed comes with the last of them or later, a 304 stands for what the
\* stream is: with any number of clients, any cache, any timeouts, stops and faults.
THEOREM AnswersFollowTheLog == HttpSpec => []AnswersFollowLog
<1>1. HttpSpec => []HttpInv
  BY HttpInitially, HttpSteps, PTL DEF HttpSpec
<1> QED BY <1>1, AnswersFit, PTL

-----------------------------------------------------------------------------
(* The proxy *)

\* The chunks of a body in their order, from the first one on.
Counting(s) == \A k \in 1 .. Len(s) : s[k] = k

PipeStep == {"read", "close", "rescue close", "over"} \cup FlushSteps
CallerStep == {"idle", "create", "resume", "store", "told", "reading", "done", "failed"}
Url == Upstreams \cup {CHOOSE u \in Upstreams : TRUE}

Stream == [there : BOOLEAN, stored : Seq(Nat), closed : BOOLEAN]
Pipe == [step : PipeStep, next : Nat, buffer : Seq(Nat), aborted : BOOLEAN]

\* The types of the streams and their pipes, one for each stream, and of the callers.
PipesTyped == proxied \in Seq(Stream) /\ pipes \in Seq(Pipe) /\ Len(pipes) = Len(proxied)
CallersTyped == callers \in [Callers -> [step : CallerStep, at : Nat, url : Url, got : Seq(Nat)]]

\* What the credentials, and a caller that was told of a stream, name is a stream.
Found ==
  /\ credentials \in 0 .. Len(proxied)
  /\ \A c \in Callers : callers[c].step \in {"resume", "told", "reading"} => callers[c].at \in 1 .. Len(proxied)

\* Pipe p has stored what s holds, and what it has gathered follows on it.
Follows(p, s) ==
  IF p.step \in {"read"} \cup FlushSteps
  THEN /\ p.next = Len(s.stored) + Len(p.buffer) + 1
       /\ \A k \in 1 .. Len(p.buffer) : p.buffer[k] = Len(s.stored) + k
  ELSE p.buffer = <<>>

PipeInv ==
  /\ PipesTyped
  /\ \A i \in 1 .. Len(proxied) : Counting(proxied[i].stored) /\ Follows(pipes[i], proxied[i])

CallerInv == CallersTyped /\ Found /\ \A c \in Callers : Counting(callers[c].got)

ProxyInv == PipeInv /\ CallerInv

-----------------------------------------------------------------------------
\* The first state: no stream, no pipe, and callers that have got nothing.
LEMMA ProxyStarts == ProxyInit => ProxyInv
  <1> SUFFICES ASSUME ProxyInit PROVE ProxyInv
    OBVIOUS
  <1> USE DEF ProxyInit
  <1>1. PipeInv
    BY DEF PipeInv, PipesTyped
  <1>2. CallersTyped
    BY DEF CallersTyped, Caller, CallerStep, Url
  <1>3. Found
    BY DEF Found, Caller
  <1>4. \A c \in Callers : Counting(callers[c].got)
    BY DEF Caller, Counting
  <1> QED
    BY <1>1, <1>2, <1>3, <1>4 DEF ProxyInv, CallerInv

\* A body that was counted up to now is still counted with the next chunk.
LEMMA CountingAppend ==
  ASSUME NEW s \in Seq(Nat), Counting(s), NEW x \in Nat, x = Len(s) + 1
  PROVE  Append(s, x) \in Seq(Nat) /\ Counting(Append(s, x))
  BY DEF Counting

\* What a batch adds to a stream goes on counting.
LEMMA CountingConcat ==
  ASSUME NEW s \in Seq(Nat), Counting(s), NEW t \in Seq(Nat), \A k \in 1 .. Len(t) : t[k] = Len(s) + k
  PROVE  s \o t \in Seq(Nat) /\ Counting(s \o t) /\ Len(s \o t) = Len(s) + Len(t)
  <1> DEFINE u == s \o t
  <1>1. u \in Seq(Nat) /\ Len(u) = Len(s) + Len(t)
    OBVIOUS
  <1>2. ASSUME NEW k \in 1 .. Len(u) PROVE u[k] = k
    <2>1. CASE k <= Len(s)
      BY <2>1 DEF Counting
    <2>2. CASE k > Len(s)
      <3>1. k - Len(s) \in 1 .. Len(t)
        BY <1>1, <2>2
      <3>2. u[k] = t[k - Len(s)]
        BY <1>1, <2>2, <3>1
      <3> QED
        BY <3>1, <3>2
    <2> QED
      BY <2>1, <2>2, <1>1
  <1> QED
    BY <1>1, <1>2 DEF Counting

\* A batch with a chunk more is not empty.
LEMMA AppendNotEmpty ==
  ASSUME NEW b \in Seq(Nat), NEW x \in Nat
  PROVE  Append(b, x) # <<>>
  OBVIOUS

\* The chunk that was read goes behind those that were gathered after the first m.
LEMMA GatheredAppend ==
  ASSUME NEW b \in Seq(Nat), NEW m \in Nat, \A k \in 1 .. Len(b) : b[k] = m + k,
         NEW x \in Nat, x = m + Len(b) + 1
  PROVE  /\ Append(b, x) \in Seq(Nat) /\ Append(b, x) # <<>> /\ Len(Append(b, x)) = Len(b) + 1
         /\ \A k \in 1 .. Len(Append(b, x)) : Append(b, x)[k] = m + k
  <1>1. Append(b, x) \in Seq(Nat) /\ Len(Append(b, x)) = Len(b) + 1
    OBVIOUS
  <1>2. Append(b, x) # <<>>
    BY AppendNotEmpty
  <1>3. \A k \in 1 .. Len(b) + 1 : Append(b, x)[k] = m + k
    OBVIOUS
  <1> QED
    BY <1>1, <1>2, <1>3

\* A sequence with one element replaced.
LEMMA SeqExcept ==
  ASSUME NEW S, NEW s \in Seq(S), NEW i \in 1 .. Len(s), NEW e \in S
  PROVE  /\ [s EXCEPT ![i] = e] \in Seq(S) /\ Len([s EXCEPT ![i] = e]) = Len(s)
         /\ [s EXCEPT ![i] = e][i] = e
         /\ \A k \in 1 .. Len(s) : k # i => [s EXCEPT ![i] = e][k] = s[k]
  OBVIOUS

-----------------------------------------------------------------------------
(* Steps of a pipe. *)

\* What a pipe is once its batch is gone.
LEMMA PipeEmptied ==
  ASSUME NEW p \in Pipe, NEW step \in PipeStep
  PROVE  /\ [p EXCEPT !.buffer = <<>>, !.step = step] \in Pipe
         /\ [p EXCEPT !.buffer = <<>>, !.step = step].step = step
         /\ [p EXCEPT !.buffer = <<>>, !.step = step].next = p.next
         /\ [p EXCEPT !.buffer = <<>>, !.step = step].buffer = <<>>
  <1>1. <<>> \in Seq(Nat)
    OBVIOUS
  <1> QED
    BY <1>1 DEF Pipe

\* A step that gives pipe i a new value.
LEMMA PipeReplaced ==
  ASSUME pipes \in Seq(Pipe), NEW i \in 1 .. Len(pipes), NEW p \in Pipe, pipes' = [pipes EXCEPT ![i] = p]
  PROVE  /\ pipes' \in Seq(Pipe) /\ Len(pipes') = Len(pipes) /\ pipes'[i] = p
         /\ \A k \in 1 .. Len(pipes) : k # i => pipes'[k] = pipes[k]
  BY SeqExcept

\* A step that only gives stream i and its pipe new values, which agree, keeps the invariant.
LEMMA PipeMoves ==
  ASSUME ProxyInv, NEW i \in 1 .. Len(proxied), NEW s \in Stream, NEW p \in Pipe,
         Counting(s.stored), Follows(p, s),
         proxied' = [proxied EXCEPT ![i] = s], pipes' = [pipes EXCEPT ![i] = p],
         UNCHANGED <<callers, credentials>>
  PROVE  ProxyInv'
  <1>1. PipesTyped' /\ Len(proxied') = Len(proxied)
    BY DEF ProxyInv, PipeInv, PipesTyped
  <1>2. ASSUME NEW k \in 1 .. Len(proxied)
        PROVE  Counting(proxied'[k].stored) /\ Follows(pipes'[k], proxied'[k])
    BY DEF ProxyInv, PipeInv, PipesTyped
  <1>3. PipeInv'
    <2>1. \A k \in 1 .. Len(proxied') : Counting(proxied'[k].stored) /\ Follows(pipes'[k], proxied'[k])
      BY <1>1, <1>2
    <2> QED
      BY <1>1, <2>1 DEF PipeInv, Counting, Follows
  <1>4. CallerInv'
    BY <1>1 DEF ProxyInv, CallerInv, CallersTyped, Found, Counting
  <1> QED
    BY <1>3, <1>4 DEF ProxyInv

\* What the invariant says of one pipe.
LEMMA PipeFacts ==
  ASSUME ProxyInv, NEW i \in DOMAIN pipes
  PROVE  /\ i \in 1 .. Len(proxied) /\ proxied[i] \in Stream /\ pipes[i] \in Pipe
         /\ Counting(proxied[i].stored) /\ Follows(pipes[i], proxied[i])
  <1>1. i \in 1 .. Len(proxied) /\ proxied[i] \in Stream /\ pipes[i] \in Pipe
    BY DEF ProxyInv, PipeInv, PipesTyped
  <1> QED
    BY <1>1 DEF ProxyInv, PipeInv

\* What it says of one stream.
LEMMA StreamFacts ==
  ASSUME ProxyInv, NEW i \in 1 .. Len(proxied)
  PROVE  proxied[i].stored \in Seq(Nat) /\ Counting(proxied[i].stored)
  <1>1. proxied[i] \in Stream
    BY DEF ProxyInv, PipeInv, PipesTyped
  <1>2. Counting(proxied[i].stored)
    BY DEF ProxyInv, PipeInv
  <1> QED
    BY <1>1, <1>2 DEF Stream

\* A step that leaves the stream of a pipe alone.
LEMMA SameStream ==
  ASSUME ProxyInv, NEW i \in DOMAIN pipes, UNCHANGED proxied
  PROVE  proxied' = [proxied EXCEPT ![i] = proxied[i]]
  BY DEF ProxyInv, PipeInv, PipesTyped

\* pipeUpstreamBody gathers the next chunk.
LEMMA ReadChunkInv ==
  ASSUME ProxyInv, NEW i \in DOMAIN pipes, ReadChunk(i)
  PROVE  ProxyInv'
  <1> DEFINE m == Len(proxied[i].stored)
             b == Append(pipes[i].buffer, pipes[i].next)
             n == pipes[i].next + 1
             q == [pipes[i] EXCEPT !.buffer = b, !.next = n]
  <1>0. /\ i \in 1 .. Len(proxied) /\ proxied[i] \in Stream /\ pipes[i] \in Pipe
        /\ Counting(proxied[i].stored) /\ Follows(pipes[i], proxied[i])
    BY PipeFacts
  <1>1. PICK old \in BOOLEAN : pipes' = [pipes EXCEPT ![i] =
              IF old \/ Len(q.buffer) >= BatchChunks THEN Flushing(q, "flush", "read") ELSE q]
    BY DEF ReadChunk
  <1>2. pipes[i].step = "read" /\ UNCHANGED <<proxied, callers, credentials>>
    BY DEF ReadChunk
  <1>3. /\ pipes[i].buffer \in Seq(Nat) /\ pipes[i].next \in Nat /\ m \in Nat
        /\ pipes[i].next = m + Len(pipes[i].buffer) + 1
        /\ \A k \in 1 .. Len(pipes[i].buffer) : pipes[i].buffer[k] = m + k
    BY <1>0, <1>2 DEF Pipe, Follows, Stream
  <1> HIDE DEF m
  <1>4. /\ b \in Seq(Nat) /\ b # <<>> /\ n \in Nat /\ n = m + Len(b) + 1
        /\ \A k \in 1 .. Len(b) : b[k] = m + k
    <2>1. b \in Seq(Nat) /\ b # <<>> /\ Len(b) = Len(pipes[i].buffer) + 1
      BY <1>3, GatheredAppend
    <2>2. \A k \in 1 .. Len(b) : b[k] = m + k
      BY <1>3, GatheredAppend
    <2> HIDE DEF b
    <2>3. n \in Nat /\ n = m + Len(b) + 1
      BY <1>3, <2>1
    <2> QED
      BY <2>1, <2>2, <2>3
  <1> HIDE DEF b, n
  <1>5. q \in Pipe /\ q.step = "read" /\ q.buffer = b /\ q.next = n
    <2>1. pipes[i] \in Pipe /\ b \in Seq(Nat) /\ n \in Nat
      BY <1>0, <1>4
    <2>2. q \in Pipe /\ q.step = pipes[i].step /\ q.buffer = b /\ q.next = n
      BY <2>1 DEF Pipe
    <2> QED
      BY <1>2, <2>2
  <1> HIDE DEF q
  <1>6. \E p \in Pipe : Follows(p, proxied[i]) /\ pipes' = [pipes EXCEPT ![i] = p]
    <2>1. CASE old \/ Len(q.buffer) >= BatchChunks
      <3>1. pipes' = [pipes EXCEPT ![i] = [q EXCEPT !.step = "flush"]]
        BY <1>1, <1>4, <1>5, <2>1 DEF Flushing
      <3>2. [q EXCEPT !.step = "flush"] \in Pipe
        BY <1>5 DEF Pipe, PipeStep, FlushSteps
      <3>3. Follows([q EXCEPT !.step = "flush"], proxied[i])
        BY <1>4, <1>5 DEF Follows, FlushSteps, Pipe, m
      <3> QED
        BY <3>1, <3>2, <3>3
    <2>2. CASE ~(old \/ Len(q.buffer) >= BatchChunks)
      BY <1>1, <1>4, <1>5, <2>2 DEF Follows, m
    <2> QED
      BY <2>1, <2>2
  <1> QED
    BY <1>0, <1>2, <1>6, SameStream, PipeMoves

\* The end of the body and a failed read: what was gathered is flushed, if there is something.
LEMMA FlushingInv ==
  ASSUME ProxyInv, NEW i \in DOMAIN pipes, NEW step \in FlushSteps, NEW after \in {"close", "rescue close"},
         pipes[i].step = "read", pipes' = [pipes EXCEPT ![i] = Flushing(@, step, after)],
         UNCHANGED <<proxied, callers, credentials>>
  PROVE  ProxyInv'
  <1> DEFINE p == Flushing(pipes[i], step, after)
  <1>0. /\ i \in 1 .. Len(proxied) /\ proxied[i] \in Stream /\ pipes[i] \in Pipe
        /\ Counting(proxied[i].stored) /\ Follows(pipes[i], proxied[i])
    BY PipeFacts
  <1>1. p \in Pipe
    BY <1>0 DEF Flushing, Pipe, PipeStep
  <1>2. Follows(p, proxied[i])
    BY <1>0 DEF Flushing, Pipe, Follows, FlushSteps
  <1>3. pipes' = [pipes EXCEPT ![i] = p]
    OBVIOUS
  <1> QED
    BY <1>1, <1>2, <1>3, <1>0, SameStream, PipeMoves

\* What the stream is when it took the batch.
LEMMA TakenBatch ==
  ASSUME ProxyInv, NEW i \in DOMAIN pipes, pipes[i].step \in FlushSteps, Takes(i)
  PROVE  \E s \in Stream : /\ proxied' = [proxied EXCEPT ![i] = s] /\ Counting(s.stored)
                           /\ Len(s.stored) = Len(proxied[i].stored) + Len(pipes[i].buffer)
  <1> DEFINE s == [proxied[i] EXCEPT !.stored = @ \o pipes[i].buffer]
  <1>0. /\ i \in 1 .. Len(proxied) /\ proxied[i] \in Stream /\ pipes[i] \in Pipe
        /\ Counting(proxied[i].stored) /\ Follows(pipes[i], proxied[i])
    BY PipeFacts
  <1>1. proxied[i].stored \in Seq(Nat) /\ pipes[i].buffer \in Seq(Nat)
    BY <1>0 DEF Stream, Pipe
  <1>2. Counting(proxied[i].stored) /\ \A k \in 1 .. Len(pipes[i].buffer) : pipes[i].buffer[k] = Len(proxied[i].stored) + k
    BY <1>0 DEF Follows
  <1>3. /\ proxied[i].stored \o pipes[i].buffer \in Seq(Nat)
        /\ Counting(proxied[i].stored \o pipes[i].buffer)
        /\ Len(proxied[i].stored \o pipes[i].buffer) = Len(proxied[i].stored) + Len(pipes[i].buffer)
    BY <1>1, <1>2, CountingConcat
  <1>4. s \in Stream /\ s.stored = proxied[i].stored \o pipes[i].buffer
    BY <1>0, <1>3 DEF Stream
  <1>5. proxied' = [proxied EXCEPT ![i] = s]
    BY DEF Takes
  <1> QED
    BY <1>3, <1>4, <1>5

\* A batch that is stored.
LEMMA FlushStoredInv ==
  ASSUME ProxyInv, NEW i \in DOMAIN pipes, FlushStored(i)
  PROVE  ProxyInv'
  <1> DEFINE p == [pipes[i] EXCEPT !.buffer = <<>>, !.step = NextStep(@)]
  <1>0. /\ i \in 1 .. Len(proxied) /\ proxied[i] \in Stream /\ pipes[i] \in Pipe
        /\ Counting(proxied[i].stored) /\ Follows(pipes[i], proxied[i])
    BY PipeFacts
  <1>1. PICK s \in Stream : /\ proxied' = [proxied EXCEPT ![i] = s] /\ Counting(s.stored)
                            /\ Len(s.stored) = Len(proxied[i].stored) + Len(pipes[i].buffer)
    BY TakenBatch DEF FlushStored
  <1>2. pipes[i].step \in FlushSteps /\ NextStep(pipes[i].step) \in {"read", "close", "rescue close"}
    BY DEF FlushStored, FlushSteps, NextStep
  <1>3. p \in Pipe /\ p.buffer = <<>> /\ p.next = pipes[i].next /\ p.step = NextStep(pipes[i].step)
    <2>1. NextStep(pipes[i].step) \in PipeStep
      BY <1>2 DEF PipeStep
    <2> QED
      BY <1>0, <2>1, PipeEmptied
  <1> HIDE DEF p
  <1>4. pipes[i].next = Len(proxied[i].stored) + Len(pipes[i].buffer) + 1
    BY <1>0, <1>2 DEF Follows
  <1>5. Follows(p, s)
    BY <1>1, <1>3, <1>4 DEF Follows, Stream
  <1>6. pipes' = [pipes EXCEPT ![i] = p] /\ UNCHANGED <<callers, credentials>>
    BY DEF FlushStored, p
  <1> QED
    BY <1>1, <1>3, <1>5, <1>6, <1>0, PipeMoves

\* A batch whose POST fails, whether the stream took it or not: it is not sent again.
LEMMA FlushFailsInv ==
  ASSUME ProxyInv, NEW i \in DOMAIN pipes, FlushFails(i)
  PROVE  ProxyInv'
  <1> DEFINE p == AfterFailure(pipes[i])
  <1>0. /\ i \in 1 .. Len(proxied) /\ proxied[i] \in Stream /\ pipes[i] \in Pipe
        /\ Counting(proxied[i].stored) /\ Follows(pipes[i], proxied[i])
    BY PipeFacts
  <1>1. p \in Pipe /\ \A s \in Stream : Follows(p, s)
    <2>1. p \in Pipe /\ p.step = "rescue close" /\ p.buffer = <<>>
      <3>1. "rescue close" \in PipeStep
        BY DEF PipeStep
      <3> QED
        BY <1>0, <3>1, PipeEmptied DEF AfterFailure
    <2> QED
      BY <2>1 DEF Follows, FlushSteps
  <1>2. \E s \in Stream : proxied' = [proxied EXCEPT ![i] = s] /\ Counting(s.stored)
    <2>1. CASE Takes(i)
      BY <2>1, TakenBatch DEF FlushFails
    <2>2. CASE UNCHANGED proxied
      BY <2>2, <1>0, SameStream
    <2> QED
      BY <2>1, <2>2 DEF FlushFails
  <1>3. pipes' = [pipes EXCEPT ![i] = p] /\ UNCHANGED <<callers, credentials>>
    BY DEF FlushFails
  <1> QED
    BY <1>1, <1>2, <1>3, <1>0, PipeMoves

\* A step that stores and gathers nothing: the pipe is behind its last flush, or only its abort flag changes.
Quiet(i) ==
  /\ PipesTyped' /\ Len(proxied') = Len(proxied) /\ UNCHANGED <<callers, credentials>>
  /\ \A k \in 1 .. Len(proxied) : k # i => proxied'[k] = proxied[k] /\ pipes'[k] = pipes[k]
  /\ proxied'[i].stored = proxied[i].stored
  /\ pipes'[i].buffer = pipes[i].buffer /\ pipes'[i].next = pipes[i].next
  /\ \/ pipes'[i].step = pipes[i].step
     \/ pipes[i].buffer = <<>> /\ pipes'[i].step \in {"rescue close", "over"}

LEMMA QuietInv ==
  ASSUME ProxyInv, NEW i \in DOMAIN pipes, Quiet(i)
  PROVE  ProxyInv'
  <1>0. /\ i \in 1 .. Len(proxied) /\ proxied[i] \in Stream /\ pipes[i] \in Pipe
        /\ Counting(proxied[i].stored) /\ Follows(pipes[i], proxied[i])
    BY PipeFacts
  <1>1. Follows(pipes'[i], proxied'[i]) /\ Counting(proxied'[i].stored)
    BY <1>0 DEF Quiet, Follows, FlushSteps
  <1>2. \A k \in 1 .. Len(proxied') : Counting(proxied'[k].stored) /\ Follows(pipes'[k], proxied'[k])
    BY <1>1 DEF Quiet, ProxyInv, PipeInv
  <1>3. PipeInv'
    BY <1>2 DEF Quiet, PipeInv, Counting, Follows
  <1>4. CallerInv'
    BY DEF Quiet, ProxyInv, CallerInv, CallersTyped, Found, Counting
  <1> QED
    BY <1>3, <1>4 DEF ProxyInv

\* The closing of a stream, an abort and a deletion.
LEMMA EndInv ==
  ASSUME ProxyInv, NEW i \in DOMAIN pipes,
         CloseStream(i) \/ RescueClose(i) \/ HandleAbort(i) \/ HandleDeleteStream(i) \/ DeleteArrives(i)
  PROVE  ProxyInv'
  <1>0. /\ i \in 1 .. Len(proxied) /\ proxied[i] \in Stream /\ pipes[i] \in Pipe /\ Follows(pipes[i], proxied[i])
        /\ pipes \in Seq(Pipe) /\ proxied \in Seq(Stream) /\ Len(pipes) = Len(proxied)
    BY PipeFacts DEF ProxyInv, PipeInv, PipesTyped
  <1>1. UNCHANGED <<callers, credentials>>
    BY DEF CloseStream, RescueClose, HandleAbort, HandleDeleteStream, DeleteArrives
  <1>2. /\ proxied' \in Seq(Stream) /\ Len(proxied') = Len(proxied) /\ proxied'[i].stored = proxied[i].stored
        /\ \A k \in 1 .. Len(proxied) : k # i => proxied'[k] = proxied[k]
    <2>1. CASE Shut(i)
      <3> DEFINE s == [proxied[i] EXCEPT !.closed = @ \/ proxied[i].there]
      <3>1. s \in Stream /\ s.stored = proxied[i].stored
        BY <1>0 DEF Stream
      <3>2. proxied' = [proxied EXCEPT ![i] = s]
        BY <2>1 DEF Shut
      <3> HIDE DEF s
      <3> QED
        BY <3>1, <3>2, <1>0, SeqExcept
    <2>2. CASE proxied' = [proxied EXCEPT ![i].there = FALSE]
      <3> DEFINE s == [proxied[i] EXCEPT !.there = FALSE]
      <3>1. s \in Stream /\ s.stored = proxied[i].stored
        BY <1>0 DEF Stream
      <3>2. proxied' = [proxied EXCEPT ![i] = s]
        BY <2>2
      <3> HIDE DEF s
      <3> QED
        BY <3>1, <3>2, <1>0, SeqExcept
    <2>3. CASE UNCHANGED proxied
      BY <2>3, <1>0
    <2> QED
      BY <2>1, <2>2, <2>3 DEF CloseStream, RescueClose, HandleAbort, HandleDeleteStream, DeleteArrives
  <1>3. /\ pipes' \in Seq(Pipe) /\ Len(pipes') = Len(pipes)
        /\ pipes'[i].buffer = pipes[i].buffer /\ pipes'[i].next = pipes[i].next
        /\ \A k \in 1 .. Len(proxied) : k # i => pipes'[k] = pipes[k]
        /\ \/ pipes'[i].step = pipes[i].step
           \/ pipes[i].buffer = <<>> /\ pipes'[i].step \in {"rescue close", "over"}
    <2>1. CASE CloseStream(i) \/ RescueClose(i)
      <3>1. pipes[i].buffer = <<>>
        BY <2>1, <1>0 DEF CloseStream, RescueClose, Follows, FlushSteps
      <3>2. PICK step \in {"over", "rescue close"} : pipes' = [pipes EXCEPT ![i].step = step]
        BY <2>1 DEF CloseStream, RescueClose, Over, Goto
      <3> DEFINE p == [pipes[i] EXCEPT !.step = step]
      <3>3. step \in PipeStep
        BY DEF PipeStep
      <3>4. p \in Pipe /\ p.buffer = pipes[i].buffer /\ p.next = pipes[i].next /\ p.step = step
        BY <3>3, <1>0 DEF Pipe
      <3>5. pipes' = [pipes EXCEPT ![i] = p]
        BY <3>2
      <3> HIDE DEF p
      <3> QED
        <4>1. i \in 1 .. Len(pipes) /\ pipes \in Seq(Pipe) /\ p \in Pipe
          BY <1>0, <3>4
        <4>2. /\ pipes' \in Seq(Pipe) /\ Len(pipes') = Len(pipes) /\ pipes'[i] = p
              /\ \A k \in 1 .. Len(pipes) : k # i => pipes'[k] = pipes[k]
          BY <3>5, <4>1, PipeReplaced
        <4> QED
          BY <1>0, <3>1, <3>4, <4>2
    <2>2. CASE HandleAbort(i) \/ HandleDeleteStream(i)
      <3>1. PICK aborted \in BOOLEAN : pipes' = [pipes EXCEPT ![i].aborted = aborted]
        BY <2>2, <1>0 DEF HandleAbort, HandleDeleteStream, AbortConnection, Pipe
      <3> DEFINE p == [pipes[i] EXCEPT !.aborted = aborted]
      <3>2. p \in Pipe /\ p.buffer = pipes[i].buffer /\ p.next = pipes[i].next /\ p.step = pipes[i].step
        BY <1>0 DEF Pipe
      <3>3. pipes' = [pipes EXCEPT ![i] = p]
        BY <3>1
      <3> HIDE DEF p
      <3> QED
        <4>1. i \in 1 .. Len(pipes)
          BY <1>0
        <4>2. /\ pipes' \in Seq(Pipe) /\ Len(pipes') = Len(pipes) /\ pipes'[i] = p
              /\ \A k \in 1 .. Len(pipes) : k # i => pipes'[k] = pipes[k]
          BY <1>0, <3>2, <3>3, <4>1, PipeReplaced
        <4> QED
          BY <1>0, <3>2, <4>2
    <2>3. CASE UNCHANGED pipes
      BY <2>3, <1>0
    <2> QED
      BY <2>1, <2>2, <2>3 DEF DeleteArrives
  <1>4. Quiet(i)
    BY <1>0, <1>1, <1>2, <1>3 DEF Quiet, PipesTyped
  <1> QED
    BY <1>4, QuietInv

-----------------------------------------------------------------------------
(* Steps of a caller. *)

\* What the invariant says of one caller.
LEMMA CallerFacts ==
  ASSUME ProxyInv, NEW c \in Callers
  PROVE  /\ callers[c].step \in CallerStep /\ callers[c].at \in Nat /\ callers[c].url \in Url
         /\ callers[c].got \in Seq(Nat) /\ Counting(callers[c].got)
         /\ callers[c].step \in {"resume", "told", "reading"} => callers[c].at \in 1 .. Len(proxied)
         /\ credentials \in 0 .. Len(proxied) /\ Len(proxied) \in Nat
         /\ callers \in [Callers -> [step : CallerStep, at : Nat, url : Url, got : Seq(Nat)]]
  BY DEF ProxyInv, PipeInv, PipesTyped, CallerInv, CallersTyped, Found

\* A step that moves one caller and may add a stream keeps the invariant when what it names is a stream.
LEMMA CallerMoves ==
  ASSUME ProxyInv, PipeInv', Len(proxied') >= Len(proxied), credentials' \in 0 .. Len(proxied'),
         CallersTyped', NEW c \in Callers, \A d \in Callers : d # c => callers'[d] = callers[d],
         Counting(callers'[c].got),
         callers'[c].step \in {"resume", "told", "reading"} => callers'[c].at \in 1 .. Len(proxied')
  PROVE  ProxyInv'
  <1>1. Found'
    <2>1. Len(proxied) \in Nat /\ Len(proxied') \in Nat
      BY DEF ProxyInv, PipeInv, PipesTyped
    <2>2. ASSUME NEW d \in Callers, callers'[d].step \in {"resume", "told", "reading"}
          PROVE  callers'[d].at \in 1 .. Len(proxied')
      <3>1. CASE d # c
        <4>1. callers'[d] = callers[d]
          BY <3>1
        <4>2. callers[d].at \in 1 .. Len(proxied)
          BY <2>2, <4>1 DEF ProxyInv, CallerInv, Found
        <4> QED
          BY <2>1, <4>1, <4>2
      <3> QED
        BY <2>2, <3>1
    <2> QED
      BY <2>2 DEF Found
  <1>2. \A d \in Callers : Counting(callers'[d].got)
    BY DEF ProxyInv, CallerInv
  <1> QED
    BY <1>1, <1>2 DEF ProxyInv, CallerInv, Counting

\* The streams and pipes stay as they are.
LEMMA SamePipes ==
  ASSUME ProxyInv, UNCHANGED <<proxied, pipes>>
  PROVE  PipeInv' /\ Len(proxied') = Len(proxied) /\ Len(proxied) \in Nat
  <1>1. PipesTyped'
    BY DEF ProxyInv, PipeInv, PipesTyped
  <1>2. PipeInv'
    BY <1>1 DEF ProxyInv, PipeInv, Counting, Follows
  <1>3. Len(proxied') = Len(proxied) /\ Len(proxied) \in Nat
    BY DEF ProxyInv, PipeInv, PipesTyped
  <1> QED
    BY <1>2, <1>3

\* A caller that only goes on to another step.
LEMMA TurnsInv ==
  ASSUME ProxyInv, UNCHANGED <<proxied, pipes>>, NEW c \in Callers, NEW step \in CallerStep, Turns(c, step),
         step \in {"resume", "told", "reading"} => callers[c].at \in 1 .. Len(proxied),
         credentials' \in 0 .. Len(proxied)
  PROVE  ProxyInv'
  <1>1. PipeInv' /\ Len(proxied') = Len(proxied) /\ Len(proxied) \in Nat
    BY SamePipes
  <1>2. callers \in [Callers -> [step : CallerStep, at : Nat, url : Url, got : Seq(Nat)]]
    BY CallerFacts
  <1>3. CallersTyped' /\ \A d \in Callers : d # c => callers'[d] = callers[d]
    BY <1>2 DEF Turns, CallersTyped
  <1>4. callers'[c].got = callers[c].got /\ callers'[c].at = callers[c].at /\ callers'[c].step = step
    BY <1>2 DEF Turns
  <1>5. Counting(callers'[c].got)
    BY <1>4, CallerFacts
  <1> QED
    BY <1>1, <1>3, <1>4, <1>5, CallerMoves

\* durable-fetch.ts and handleReadStream: what a caller does without touching a stream.
LEMMA CallerInvKept ==
  ASSUME ProxyInv, NEW c \in Callers,
         \/ \E url \in Upstreams : Begin(c, url)
         \/ Resume(c) \/ ResumeFails(c) \/ CreateFails(c) \/ UpstreamAnswers(c)
         \/ CreateLost(c) \/ SaveCredentials(c) \/ ReadStored(c) \/ Repeat(c)
  PROVE  ProxyInv'
  <1>0. /\ callers[c].got \in Seq(Nat) /\ Counting(callers[c].got)
        /\ callers[c].step \in {"resume", "told", "reading"} => callers[c].at \in 1 .. Len(proxied)
        /\ credentials \in 0 .. Len(proxied) /\ Len(proxied) \in Nat
        /\ callers \in [Callers -> [step : CallerStep, at : Nat, url : Url, got : Seq(Nat)]]
    BY CallerFacts
  <1>1. UNCHANGED <<proxied, pipes>>
    BY DEF Begin, Resume, ResumeFails, CreateFails, UpstreamAnswers, CreateLost, SaveCredentials, ReadStored, Repeat
  <1>2. PipeInv' /\ Len(proxied') = Len(proxied)
    BY <1>1, SamePipes
  <1>3. CASE Resume(c) \/ ResumeFails(c) \/ CreateFails(c) \/ UpstreamAnswers(c) \/ CreateLost(c) \/ SaveCredentials(c)
    <2>1. PICK step \in CallerStep : /\ Turns(c, step)
                                     /\ step \in {"resume", "told", "reading"} => callers[c].at \in 1 .. Len(proxied)
      BY <1>0, <1>3 DEF Resume, ResumeFails, CreateFails, UpstreamAnswers, CreateLost, SaveCredentials, CallerStep
    <2>2. credentials' \in 0 .. Len(proxied)
      BY <1>0, <1>3 DEF Resume, ResumeFails, CreateFails, UpstreamAnswers, CreateLost, SaveCredentials
    <2> QED
      BY <1>1, <2>1, <2>2, TurnsInv
  <1>4. ASSUME NEW step \in {"idle", "create", "resume"}, NEW at \in 0 .. Len(proxied), NEW url \in Url,
               step = "resume" => at # 0, UNCHANGED credentials,
               callers' = [callers EXCEPT ![c] = [step |-> step, at |-> at, url |-> url, got |-> <<>>]]
        PROVE  ProxyInv'
    <2> DEFINE e == [step |-> step, at |-> at, url |-> url, got |-> <<>>]
    <2>1. e \in [step : CallerStep, at : Nat, url : Url, got : Seq(Nat)]
      BY <1>0, <1>4 DEF CallerStep
    <2>2. e.step = step /\ e.at = at /\ e.got = <<>>
      OBVIOUS
    <2> HIDE DEF e
    <2>3. callers' = [callers EXCEPT ![c] = e]
      BY <1>4 DEF e
    <2>4. CallersTyped' /\ (\A d \in Callers : d # c => callers'[d] = callers[d]) /\ callers'[c] = e
      BY <1>0, <2>1, <2>3 DEF CallersTyped
    <2>5. Counting(callers'[c].got)
      BY <2>2, <2>4 DEF Counting
    <2>6. callers'[c].step \in {"resume", "told", "reading"} => callers'[c].at \in 1 .. Len(proxied')
      BY <1>0, <1>2, <1>4, <2>2, <2>4
    <2> QED
      BY <1>0, <1>2, <1>4, <2>4, <2>5, <2>6, CallerMoves
  <1>5. ASSUME NEW url \in Upstreams, Begin(c, url) PROVE ProxyInv'
    <2>1. PICK step \in {"create"} \cup (IF credentials # 0 THEN {"resume"} ELSE {}) :
            callers' = [callers EXCEPT ![c] = [Caller(step, credentials) EXCEPT !.url = url]]
      BY <1>5 DEF Begin
    <2>2. [Caller(step, credentials) EXCEPT !.url = url] = [step |-> step, at |-> credentials, url |-> url, got |-> <<>>]
      BY DEF Caller
    <2>3. url \in Url /\ UNCHANGED credentials
      BY <1>5 DEF Url, Begin
    <2> QED
      BY <1>0, <1>4, <2>1, <2>2, <2>3
  <1>6. CASE Repeat(c)
    <2>1. (CHOOSE u \in Upstreams : TRUE) \in Url
      BY DEF Url
    <2>2. /\ callers' = [callers EXCEPT ![c] = [step |-> "idle", at |-> 0, got |-> <<>>,
                                                url |-> CHOOSE u \in Upstreams : TRUE]]
          /\ UNCHANGED credentials
      BY <1>6 DEF Repeat, Caller
    <2>3. 0 \in 0 .. Len(proxied)
      BY <1>0
    <2> HIDE DEF Url
    <2> QED
      BY <1>4, <2>1, <2>2, <2>3
  <1>7. CASE ReadStored(c)
    <2> DEFINE s == proxied[callers[c].at]
               n == Len(callers[c].got)
    <2>1. callers[c].at \in 1 .. Len(proxied) /\ UNCHANGED credentials
      BY <1>0, <1>7 DEF ReadStored
    <2>2. CASE \E step \in {"done", "failed"} : Turns(c, step)
      BY <1>0, <1>1, <2>1, <2>2, TurnsInv DEF CallerStep
    <2>3. CASE n < Len(s.stored) /\ callers' = [callers EXCEPT ![c].got = Append(@, s.stored[n + 1])]
      <3>1. s.stored \in Seq(Nat) /\ Counting(s.stored)
        BY <2>1, StreamFacts
      <3>2. n \in Nat /\ n + 1 \in 1 .. Len(s.stored)
        BY <1>0, <2>3, <3>1
      <3>b. \A k \in 1 .. Len(s.stored) : s.stored[k] = k
        BY <3>1 DEF Counting
      <3>c. s.stored[n + 1] = n + 1
        BY <3>2, <3>b
      <3>a. s.stored[n + 1] = n + 1 /\ s.stored[n + 1] \in Nat
        BY <3>2, <3>c
      <3> DEFINE g == Append(callers[c].got, s.stored[n + 1])
      <3>3. g \in Seq(Nat) /\ Counting(g)
        BY <1>0, <3>a, CountingAppend
      <3>4. callers' = [callers EXCEPT ![c].got = g]
        BY <2>3
      <3> HIDE DEF g
      <3>5. CallersTyped' /\ (\A d \in Callers : d # c => callers'[d] = callers[d])
        BY <1>0, <3>3, <3>4 DEF CallersTyped
      <3>6. callers'[c].got = g /\ callers'[c].at = callers[c].at
        BY <1>0, <3>4
      <3> QED
        BY <1>0, <1>2, <2>1, <3>3, <3>5, <3>6, CallerMoves
    <2> QED
      BY <1>7, <2>2, <2>3 DEF ReadStored
  <1> QED
    BY <1>3, <1>5, <1>6, <1>7

\* handleCreateStream: a new stream with its pipe, which the caller is told of.
LEMMA CreateStoredInv ==
  ASSUME ProxyInv, NEW c \in Callers, CreateStored(c) \/ CreateBodyless(c)
  PROVE  ProxyInv'
  <1> DEFINE n == Len(proxied) + 1
             s == [there |-> TRUE, stored |-> <<>>, closed |-> FALSE]
  <1>0. /\ proxied \in Seq(Stream) /\ pipes \in Seq(Pipe) /\ Len(pipes) = Len(proxied) /\ n \in Nat
        /\ callers \in [Callers -> [step : CallerStep, at : Nat, url : Url, got : Seq(Nat)]]
        /\ Counting(callers[c].got) /\ credentials \in 0 .. Len(proxied)
    BY CallerFacts DEF ProxyInv, PipeInv, PipesTyped
  <1>a. PICK p : p \in {NewPipe, [NewPipe EXCEPT !.step = "over"]} /\ pipes' = Append(pipes, p)
    BY DEF CreateStored, CreateBodyless
  <1>1. s \in Stream /\ s.stored = <<>> /\ p \in Pipe /\ Counting(s.stored) /\ Follows(p, s)
    <2>1. s \in Stream /\ s.stored = <<>>
      BY DEF Stream
    <2>2. p \in Pipe /\ p.buffer = <<>> /\ p.next = 1
      <3>1. CASE p = NewPipe
        BY <3>1 DEF NewPipe, Pipe, PipeStep
      <3>2. CASE p = [NewPipe EXCEPT !.step = "over"]
        <4>1. p = [step |-> "over", next |-> 1, buffer |-> <<>>, aborted |-> FALSE]
          BY <3>2 DEF NewPipe
        <4> QED
          BY <4>1 DEF Pipe, PipeStep
      <3> QED
        BY <1>a, <3>1, <3>2
    <2>3. Follows(p, s) /\ Counting(s.stored)
      BY <2>1, <2>2 DEF Follows, Counting
    <2> QED
      BY <2>1, <2>2, <2>3
  <1>2. proxied' = Append(proxied, s) /\ pipes' = Append(pipes, p) /\ UNCHANGED credentials
    BY <1>a DEF CreateStored, CreateBodyless
  <1> HIDE DEF s
  <1>3. PipesTyped' /\ Len(proxied') = n
    BY <1>0, <1>1, <1>2 DEF PipesTyped
  <1>4. ASSUME NEW k \in 1 .. n PROVE Counting(proxied'[k].stored) /\ Follows(pipes'[k], proxied'[k])
    <2>1. CASE k = n
      <3>1. proxied'[k] = s /\ pipes'[k] = p
        BY <1>0, <1>2, <2>1
      <3> QED
        BY <1>1, <3>1
    <2>2. CASE k # n
      <3>1. k \in 1 .. Len(proxied) /\ proxied'[k] = proxied[k] /\ pipes'[k] = pipes[k]
        BY <1>0, <1>2, <2>2
      <3> QED
        BY <3>1 DEF ProxyInv, PipeInv
    <2> QED
      BY <2>1, <2>2
  <1>5. PipeInv'
    BY <1>3, <1>4 DEF PipeInv, Counting, Follows
  <1>6. callers' = [callers EXCEPT ![c] = [callers[c] EXCEPT !.step = "told", !.at = n]]
    BY <1>0 DEF CreateStored, CreateBodyless
  <1> HIDE DEF n
  <1>7. CallersTyped' /\ (\A d \in Callers : d # c => callers'[d] = callers[d])
    BY <1>0, <1>6 DEF CallersTyped, CallerStep
  <1>8. callers'[c].got = callers[c].got /\ callers'[c].at = n
    BY <1>0, <1>6
  <1>9. n \in 1 .. Len(proxied') /\ Len(proxied') >= Len(proxied) /\ credentials' \in 0 .. Len(proxied')
    BY <1>0, <1>2, <1>3 DEF n
  <1> QED
    BY <1>0, <1>5, <1>7, <1>8, <1>9, CallerMoves

-----------------------------------------------------------------------------
\* A sequence that counts is the prefix of the body of its length.
LEMMA CountingIsPrefix ==
  ASSUME NEW s \in Seq(Nat), Counting(s)
  PROVE  s = [k \in 1 .. Len(s) |-> k]
  BY DEF Counting

\* Every step of the proxy keeps the invariant.
LEMMA ProxyStep == ProxyInv /\ [ProxyNext]_proxyVars => ProxyInv'
  <1> SUFFICES ASSUME ProxyInv, [ProxyNext]_proxyVars PROVE ProxyInv'
    OBVIOUS
  <1>1. CASE UNCHANGED proxyVars
    <2>1. PipeInv'
      BY <1>1, SamePipes DEF proxyVars
    <2>2. CallerInv'
      BY <1>1 DEF proxyVars, ProxyInv, CallerInv, CallersTyped, Found, Counting
    <2> QED
      BY <2>1, <2>2 DEF ProxyInv
  <1>2. ASSUME NEW i \in DOMAIN pipes, BodyEnds(i) \/ ReadFails(i) PROVE ProxyInv'
    <2>1. PICK step \in FlushSteps, after \in {"close", "rescue close"} :
            pipes' = [pipes EXCEPT ![i] = Flushing(@, step, after)]
      BY <1>2 DEF BodyEnds, ReadFails, FlushSteps
    <2>2. pipes[i].step = "read" /\ UNCHANGED <<proxied, callers, credentials>>
      BY <1>2 DEF BodyEnds, ReadFails
    <2> QED
      BY <2>1, <2>2, FlushingInv
  <1> QED
    BY <1>1, <1>2, CallerInvKept, CreateStoredInv, ReadChunkInv, FlushStoredInv, FlushFailsInv, EndInv DEF ProxyNext

\* What a proxied stream holds, and what a caller has got, is a prefix of the upstream body, whatever number
\* of callers, streams, chunks, lost answers and aborts there are (flush and the error path of
\* pipeUpstreamBody, handleReadStream, durable-fetch.ts).
THEOREM BodiesArePrefixes == ProxySpec => []StoredIsPrefix
  <1>1. ProxyInv => StoredIsPrefix
    <2> SUFFICES ASSUME ProxyInv PROVE StoredIsPrefix
      OBVIOUS
    <2>1. ASSUME NEW i \in DOMAIN proxied PROVE proxied[i].stored = [k \in 1 .. Len(proxied[i].stored) |-> k]
      <3>1. i \in 1 .. Len(proxied)
        BY DEF ProxyInv, PipeInv, PipesTyped
      <3> QED
        BY <3>1, StreamFacts, CountingIsPrefix
    <2>2. ASSUME NEW c \in Callers PROVE callers[c].got = [k \in 1 .. Len(callers[c].got) |-> k]
      BY CallerFacts, CountingIsPrefix
    <2> QED
      BY <2>1, <2>2 DEF StoredIsPrefix
  <1> QED
    BY <1>1, ProxyStarts, ProxyStep, PTL DEF ProxySpec
=============================================================================
