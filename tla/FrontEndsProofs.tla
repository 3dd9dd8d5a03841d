-------------------------- MODULE FrontEndsProofs ---------------------------
(***************************************************************************)
(* Proofs about the front ends, for any workers, documents, sessions and   *)
(* requests: what HTTP handlers answer is what they have done, what is     *)
(* kept and backed up although nothing is locked, and that the protocol    *)
(* servers answer each line once.                                          *)
(***************************************************************************)
EXTENDS FrontEndsProps, FiniteSetTheorems, TLAPS

-----------------------------------------------------------------------------
\* The HTTP server.

\* Where a request is that has got through the middleware.
Inside == {"handling", "querying", "answered", "started"}

HttpType ==
    /\ place \in [Requests -> {"coming", "over"} \cup Inside]
    /\ status \in [Requests -> Nat]
    /\ queried \subseteq Requests
    /\ started \subseteq Requests

\* A request that is not over is not answered, and what it has done shows where it is.
DoneSoFar ==
    \A r \in Requests :
        /\ place[r] # "over" => status[r] = None
        /\ place[r] \in {"coming", "handling", "querying"} => r \notin queried /\ r \notin started
        /\ place[r] = "answered" => r \in queried /\ r \notin started
        /\ place[r] = "started" => r \in started /\ r \notin queried

\* Only what needs no tenant gets past the middleware of the server.
HandlersReached ==
    \A r \in Requests :
        place[r] \in Inside => ask[r].mount = "direct" \/ ask[r].route \in {"health", "legacy chat"}

\* The routes of the handlers that ask the engine.
AsksAQuery ==
    \A r \in Requests : place[r] = "querying" => ask[r].route \in {"chat", "legacy chat", "plan", "search"}

HttpInv == HttpType /\ DoneSoFar /\ HandlersReached /\ AsksAQuery /\ ErrorsStartNothing

\* Only request r moves, to p.
Moves(r, p) ==
    /\ place[r] # "over" /\ place' = [place EXCEPT ![r] = p]
    /\ UNCHANGED <<ask, left>>

\* What goes with what a request has done.
Codes == {200, 201, 202, 400, 401, 403, 404, 412, 500}
Told(r, code) == (r \in started => code = 202) /\ (code = 202 => r \in started)
Used(r, code) == r \in queried /\ code \notin {200, 201} => MayWaste(r)

LEMMA AllCodes == 202 \in Codes /\ 412 \in Codes
  BY DEF Codes

\* A request that is over has the status that goes with what it has done, or none.
LEMMA RequestEnds ==
    ASSUME HttpInv, NEW r \in Requests, NEW code \in Nat, Moves(r, "over"),
           status' = [status EXCEPT ![r] = code], UNCHANGED <<queried, started>>,
           code # None \/ r \notin left => Told(r, code),
           r \notin left => Used(r, code)
    PROVE  HttpInv'
<1>1. HttpType'
  BY DEF HttpInv, HttpType, Moves
<1>2. DoneSoFar'
  BY DEF HttpInv, HttpType, DoneSoFar, Moves
<1>3. HandlersReached' /\ AsksAQuery'
  <2>1. \A q \in Requests : place'[q] # "over" => place'[q] = place[q]
    BY DEF HttpInv, HttpType, Moves
  <2>2. \A q \in Requests : place'[q] \in Inside => place[q] \in Inside
    BY <2>1 DEF Inside
  <2>3. \A q \in Requests : place'[q] = "querying" => place[q] = "querying"
    BY <2>1
  <2>4. HandlersReached'
    BY <2>2 DEF HttpInv, HandlersReached, Moves
  <2>5. AsksAQuery'
    BY <2>3 DEF HttpInv, AsksAQuery, Moves
  <2> QED BY <2>4, <2>5
<1>4. /\ status'[r] = code /\ place'[r] = "over"
      /\ \A q \in Requests : q # r => status'[q] = status[q] /\ place'[q] = place[q]
  BY DEF HttpInv, HttpType, Moves
<1>5. StartedIsAccepted'
  <2> SUFFICES ASSUME NEW q \in Requests
               PROVE  /\ status'[q] # None => (q \in started <=> status'[q] = 202)
                      /\ q \in started \ left /\ place'[q] = "over" => status'[q] = 202
    BY DEF StartedIsAccepted, Moves
  <2>1. CASE q = r
    BY <1>4, <2>1 DEF Told
  <2>2. CASE q # r
    BY <1>4, <2>2 DEF HttpInv, ErrorsStartNothing, StartedIsAccepted
  <2> QED BY <2>1, <2>2
<1>6. QueriesAreUsed'
  <2> SUFFICES ASSUME NEW q \in queried \ left, place'[q] = "over", status'[q] \notin {200, 201}
               PROVE  MayWaste(q)
    BY DEF QueriesAreUsed, MayWaste, ShortId, Moves
  <2>1. CASE q = r
    BY <1>4, <2>1 DEF Used
  <2>2. CASE q # r
    <3>1. q \in Requests
      BY DEF HttpInv, HttpType
    <3> QED BY <1>4, <2>2, <3>1 DEF HttpInv, ErrorsStartNothing, QueriesAreUsed
  <2> QED BY <2>1, <2>2
<1>7. OldChatWorks'
  BY DEF HttpInv, ErrorsStartNothing, OldChatWorks, Moves
<1> QED BY <1>1, <1>2, <1>3, <1>5, <1>6, <1>7 DEF HttpInv, ErrorsStartNothing

\* A request goes on inside the server: a query has been answered, or a job started.
LEMMA RequestGoesOn ==
    ASSUME HttpInv, NEW r \in Requests, NEW p \in Inside,
           place[r] \in {"coming", "handling", "querying"}, Moves(r, p), UNCHANGED status,
           queried' = IF p = "answered" THEN queried \cup {r} ELSE queried,
           started' = IF p = "started" THEN started \cup {r} ELSE started,
           ask[r].mount = "direct" \/ ask[r].route \in {"health", "legacy chat"},
           p = "started" => ask[r].mount = "direct",
           p = "answered" /\ ask[r].mount = "server" => ask[r].route = "legacy chat",
           p = "querying" => ask[r].route \in {"chat", "legacy chat", "plan", "search"}
    PROVE  HttpInv'
<1>1. HttpType'
  BY DEF HttpInv, HttpType, Moves
<1>2. DoneSoFar'
  BY DEF HttpInv, HttpType, DoneSoFar, Moves, Inside
<1>3. HandlersReached' /\ AsksAQuery'
  BY DEF HttpInv, HttpType, HandlersReached, AsksAQuery, Moves
<1>4. /\ place'[r] # "over" /\ status'[r] = None
      /\ \A q \in Requests : q # r => place'[q] = place[q]
      /\ \A q \in Requests : q # r => (q \in queried' <=> q \in queried) /\ (q \in started' <=> q \in started)
  BY DEF HttpInv, HttpType, DoneSoFar, Moves, Inside
<1>5. StartedIsAccepted'
  <2> SUFFICES ASSUME NEW q \in Requests
               PROVE  /\ status'[q] # None => (q \in started' <=> status'[q] = 202)
                      /\ q \in started' \ left' /\ place'[q] = "over" => status'[q] = 202
    BY DEF StartedIsAccepted
  <2>1. CASE q = r
    BY <1>4, <2>1
  <2>2. CASE q # r
    <3>1. status'[q] = status[q] /\ left' = left /\ place'[q] = place[q]
      BY <1>4, <2>2 DEF Moves
    <3>2. q \in started' <=> q \in started
      BY <1>4, <2>2
    <3>3. status[q] # None => (q \in started <=> status[q] = 202)
      BY DEF HttpInv, ErrorsStartNothing, StartedIsAccepted
    <3>4. q \in started \ left /\ place[q] = "over" => status[q] = 202
      BY DEF HttpInv, ErrorsStartNothing, StartedIsAccepted
    <3> QED BY <3>1, <3>2, <3>3, <3>4
  <2> QED BY <2>1, <2>2
<1>6. QueriesAreUsed'
  <2>1. left' = left /\ ask' = ask
    BY DEF Moves
  <2> SUFFICES ASSUME NEW q \in queried' \ left, place'[q] = "over", status'[q] \notin {200, 201}
               PROVE  MayWaste(q)
    BY <2>1, ZenonT(40) DEF QueriesAreUsed, MayWaste, ShortId
  <2>2. q # r /\ q \in Requests
    BY <1>1, <1>4 DEF HttpType
  <2>3. q \in queried \ left /\ place[q] = "over" /\ status[q] = status'[q]
    BY <1>4, <2>1, <2>2
  <2>4. status[q] \notin {200, 201}
    BY <2>3
  <2> QED BY <2>3, <2>4, Zenon DEF HttpInv, ErrorsStartNothing, QueriesAreUsed
<1>7. OldChatWorks'
  <2> SUFFICES ASSUME NEW q \in queried' \cup started', ask[q].mount = "server"
               PROVE  ask[q].route = "legacy chat"
    BY DEF OldChatWorks, Moves
  <2>1. q \in Requests
    BY <1>1 DEF HttpType
  <2>2. CASE q = r
    <3>1. p = "answered" \/ p = "started" \/ q \in queried \cup started
      OBVIOUS
    <3> QED BY <2>2, <3>1 DEF HttpInv, ErrorsStartNothing, OldChatWorks
  <2>3. CASE q # r
    BY <1>4, <2>1, <2>3 DEF HttpInv, ErrorsStartNothing, OldChatWorks
  <2> QED BY <2>2, <2>3
<1> QED BY <1>1, <1>2, <1>3, <1>5, <1>6, <1>7 DEF HttpInv, ErrorsStartNothing

\* Leaving excuses the server of more; what else does not touch a request changes nothing.
LEMMA HttpStutters ==
    ASSUME HttpInv, left \subseteq left', UNCHANGED <<place, status, queried, started, ask>>
    PROVE  HttpInv'
<1>1. HttpType' /\ DoneSoFar' /\ HandlersReached' /\ AsksAQuery'
  BY DEF HttpInv, HttpType, DoneSoFar, HandlersReached, AsksAQuery
<1>2. StartedIsAccepted' /\ OldChatWorks'
  BY DEF HttpInv, ErrorsStartNothing, StartedIsAccepted, OldChatWorks
<1>3. QueriesAreUsed'
  BY DEF HttpInv, ErrorsStartNothing, QueriesAreUsed, MayWaste, ShortId
<1> QED BY <1>1, <1>2, <1>3 DEF HttpInv, ErrorsStartNothing

\* A request is answered with what goes with what it has done; a client that has left
\* hears nothing.
LEMMA RequestIsAnswered ==
    ASSUME HttpInv, NEW r \in Requests, NEW code \in Codes,
           place[r] # "over", Answer(r, code), UNCHANGED <<ask, left, queried, started>>,
           Told(r, code), Used(r, code)
    PROVE  HttpInv'
<1>1. Moves(r, "over")
  BY DEF Moves, Answer
<1>2. CASE r \in left
  <2>1. status[r] = 0 /\ status \in [Requests -> Nat]
    BY DEF HttpInv, HttpType, DoneSoFar, None
  <2>2. status' = [status EXCEPT ![r] = 0]
    BY <1>2, <2>1 DEF Answer
  <2>3. ~(0 # None \/ r \notin left) /\ 0 \in Nat
    BY <1>2 DEF None
  <2> QED BY <1>1, <1>2, <2>2, <2>3, RequestEnds
<1>3. CASE r \notin left
  <2>1. status' = [status EXCEPT ![r] = code]
    BY <1>3 DEF Answer
  <2>2. code \in Nat
    BY DEF Codes
  <2> QED BY <1>1, <2>1, <2>2, RequestEnds
<1> QED BY <1>2, <1>3

\* A request that has done nothing may be answered with anything but 202.
LEMMA NothingToTell ==
    ASSUME HttpInv, NEW r \in Requests, place[r] \in {"coming", "handling", "querying"}
    PROVE  /\ place[r] # "over" /\ r \notin started /\ r \notin queried
           /\ \A code \in Nat : Used(r, code) /\ (code # 202 => Told(r, code))
  BY DEF HttpInv, DoneSoFar, Told, Used

\* A handler that has panicked: the answer is 500, or none.
LEMMA PanicEnds ==
    ASSUME HttpInv, NEW r \in Requests, place[r] # "over", Panic(r),
           UNCHANGED <<ask, left, queried, started>>,
           r \notin started, Used(r, 500), Used(r, None)
    PROVE  HttpInv'
<1>1. CASE ask[r].mount = "direct"
  <2>1. status[r] = 0 /\ status \in [Requests -> Nat]
    BY DEF HttpInv, HttpType, DoneSoFar, None
  <2>2. status' = [status EXCEPT ![r] = 0] /\ Moves(r, "over")
    BY <1>1, <2>1 DEF Panic, Goes, Moves
  <2>3. Told(r, 0) /\ Used(r, 0) /\ 0 \in Nat
    BY DEF Told, None
  <2> QED BY <2>2, <2>3, RequestEnds
<1>2. CASE ask[r].mount # "direct"
  <2>1. Answer(r, 500) /\ Told(r, 500) /\ 500 \in Codes
    BY <1>2 DEF Panic, Told, Codes
  <2> QED BY <2>1, RequestIsAnswered
<1> QED BY <1>1, <1>2

LEMMA AdmitSteps ==
    ASSUME HttpInv, NEW r \in Requests, Admit(r)
    PROVE  HttpInv'
<1>1. place[r] = "coming" /\ UNCHANGED <<ask, left, queried, started>>
  BY DEF Admit
<1>2. Told(r, 401) /\ Used(r, 401) /\ Told(r, 403) /\ Used(r, 403)
  BY <1>1, NothingToTell
<1>3. CASE Answer(r, 401) \/ Answer(r, 403)
  <2>1. 401 \in Codes /\ 403 \in Codes /\ place[r] # "over"
    BY <1>1 DEF Codes
  <2> QED BY <1>1, <1>2, <1>3, <2>1, RequestIsAnswered
<1>4. CASE ("tenant" \in Layers(r) => ClaimsFound(r)) /\ Goes(r, "handling")
  <2>1. ask[r].mount = "direct" \/ ask[r].route \in {"health", "legacy chat"}
    BY <1>4 DEF Layers, ClaimsFound
  <2>2. Moves(r, "handling") /\ status' = status
    BY <1>1, <1>4 DEF Moves, Goes
  <2> QED BY <1>1, <2>1, <2>2, RequestGoesOn DEF Inside
<1> QED BY <1>3, <1>4 DEF Admit

\* Where a handler is when it takes a step.
LEMMA InHandler ==
    ASSUME HttpInv, NEW r \in Requests, HandleHttp(r)
    PROVE  /\ place[r] \in Inside /\ UNCHANGED <<ask, left>>
           /\ ask[r].mount = "direct" \/ ask[r].route \in {"health", "legacy chat"}
<1>1. place[r] \in Inside /\ UNCHANGED <<ask, left>>
  BY DEF HandleHttp, BadRequest, NotFound, BeginQuery, QueryFails, QueryEnds, HandleChat,
         HandleStreamChat, HandleChatHistory, HandleCreatePlan, HandleGetPlan, HandleUpdatePlanStep,
         HandleStartEmbed, AcceptEmbed, HandleSearchEmbeddings, HandleEmbedProgress,
         HandleEmbedStatus, HandleEmbedStats, HandleWithoutInput, Valid, HasResult, Inside
<1> QED BY <1>1 DEF HttpInv, HandlersReached

\* A handler that answers without a result and without a job.
EarlyCodes == {200, 400, 404, 500}
AnswersAtOnce(r) ==
    /\ place[r] \in {"handling", "querying"}
    /\ \E code \in EarlyCodes : Answer(r, code)
    /\ queried' = queried /\ started' = started

LEMMA AllEarly == 200 \in EarlyCodes /\ 400 \in EarlyCodes /\ 404 \in EarlyCodes /\ 500 \in EarlyCodes
  BY DEF EarlyCodes

LEMMA EarlyAreCodes == EarlyCodes \subseteq Codes /\ EarlyCodes \subseteq Nat /\ 202 \notin EarlyCodes
  BY DEF EarlyCodes, Codes

LEMMA CodeAtOnce ==
    ASSUME NEW r, NEW code \in EarlyCodes, Answer(r, code), place[r] \in {"handling", "querying"},
           queried' = queried, started' = started
    PROVE  AnswersAtOnce(r)
  BY Zenon DEF AnswersAtOnce

LEMMA AnsweredAtOnce ==
    ASSUME NEW r \in Requests,
           \/ BadRequest(r) \/ NotFound(r) \/ QueryFails(r) \/ HandleStreamChat(r)
           \/ HandleChatHistory(r) \/ HandleGetPlan(r) \/ HandleUpdatePlanStep(r)
           \/ HandleEmbedProgress(r) \/ HandleEmbedStatus(r) \/ HandleEmbedStats(r)
           \/ HandleWithoutInput(r)
    PROVE  AnswersAtOnce(r)
<1> DEFINE Result(code) == Answer(r, code) /\ queried' = queried /\ started' = started
<1>1. BadRequest(r) => place[r] = "handling" /\ Result(400)
  BY DEF BadRequest
<1>2. NotFound(r) => place[r] = "handling" /\ Result(404)
  BY DEF NotFound, Valid
<1>3. QueryFails(r) => place[r] = "querying" /\ Result(500)
  BY DEF QueryFails
<1>4. HandleStreamChat(r) => place[r] = "handling" /\ (Result(200) \/ Result(500))
  BY DEF HandleStreamChat, Valid
<1>5. HandleChatHistory(r) \/ HandleGetPlan(r) \/ HandleUpdatePlanStep(r) => place[r] = "handling" /\ Result(200)
  BY DEF HandleChatHistory, HandleGetPlan, HandleUpdatePlanStep, Valid
<1>6. HandleEmbedProgress(r) \/ HandleEmbedStatus(r) \/ HandleEmbedStats(r) => place[r] = "handling" /\ Result(200)
  BY DEF HandleEmbedProgress, HandleEmbedStatus, HandleEmbedStats, Valid
<1>7. HandleWithoutInput(r) => place[r] = "handling" /\ Result(200)
  BY DEF HandleWithoutInput
<1>8. place[r] \in {"handling", "querying"}
  BY <1>1, <1>2, <1>3, <1>4, <1>5, <1>6, <1>7, Zenon
<1>9. Result(200) \/ Result(400) \/ Result(404) \/ Result(500)
  BY <1>1, <1>2, <1>3, <1>4, <1>5, <1>6, <1>7, Zenon
<1>10. \E code \in EarlyCodes : Result(code)
  BY <1>9, AllEarly, ZenonT(40)
<1> QED BY <1>8, <1>10, CodeAtOnce, Zenon

\* The handlers that have a result to answer with.
LEMMA ResultSteps ==
    ASSUME HttpInv, NEW r \in Requests, UNCHANGED <<ask, left>>,
           HandleChat(r) \/ HandleCreatePlan(r) \/ HandleSearchEmbeddings(r)
    PROVE  HttpInv'
<1>1. place[r] = "answered" /\ UNCHANGED <<queried, started>>
  BY DEF HandleChat, HandleCreatePlan, HandleSearchEmbeddings, HasResult
<1>2. r \notin started /\ place[r] # "over"
  BY <1>1 DEF HttpInv, DoneSoFar
<1>3. CASE HandleChat(r)
  <2>1. Answer(r, 200)
    BY <1>3 DEF HandleChat
  <2>2. Told(r, 200) /\ Used(r, 200) /\ 200 \in Codes
    BY <1>2 DEF Told, Used, Codes
  <2> QED BY <1>1, <1>2, <2>1, <2>2, RequestIsAnswered
<1>4. CASE HandleCreatePlan(r)
  <2>1. CASE ShortId(r)
    <3>1. Panic(r) /\ Used(r, 500) /\ Used(r, None)
      BY <1>4, <2>1 DEF HandleCreatePlan, HasResult, MayWaste, Used
    <3> QED BY <1>1, <1>2, <3>1, PanicEnds
  <2>2. CASE ~ShortId(r)
    <3>1. Answer(r, 201)
      BY <1>4, <2>2 DEF HandleCreatePlan
    <3>2. Told(r, 201) /\ Used(r, 201) /\ 201 \in Codes
      BY <1>2 DEF Told, Used, Codes
    <3> QED BY <1>1, <1>2, <3>1, <3>2, RequestIsAnswered
  <2> QED BY <2>1, <2>2
<1>5. CASE HandleSearchEmbeddings(r)
  <2>1. PICK code \in {200, 500} : Answer(r, code)
    BY <1>5 DEF HandleSearchEmbeddings
  <2>2. Used(r, code)
    BY <1>5 DEF HandleSearchEmbeddings, HasResult, MayWaste, Used
  <2>3. Told(r, code) /\ code \in Codes
    BY <1>2 DEF Told, Codes
  <2> QED BY <1>1, <1>2, <2>1, <2>2, <2>3, RequestIsAnswered
<1> QED BY <1>3, <1>4, <1>5

\* A job is started by a handler that then answers that it is.
LEMMA EmbedSteps ==
    ASSUME HttpInv, NEW r \in Requests, UNCHANGED <<ask, left>>,
           ask[r].mount = "direct" \/ ask[r].route \in {"health", "legacy chat"},
           HandleStartEmbed(r) \/ AcceptEmbed(r)
    PROVE  HttpInv'
<1>1. CASE HandleStartEmbed(r)
  <2>1. place[r] = "handling" /\ ask[r].mount = "direct" /\ queried' = queried
    BY <1>1 DEF HandleStartEmbed, Valid
  <2>2. /\ r \notin started /\ place[r] # "over"
        /\ Used(r, 412) /\ Told(r, 412) /\ Used(r, 500) /\ Used(r, 0)
    BY <2>1, NothingToTell
  <2>3. CASE Answer(r, 412) /\ UNCHANGED started
    <3>1. 412 \in Codes
      BY AllCodes, Zenon
    <3> QED BY <2>1, <2>2, <2>3, <3>1, RequestIsAnswered
  <2>4. CASE Panic(r) /\ UNCHANGED started
    <3>1. Used(r, None)
      BY <2>2 DEF None
    <3> QED BY <2>1, <2>2, <2>4, <3>1, PanicEnds
  <2>5. CASE Goes(r, "started") /\ started' = started \cup {r}
    <3>1. Moves(r, "started") /\ status' = status
      BY <2>1, <2>5 DEF Moves, Goes
    <3> QED BY <2>1, <2>5, <3>1, RequestGoesOn DEF Inside
  <2> QED BY <1>1, <2>3, <2>4, <2>5 DEF HandleStartEmbed
<1>2. CASE AcceptEmbed(r)
  <2>1. place[r] = "started" /\ Answer(r, 202) /\ UNCHANGED <<queried, started>>
    BY <1>2 DEF AcceptEmbed
  <2>2. r \in started /\ r \notin queried
    BY <2>1 DEF HttpInv, DoneSoFar
  <2>3. place[r] # "over" /\ 202 \in Codes
    <3>1. place[r] # "over"
      BY <2>1
    <3> QED BY <3>1, AllCodes, Zenon
  <2>4. Told(r, 202) /\ Used(r, 202)
    BY <2>2, Zenon DEF Told, Used
  <2> QED BY <2>1, <2>2, <2>3, <2>4, RequestIsAnswered
<1> QED BY <1>1, <1>2

LEMMA HandlerSteps ==
    ASSUME HttpInv, NEW r \in Requests, HandleHttp(r)
    PROVE  HttpInv'
<1>1. /\ place[r] \in Inside /\ place[r] # "over" /\ UNCHANGED <<ask, left>>
      /\ ask[r].mount = "direct" \/ ask[r].route \in {"health", "legacy chat"}
  BY InHandler DEF Inside
<1>2. CASE BeginQuery(r)
  <2>1. /\ place[r] = "handling" /\ Goes(r, "querying") /\ UNCHANGED <<queried, started>>
        /\ ask[r].route \in {"chat", "legacy chat", "plan", "search"}
    BY <1>2 DEF BeginQuery, Valid
  <2>2. Moves(r, "querying") /\ status' = status
    BY <1>1, <2>1 DEF Moves, Goes
  <2> QED BY <1>1, <2>1, <2>2, RequestGoesOn DEF Inside
<1>3. CASE QueryEnds(r)
  <2>1. place[r] = "querying" /\ Goes(r, "answered") /\ queried' = queried \cup {r} /\ UNCHANGED started
    BY <1>3 DEF QueryEnds
  <2>2. Moves(r, "answered") /\ status' = status
    BY <1>1, <2>1 DEF Moves, Goes
  <2>3. ask[r].mount = "server" => ask[r].route = "legacy chat"
    BY <1>1, <2>1 DEF HttpInv, AsksAQuery
  <2> QED BY <1>1, <2>1, <2>2, <2>3, RequestGoesOn DEF Inside
<1>4. CASE HandleStartEmbed(r) \/ AcceptEmbed(r)
  BY <1>1, <1>4, EmbedSteps
<1>5. CASE HandleChat(r) \/ HandleCreatePlan(r) \/ HandleSearchEmbeddings(r)
  BY <1>1, <1>5, ResultSteps
<1>6. CASE AnswersAtOnce(r)
  <2>1. PICK code \in EarlyCodes : Answer(r, code)
    BY <1>6 DEF AnswersAtOnce
  <2>2. place[r] \in {"handling", "querying"} /\ UNCHANGED <<queried, started>>
    BY <1>6 DEF AnswersAtOnce
  <2>3. Told(r, code) /\ Used(r, code) /\ code \in Codes
    BY <2>2, NothingToTell, EarlyAreCodes
  <2>4. place[r] # "over" /\ UNCHANGED <<ask, left, queried, started>>
    BY <1>1, <2>2
  <2> QED BY <2>1, <2>3, <2>4, RequestIsAnswered
<1> QED
  BY <1>2, <1>3, <1>4, <1>5, <1>6, AnsweredAtOnce, Zenon DEF HandleHttp

LEMMA HttpSteps == HttpInv /\ HttpStep => HttpInv'
<1> SUFFICES ASSUME HttpInv, HttpStep PROVE HttpInv'
  OBVIOUS
<1>1. CASE (\E r \in Requests : Expire(r) \/ Leave(r)) \/ Stop \/ Down
  BY <1>1, HttpStutters DEF Expire, Leave, Stop, Down
<1> QED BY <1>1, AdmitSteps, HandlerSteps DEF HttpStep

\* An HTTP answer tells what was done: an error has started no job, a job that was
\* started is told to a client that has not left, and only a plan with too short an ID,
\* or a search, has wasted a query.
THEOREM ErrorsAreHonest == Spec => []ErrorsStartNothing
<1>1. Init => HttpInv
  <2> SUFFICES ASSUME Init PROVE HttpInv
    OBVIOUS
  <2>1. /\ place = [r \in Requests |-> "coming"] /\ status = [r \in Requests |-> 0]
        /\ queried = {} /\ started = {}
    BY DEF Init, HttpInit, None
  <2>2. HttpType /\ DoneSoFar /\ HandlersReached /\ AsksAQuery
    BY <2>1 DEF HttpType, DoneSoFar, HandlersReached, AsksAQuery, Inside, None
  <2>3. StartedIsAccepted /\ QueriesAreUsed /\ OldChatWorks
    BY <2>1 DEF StartedIsAccepted, QueriesAreUsed, OldChatWorks, None
  <2> QED BY <2>2, <2>3 DEF HttpInv, ErrorsStartNothing
<1>2. HttpInv /\ [Next]_vars => HttpInv'
  <2> SUFFICES ASSUME HttpInv, [Next]_vars PROVE HttpInv'
    OBVIOUS
  <2>1. CASE HttpGoesOn
    BY <2>1, HttpSteps DEF HttpGoesOn
  <2>2. CASE UNCHANGED hvars
    BY <2>2, HttpStutters DEF hvars
  <2> QED
    BY <2>1, <2>2 DEF Next, LocalStep, LocalGoesOn, ClientSends, ServerGoesOn, vars
<1>3. HttpInv => ErrorsStartNothing
  BY DEF HttpInv
<1> QED BY <1>1, <1>2, <1>3, PTL DEF Spec

-----------------------------------------------------------------------------
\* The documents.

\* A change under way: all its fields are there.
IsJob(k) ==
    /\ k = [at |-> k.at, op |-> k.op, doc |-> k.doc, value |-> k.value, n |-> k.n, copy |-> k.copy]
    /\ k.at \in {"opened", "loaded", "backingUp", "backedUp", "noBackup", "emptied"}

\* Logs are opened, other documents are loaded.
OpensLogs(k) ==
    /\ k.at = "opened" <=> Docs[k.doc] = "log"
    /\ k.at = "opened" => k.op = "append"

DocType ==
    /\ docs = [d \in DOMAIN Docs |-> docs[d]]
    /\ acked = [d \in DOMAIN Docs |-> acked[d]]
    /\ work = [w \in Workers |-> work[w]]
    /\ \A w \in Workers : work[w] = Free \/ (IsJob(work[w]) /\ OpensLogs(work[w]))

LEMMA NotFree == \A k : k.at # "free" => k # Free
  BY DEF Free

IsAt(w, d) == work[w] # Free /\ work[w].doc = d

Alone(d) == \A w, x \in Workers : IsAt(w, d) /\ IsAt(x, d) => w = x

CopyIsAcked(d) == \A w \in Workers : IsAt(w, d) => work[w].copy = acked[d]

DocIsAcked(d) == (\A w \in Workers : IsAt(w, d) => work[w].at # "emptied") => docs[d] = acked[d]

\* What workers have opened is the log of that name.
LogIsAcked(d) ==
    /\ docs[d] = acked[d]
    /\ \A w \in Workers : IsAt(w, d) => work[w].copy.title = docs[d].title

\* A document that was not disturbed: one worker at most is at it, has read what was
\* acknowledged, and only while it writes the document is something else.  A log may
\* have any number of them.
KeptAt(d) ==
    d \notin disturbed =>
        IF Docs[d] = "log" THEN LogIsAcked(d) ELSE Alone(d) /\ CopyIsAcked(d) /\ DocIsAcked(d)

KeptInv == DocType /\ \A d \in DOMAIN Docs : KeptAt(d)

-----------------------------------------------------------------------------
\* What a step does that worker w takes at document d.
Touches(w, d) ==
    /\ \A x \in Workers \ {w} : work'[x] = work[x]
    /\ \A e \in DOMAIN Docs \ {d} : docs'[e] = docs[e] /\ acked'[e] = acked[e]
    /\ work[w] # Free => work[w].doc = d
    /\ work'[w] # Free => work'[w].doc = d
    /\ disturbed \subseteq disturbed'

\* The other documents are kept.
LEMMA OthersKept ==
    ASSUME KeptInv, NEW w \in Workers, NEW d, Touches(w, d), NEW e \in DOMAIN Docs \ {d}
    PROVE  KeptAt(e)'
<1>1. \A x \in Workers : (IsAt(x, e))' <=> IsAt(x, e)
  BY DEF Touches, IsAt
<1>2. \A x \in Workers : IsAt(x, e) => work'[x] = work[x]
  BY DEF Touches, IsAt
<1>3. docs'[e] = docs[e] /\ acked'[e] = acked[e]
  BY DEF Touches
<1>9. CASE Docs[e] = "log"
  <2> SUFFICES ASSUME e \notin disturbed' PROVE LogIsAcked(e)'
    BY <1>9 DEF KeptAt
  <2>1. LogIsAcked(e)
    BY <1>9 DEF KeptInv, KeptAt, Touches
  <2> QED BY <1>1, <1>2, <1>3, <2>1 DEF LogIsAcked
<1>4. SUFFICES ASSUME Docs[e] # "log", e \notin disturbed'
               PROVE  (Alone(e) /\ CopyIsAcked(e) /\ DocIsAcked(e))'
  BY <1>9 DEF KeptAt
<1>5. Alone(e) /\ CopyIsAcked(e) /\ DocIsAcked(e)
  BY <1>4 DEF KeptInv, KeptAt, Touches
<1>6. Alone(e)'
  BY <1>1, <1>5 DEF Alone
<1>7. CopyIsAcked(e)'
  BY <1>1, <1>2, <1>3, <1>5 DEF CopyIsAcked
<1>8. DocIsAcked(e)'
  <2>1. SUFFICES ASSUME \A x \in Workers : (IsAt(x, e))' => work'[x].at # "emptied"
                 PROVE  docs'[e] = acked'[e]
    BY DEF DocIsAcked
  <2>2. \A x \in Workers : IsAt(x, e) => work[x].at # "emptied"
    BY <1>1, <1>2, <2>1
  <2> QED BY <1>3, <1>5, <2>2 DEF DocIsAcked
<1> QED BY <1>6, <1>7, <1>8

\* Worker w goes on at document d, or is done: how d is kept.
LEMMA WorkerGoesOn ==
    ASSUME KeptInv, NEW w \in Workers, NEW d \in DOMAIN Docs, Touches(w, d), IsAt(w, d),
           Docs[d] # "log",
           work'[w] # Free => work'[w].copy = work[w].copy /\ acked'[d] = acked[d],
           d \notin disturbed' =>
               (work'[w] # Free /\ work'[w].at = "emptied") \/ docs'[d] = acked'[d]
    PROVE  KeptAt(d)'
<1>1. SUFFICES ASSUME d \notin disturbed' PROVE (Alone(d) /\ CopyIsAcked(d) /\ DocIsAcked(d))'
  BY DEF KeptAt
<1>2. Alone(d) /\ CopyIsAcked(d)
  BY <1>1 DEF KeptInv, KeptAt, Touches
<1>3. \A x \in Workers : (IsAt(x, d))' => x = w
  BY <1>2 DEF Alone, Touches, IsAt
<1>4. Alone(d)'
  BY <1>3 DEF Alone
<1>5. CopyIsAcked(d)'
  <2> SUFFICES ASSUME NEW x \in Workers, (IsAt(x, d))' PROVE work'[x].copy = acked'[d]
    BY DEF CopyIsAcked
  <2>1. x = w /\ work'[w] # Free
    BY <1>3 DEF IsAt
  <2> QED BY <1>2, <2>1 DEF CopyIsAcked
<1>6. DocIsAcked(d)'
  BY <1>1 DEF DocIsAcked, IsAt, Touches
<1> QED BY <1>4, <1>5, <1>6

-----------------------------------------------------------------------------
\* The steps at the documents.

LEMMA ChangedAtOnce ==
    ASSUME KeptInv, NEW w \in Workers, NEW op, NEW d \in DOMAIN Docs, ChangeAtOnce(w, op, d)
    PROVE  KeptInv'
<1>1. DocType'
  BY DEF KeptInv, DocType, ChangeAtOnce
<1>2. Touches(w, d)
  BY DEF KeptInv, DocType, ChangeAtOnce, Touches
<1>3. KeptAt(d)'
  <2>1. SUFFICES ASSUME d \notin disturbed'
                 PROVE  (Alone(d) /\ CopyIsAcked(d) /\ DocIsAcked(d) /\ LogIsAcked(d))'
    BY DEF KeptAt
  <2>2. WorkersAt(d) = {} /\ d \notin disturbed /\ work' = work
    BY <2>1 DEF ChangeAtOnce
  <2>3. \A x \in Workers : ~IsAt(x, d)
    BY <2>2 DEF WorkersAt, IsAt
  <2>4. \A x \in Workers : ~(IsAt(x, d))'
    BY <2>2, <2>3 DEF IsAt
  <2>5. docs[d] = acked[d]
    BY <2>2, <2>3 DEF KeptInv, KeptAt, DocIsAcked, LogIsAcked
  <2>6. docs'[d] = Change(op, made', 0, docs[d]) /\ acked'[d] = Change(op, made', 0, acked[d])
    BY DEF KeptInv, DocType, ChangeAtOnce
  <2> QED BY <2>4, <2>5, <2>6 DEF Alone, CopyIsAcked, DocIsAcked, LogIsAcked
<1> QED BY <1>1, <1>2, <1>3, OthersKept DEF KeptInv

LEMMA Loaded ==
    ASSUME KeptInv, NEW w \in Workers, NEW op, NEW d \in DOMAIN Docs, NEW v, Load(w, op, d, v)
    PROVE  KeptInv'
<1>0. Docs[d] # "log"
  BY DEF Load, AfterReading
<1>1. work'[w] = [at |-> "loaded", op |-> op, doc |-> d, value |-> v, n |-> made', copy |-> docs[d]]
      /\ work[w] = Free
  BY DEF KeptInv, DocType, Load, BeginsChange
<1>2. IsJob(work'[w]) /\ OpensLogs(work'[w])
  BY <1>0, <1>1 DEF IsJob, OpensLogs
<1>3. \A x \in Workers \ {w} : work'[x] = work[x]
  BY DEF KeptInv, DocType, Load, BeginsChange
<1>4. DocType'
  BY <1>2, <1>3 DEF KeptInv, DocType, Load, BeginsChange
<1>5. work'[w].doc = d /\ work'[w].copy = docs[d] /\ work'[w].at = "loaded"
  BY <1>1
<1>6. docs' = docs /\ acked' = acked /\ disturbed \subseteq disturbed'
  BY DEF Load
<1>7. Touches(w, d)
  BY <1>1, <1>3, <1>5, <1>6 DEF Touches
<1>8. KeptAt(d)'
  <2>1. SUFFICES ASSUME d \notin disturbed'
                 PROVE  (Alone(d) /\ CopyIsAcked(d) /\ DocIsAcked(d))'
    BY <1>0 DEF KeptAt
  <2>2. WorkersAt(d) = {} /\ d \notin disturbed
    BY <2>1 DEF Load
  <2>3. \A x \in Workers : ~IsAt(x, d)
    BY <2>2 DEF WorkersAt, IsAt
  <2>4. \A x \in Workers : (IsAt(x, d))' => x = w
    BY <1>3, <2>3 DEF IsAt
  <2>5. docs[d] = acked[d]
    BY <1>0, <2>1, <2>2, <2>3 DEF KeptInv, KeptAt, DocIsAcked
  <2> QED BY <1>5, <1>6, <2>4, <2>5 DEF Alone, CopyIsAcked, DocIsAcked
<1> QED BY <1>4, <1>7, <1>8, OthersKept DEF KeptInv

\* Save and Write: what is written is made of the copy, and is acknowledged.
LEMMA WrittenBack ==
    ASSUME KeptInv, NEW w \in Workers, Save(w) \/ Write(w)
    PROVE  KeptInv'
<1> PICK d : d = work[w].doc
  OBVIOUS
<1>1. /\ work[w].at \in {"loaded", "emptied"}
      /\ docs' = [docs EXCEPT ![d] = Written(w)]
      /\ work' = [work EXCEPT ![w] = Free]
      /\ acked' = [acked EXCEPT ![d] = Change(work[w].op, work[w].n, work[w].value, acked[d])]
      /\ disturbed' = disturbed
  BY DEF Save, Write, Acknowledge
<1>2. IsAt(w, d) /\ Docs[d] # "log"
  BY <1>1, NotFree DEF IsAt, KeptInv, DocType, OpensLogs
<1>3. DocType' /\ work'[w] = Free
  BY <1>1 DEF KeptInv, DocType
<1>4. Touches(w, d)
  BY <1>1, <1>3 DEF KeptInv, DocType, Touches
<1>5. d \in DOMAIN Docs => KeptAt(d)'
  <2>1. SUFFICES ASSUME d \in DOMAIN Docs PROVE KeptAt(d)'
    OBVIOUS
  <2>2. ASSUME d \notin disturbed' PROVE docs'[d] = acked'[d]
    <3>1. work[w].copy = acked[d]
      BY <1>1, <1>2, <2>1, <2>2 DEF KeptInv, KeptAt, CopyIsAcked
    <3>2. docs'[d] = Written(w)
          /\ acked'[d] = Change(work[w].op, work[w].n, work[w].value, acked[d])
      BY <1>1, <2>1 DEF KeptInv, DocType
    <3> QED BY <3>1, <3>2 DEF Written
  <2> QED BY <1>2, <1>3, <1>4, <2>1, <2>2, WorkerGoesOn
<1> QED BY <1>3, <1>4, <1>5, OthersKept DEF KeptInv

\* A worker goes on and the document stays as it is.
LEMMA WorkerSteps ==
    ASSUME KeptInv, NEW w \in Workers,
           BackupFails(w) \/ CreateBackup(w) \/ CopyToBackup(w) \/ TargetMissing(w) \/ WriteFails(w)
    PROVE  KeptInv'
<1> PICK d : d = work[w].doc
  OBVIOUS
<1>1. /\ work[w].at \in {"loaded", "backingUp", "backedUp", "noBackup"}
      /\ UNCHANGED <<docs, acked, disturbed>>
      /\ \/ work' = [work EXCEPT ![w] = Free]
         \/ \E to \in {"backingUp", "backedUp", "noBackup"} : work' = [work EXCEPT ![w].at = to]
  BY DEF BackupFails, CreateBackup, CopyToBackup, TargetMissing, WriteFails, ReadyToWrite, AfterBackup
<1>2. IsAt(w, d) /\ IsJob(work[w]) /\ Docs[d] # "log"
  BY <1>1, NotFree DEF IsAt, KeptInv, DocType, OpensLogs
<1>3. \/ work'[w] = Free
      \/ /\ IsJob(work'[w]) /\ OpensLogs(work'[w]) /\ work'[w].at # "emptied"
         /\ work'[w].doc = d /\ work'[w].copy = work[w].copy
  <2>1. CASE work' = [work EXCEPT ![w] = Free]
    BY <2>1 DEF KeptInv, DocType
  <2>2. ASSUME NEW to \in {"backingUp", "backedUp", "noBackup"}, work' = [work EXCEPT ![w].at = to]
        PROVE  /\ IsJob(work'[w]) /\ OpensLogs(work'[w]) /\ work'[w].at # "emptied"
               /\ work'[w].doc = d /\ work'[w].copy = work[w].copy
    <3>1. /\ IsJob(work'[w]) /\ work'[w].at = to
          /\ work'[w].doc = d /\ work'[w].copy = work[w].copy
      BY <1>1, <1>2, <2>2 DEF KeptInv, DocType, IsJob
    <3> QED BY <1>2, <3>1 DEF OpensLogs
  <2> QED BY <1>1, <2>1, <2>2
<1>4. DocType' /\ \A x \in Workers \ {w} : work'[x] = work[x]
  BY <1>1, <1>3 DEF KeptInv, DocType
<1>5. Touches(w, d)
  BY <1>1, <1>3, <1>4 DEF Touches
<1>6. d \in DOMAIN Docs => KeptAt(d)'
  <2>1. SUFFICES ASSUME d \in DOMAIN Docs PROVE KeptAt(d)'
    OBVIOUS
  <2>2. ASSUME d \notin disturbed' PROVE docs'[d] = acked'[d]
    <3>1. Alone(d) /\ DocIsAcked(d)
      BY <1>1, <1>2, <2>1, <2>2 DEF KeptInv, KeptAt
    <3>2. \A x \in Workers : IsAt(x, d) => work[x].at # "emptied"
      BY <1>1, <1>2, <3>1 DEF Alone
    <3> QED BY <1>1, <3>1, <3>2 DEF DocIsAcked
  <2> QED BY <1>1, <1>2, <1>3, <1>5, <2>1, <2>2, WorkerGoesOn
<1> QED BY <1>4, <1>5, <1>6, OthersKept DEF KeptInv

LEMMA Truncated ==
    ASSUME KeptInv, NEW w \in Workers, Truncate(w)
    PROVE  KeptInv'
<1> PICK d : d = work[w].doc
  OBVIOUS
<1>1. /\ work[w].at \in {"loaded", "backedUp", "noBackup"}
      /\ UNCHANGED <<acked, disturbed>>
      /\ work' = [work EXCEPT ![w].at = "emptied"]
      /\ docs' = [docs EXCEPT ![d] = Content(0, {})]
  BY DEF Truncate, ReadyToWrite, AfterBackup
<1>2. IsAt(w, d) /\ IsJob(work[w]) /\ Docs[d] # "log"
  BY <1>1, NotFree DEF IsAt, KeptInv, DocType, OpensLogs
<1>3. /\ IsJob(work'[w]) /\ OpensLogs(work'[w]) /\ work'[w].at = "emptied"
      /\ work'[w].doc = d /\ work'[w].copy = work[w].copy
  <2>1. /\ IsJob(work'[w]) /\ work'[w].at = "emptied"
        /\ work'[w].doc = d /\ work'[w].copy = work[w].copy
    BY <1>1, <1>2 DEF KeptInv, DocType, IsJob
  <2> QED BY <1>2, <2>1 DEF OpensLogs
<1>4. DocType' /\ \A x \in Workers \ {w} : work'[x] = work[x]
  BY <1>1, <1>3 DEF KeptInv, DocType
<1>5. Touches(w, d)
  BY <1>1, <1>3, <1>4 DEF KeptInv, DocType, Touches
<1>6. work'[w] # Free
  BY <1>3 DEF Free
<1>7. d \in DOMAIN Docs => KeptAt(d)'
  <2> QED BY <1>1, <1>2, <1>3, <1>5, <1>6, WorkerGoesOn
<1> QED BY <1>4, <1>5, <1>7, OthersKept DEF KeptInv

\* A change that is cut off while it writes disturbs the document.
LEMMA CutOff ==
    ASSUME KeptInv, NEW w \in Workers, CutOffChange(w)
    PROVE  KeptInv'
<1> PICK d : d = work[w].doc
  OBVIOUS
<1>1. /\ work[w].at \in {"emptied", "opened", "backingUp"}
      /\ UNCHANGED <<docs, acked>> /\ disturbed \subseteq disturbed'
      /\ work' = [work EXCEPT ![w] = Free]
      /\ d \notin disturbed' => work[w].at = "backingUp"
  BY DEF CutOffChange
<1>2. IsAt(w, d) /\ (work[w].at = "backingUp" => Docs[d] # "log")
  BY <1>1, NotFree DEF IsAt, KeptInv, DocType, OpensLogs
<1>3. DocType' /\ work'[w] = Free /\ \A x \in Workers \ {w} : work'[x] = work[x]
  BY <1>1 DEF KeptInv, DocType
<1>4. Touches(w, d)
  BY <1>1, <1>3 DEF Touches
<1>5. d \in DOMAIN Docs => KeptAt(d)'
  <2>1. SUFFICES ASSUME d \in DOMAIN Docs, d \notin disturbed' PROVE KeptAt(d)'
    BY DEF KeptAt
  <2>3. Docs[d] # "log"
    BY <1>1, <1>2, <2>1
  <2>2. docs'[d] = acked'[d]
    <3>1. Alone(d) /\ DocIsAcked(d)
      BY <1>1, <2>1, <2>3 DEF KeptInv, KeptAt
    <3>2. \A x \in Workers : IsAt(x, d) => work[x].at # "emptied"
      BY <1>1, <1>2, <2>1, <3>1 DEF Alone
    <3> QED BY <1>1, <3>1, <3>2 DEF DocIsAcked
  <2> QED BY <1>2, <1>3, <1>4, <2>1, <2>2, <2>3, WorkerGoesOn
<1> QED BY <1>3, <1>4, <1>5, OthersKept DEF KeptInv

LEMMA Opened ==
    ASSUME KeptInv, NEW w \in Workers, NEW d \in DOMAIN Docs, OpenLog(w, d)
    PROVE  KeptInv'
<1>1. work'[w] = [at |-> "opened", op |-> "append", doc |-> d, value |-> 0, n |-> made', copy |-> docs[d]]
      /\ work[w] = Free /\ \A x \in Workers \ {w} : work'[x] = work[x]
  BY DEF KeptInv, DocType, OpenLog, BeginsChange
<1>2. /\ Docs[d] = "log" /\ UNCHANGED <<docs, acked, disturbed>>
      /\ work'[w].doc = d /\ work'[w].copy = docs[d]
  BY <1>1 DEF OpenLog
<1>3. IsJob(work'[w]) /\ OpensLogs(work'[w])
  BY <1>1, <1>2 DEF IsJob, OpensLogs
<1>4. DocType'
  BY <1>1, <1>2, <1>3 DEF KeptInv, DocType, OpenLog, BeginsChange
<1>5. Touches(w, d)
  BY <1>1, <1>2 DEF Touches
<1>6. KeptAt(d)'
  <2> SUFFICES ASSUME d \notin disturbed PROVE LogIsAcked(d)'
    BY <1>2 DEF KeptAt
  <2>1. LogIsAcked(d)
    BY <1>2 DEF KeptInv, KeptAt
  <2> QED BY <1>1, <1>2, <2>1 DEF LogIsAcked, IsAt
<1> QED BY <1>4, <1>5, <1>6, OthersKept DEF KeptInv

\* An entry is written to the log that was opened, and is acknowledged.
LEMMA Appended ==
    ASSUME KeptInv, NEW w \in Workers, AppendLine(w)
    PROVE  KeptInv'
<1> PICK d : d = work[w].doc
  OBVIOUS
<1>1. /\ work[w].at = "opened"
      /\ docs' = IF docs[d].title = work[w].copy.title
                 THEN [docs EXCEPT ![d] = Change("append", work[w].n, 0, docs[d])] ELSE docs
      /\ work' = [work EXCEPT ![w] = Free]
      /\ acked' = [acked EXCEPT ![d] = Change(work[w].op, work[w].n, work[w].value, acked[d])]
      /\ disturbed' = disturbed
  BY DEF AppendLine, Acknowledge
<1>2. IsAt(w, d) /\ Docs[d] = "log" /\ work[w].op = "append"
  BY <1>1, NotFree DEF IsAt, KeptInv, DocType, OpensLogs
<1>3. DocType' /\ work'[w] = Free
  BY <1>1 DEF KeptInv, DocType
<1>4. Touches(w, d)
  BY <1>1, <1>3 DEF KeptInv, DocType, Touches
<1>5. d \in DOMAIN Docs => KeptAt(d)'
  <2> SUFFICES ASSUME d \in DOMAIN Docs, d \notin disturbed PROVE LogIsAcked(d)'
    BY <1>1, <1>2 DEF KeptAt
  <2>1. LogIsAcked(d)
    BY <1>2 DEF KeptInv, KeptAt
  <2>2. /\ docs'[d] = AppendEntry(work[w].n, 0, docs[d])
        /\ acked'[d] = AppendEntry(work[w].n, work[w].value, docs[d])
    BY <1>1, <1>2, <2>1 DEF LogIsAcked, KeptInv, DocType, Change
  <2>3. docs'[d] = acked'[d] /\ docs'[d].title = docs[d].title
    BY <2>2 DEF AppendEntry, Content
  <2>4. \A x \in Workers : (IsAt(x, d))' => IsAt(x, d) /\ work'[x] = work[x]
    BY <1>3, <1>4 DEF IsAt, Touches
  <2> QED BY <2>1, <2>3, <2>4 DEF LogIsAcked
<1> QED BY <1>3, <1>4, <1>5, OthersKept DEF KeptInv

-----------------------------------------------------------------------------
\* What the front ends do to the documents.
DocStep ==
    \E w \in Workers :
        \/ \E d \in DOMAIN Docs : \E op \in AtOnce[Docs[d]] : ChangeAtOnce(w, op, d)
        \/ \E d \in DOMAIN Docs : (\E op, v : Load(w, op, d, v)) \/ OpenLog(w, d)
        \/ Save(w) \/ AppendLine(w) \/ StepOfTool(w) \/ CutOffChange(w)

\* The lines that clients have sent name documents.
AllLines == UNION {c.lines : c \in Scenes}

LinesInv ==
    /\ scene \in Scenes
    /\ sent \in [DOMAIN Servers -> Seq(AllLines)]
    /\ seen \in [DOMAIN Servers -> Nat]

LEMMA LinesAreKept == LinesInv /\ [Next]_vars => LinesInv'
<1> SUFFICES ASSUME LinesInv, [Next]_vars PROVE LinesInv'
  OBVIOUS
<1>1. ASSUME NEW s \in DOMAIN Servers, NEW line \in scene.lines, SendLine(s, line), scene' = scene
      PROVE  LinesInv'
  <2>1. line \in AllLines
    BY DEF LinesInv, AllLines
  <2>2. Append(sent[s], line) \in Seq(AllLines)
    BY <2>1 DEF LinesInv
  <2> QED BY <1>1, <2>2 DEF LinesInv, SendLine
<1>2. ASSUME NEW s \in DOMAIN Servers, ServerGoesOn(s) PROVE LinesInv'
  <2>1. sent' = sent /\ scene' = scene
    BY <1>2 DEF ServerGoesOn, ServerStep, ReadLine, StepTool, CutOffTool, EndOfInput
  <2>2. seen' = seen \/ seen' = [seen EXCEPT ![s] = @ + 1]
    BY <1>2 DEF ServerGoesOn, ServerStep, ReadLine, StepTool, CutOffTool, EndOfInput, Consume
  <2>3. seen \in [DOMAIN Servers -> Nat]
    BY DEF LinesInv
  <2>4. seen' \in [DOMAIN Servers -> Nat]
    BY <2>2, <2>3
  <2> QED BY <2>1, <2>4 DEF LinesInv
<1>3. CASE UNCHANGED <<sent, seen, scene>>
  BY <1>3 DEF LinesInv
<1>4. HttpGoesOn \/ (\E w \in DOMAIN Locals : LocalStep(w) \/ LocalGoesOn(w)) \/ UNCHANGED vars
        => UNCHANGED <<sent, seen, scene>>
  BY DEF HttpGoesOn, LocalStep, LocalGoesOn, pvars, vars
<1> QED BY <1>1, <1>2, <1>3, <1>4 DEF Next, ClientSends

LEMMA NextIsDocStep == LinesInv /\ Next => DocStep \/ UNCHANGED dvars
<1> SUFFICES ASSUME LinesInv, Next PROVE DocStep \/ UNCHANGED dvars
  OBVIOUS
<1> USE LocalsAssumption, ServersAssumption
<1>1. ASSUME NEW w \in DOMAIN Locals, LocalStep(w) PROVE DocStep
  BY <1>1 DEF LocalStep, DocStep
<1>2. ASSUME NEW w \in DOMAIN Locals, LocalGoesOn(w) PROVE DocStep
  BY <1>2 DEF LocalGoesOn, DocStep, StepOfTool
<1>3. ASSUME NEW s \in DOMAIN Servers, ClientSends(s) PROVE UNCHANGED dvars
  BY <1>3 DEF ClientSends
<1>4. ASSUME NEW s \in DOMAIN Servers, ReadLine(s) PROVE DocStep \/ UNCHANGED dvars
  <2>1. CASE ParseError(s)
    BY <2>1 DEF ParseError
  <2>2. CASE HandleRequest(s)
    <3>1. CASE CallTool(s)
      <4>1. UNCHANGED dvars \/ \E op, v : Load(s, op, Line(s).call.doc, v)
        BY <3>1 DEF CallTool
      <4>2. Line(s) \in AllLines
        BY <1>4 DEF ReadLine, LinesInv, Line, Number
      <4>3. Line(s).call.doc \in DOMAIN Docs
        BY <4>2 DEF AllLines
      <4> QED BY <4>1, <4>3 DEF DocStep
    <3>2. CASE InvalidRequest(s) \/ Initialize(s) \/ ListTools(s) \/ NewSession(s) \/ PromptSession(s)
      BY <3>2 DEF InvalidRequest, Initialize, ListTools, NewSession, PromptSession, AnswerAtOnce
    <3> QED BY <2>2, <3>1, <3>2 DEF HandleRequest
  <2>3. CASE UNCHANGED dvars
    BY <2>3
  <2> QED BY <1>4, <2>1, <2>2, <2>3 DEF ReadLine
<1>5. ASSUME NEW s \in DOMAIN Servers, StepTool(s) PROVE DocStep
  BY <1>5 DEF StepTool, DocStep
<1>6. ASSUME NEW s \in DOMAIN Servers, CutOffTool(s) PROVE DocStep
  BY <1>6 DEF CutOffTool, DocStep
<1>7. ASSUME NEW s \in DOMAIN Servers, EndOfInput(s) PROVE UNCHANGED dvars
  BY <1>7 DEF EndOfInput
<1>8. HttpGoesOn => UNCHANGED dvars
  BY DEF HttpGoesOn
<1> QED BY <1>1, <1>2, <1>3, <1>4, <1>5, <1>6, <1>7, <1>8 DEF Next, ServerGoesOn, ServerStep

LEMMA KeptSteps == KeptInv /\ DocStep => KeptInv'
<1> SUFFICES ASSUME KeptInv, NEW w \in Workers,
                    \/ \E d \in DOMAIN Docs : \E op \in AtOnce[Docs[d]] : ChangeAtOnce(w, op, d)
                    \/ \E d \in DOMAIN Docs : (\E op, v : Load(w, op, d, v)) \/ OpenLog(w, d)
                    \/ Save(w) \/ AppendLine(w) \/ StepOfTool(w) \/ CutOffChange(w)
             PROVE  KeptInv'
  BY DEF DocStep
<1>1. CASE \E d \in DOMAIN Docs : \E op \in AtOnce[Docs[d]] : ChangeAtOnce(w, op, d)
  BY <1>1, ChangedAtOnce
<1>2. CASE \E d \in DOMAIN Docs : (\E op, v : Load(w, op, d, v)) \/ OpenLog(w, d)
  BY <1>2, Loaded, Opened
<1>3. CASE Save(w) \/ Write(w) \/ AppendLine(w)
  BY <1>3, WrittenBack, Appended
<1>4. CASE BackupFails(w) \/ CreateBackup(w) \/ CopyToBackup(w) \/ TargetMissing(w) \/ WriteFails(w)
  BY <1>4, WorkerSteps
<1>5. CASE Truncate(w) \/ CutOffChange(w)
  BY <1>5, Truncated, CutOff
<1> QED BY <1>1, <1>2, <1>3, <1>4, <1>5 DEF StepOfTool

\* A change that was acknowledged stays in its document, whoever else changes others and
\* whatever comes later, unless two were at it at once or one was cut off while it wrote.
THEOREM AcknowledgedStays == Spec => []AcknowledgedIsKept
<1>1. Init => KeptInv
  BY DEF Init, DocumentsInit, KeptInv, DocType, KeptAt, Alone, CopyIsAcked, DocIsAcked, LogIsAcked, IsAt
<1>2. Init => LinesInv
  BY DEF Init, ServersInit, LinesInv
<1>3. KeptInv /\ LinesInv /\ [Next]_vars => KeptInv'
  <2>1. KeptInv /\ UNCHANGED dvars => KeptInv'
    BY DEF KeptInv, DocType, KeptAt, Alone, CopyIsAcked, DocIsAcked, LogIsAcked, IsAt, dvars, backups
  <2> QED BY <2>1, KeptSteps, NextIsDocStep DEF vars
<1>4. KeptInv => AcknowledgedIsKept
  <2> SUFFICES ASSUME KeptInv, NEW d \in DOMAIN Docs, d \notin disturbed, WorkersAt(d) = {}
               PROVE  docs[d] = acked[d]
    BY DEF AcknowledgedIsKept
  <2>1. \A w \in Workers : ~IsAt(w, d)
    BY DEF WorkersAt, IsAt
  <2> QED BY <2>1 DEF KeptInv, KeptAt, DocIsAcked, LogIsAcked
<1> QED BY <1>1, <1>2, <1>3, <1>4, LinesAreKept, PTL DEF Spec

-----------------------------------------------------------------------------
\* The backups.

OnBase(w, b) == work[w] # Free /\ Docs[work[w].doc] = "file" /\ Base[work[w].doc] = b

AloneOn(b) == \A w, x \in Workers : OnBase(w, b) /\ OnBase(x, b) => w = x

\* The backup of a base name is a content, or a part of it.
BackupOf(b, content) ==
    \/ backup[b] = content
    \/ b \in partial /\ backup[b].items \subseteq content.items

\* What a worker has backed up is still there.
Holds(w, b) ==
    OnBase(w, b) =>
        /\ work[w].at \in {"backingUp", "backedUp"} => replaced[b] = NoBackup
        /\ work[w].at = "backedUp" => BackupOf(b, docs[work[w].doc])

IsBackup(b) == replaced[b] # NoBackup => BackupOf(b, replaced[b].content)

\* Nothing is done to the backup of a base name.
SameBackup(b) == backup'[b] = backup[b] /\ replaced'[b] = replaced[b] /\ (b \in partial' <=> b \in partial)

BackedAt(b) == b \notin mixed => AloneOn(b) /\ (\A w \in Workers : Holds(w, b)) /\ IsBackup(b)

BackupType ==
    /\ backup = [b \in Bases |-> backup[b]]
    /\ replaced = [b \in Bases |-> replaced[b]]
    /\ \A w \in Workers : work[w] # Free =>
          /\ work[w].doc \in DOMAIN Docs
          /\ work[w].at \in {"backingUp", "backedUp"} => Docs[work[w].doc] = "file"

BackupInv == DocType /\ BackupType /\ \A b \in Bases : BackedAt(b)

LEMMA FilesHaveBases == \A d \in DOMAIN Docs : Docs[d] = "file" => Base[d] \in Bases
  BY DocsAssumption DEF Bases

\* A step of a worker with a change: it stays at its document or is done, changes nothing
\* else, and holds what it should of its own base.
LEMMA BackupsHold ==
    ASSUME BackupInv, NEW w \in Workers, work[w] # Free,
           work'[w] # Free => work'[w].doc = work[w].doc,
           \A x \in Workers \ {w} : work'[x] = work[x],
           \A e \in DOMAIN Docs : e # work[w].doc => docs'[e] = docs[e],
           mixed' = mixed,
           \A b \in Bases : ~OnBase(w, b) => SameBackup(b),
           \A b \in Bases \ mixed : OnBase(w, b) => (Holds(w, b) /\ IsBackup(b))'
    PROVE  \A b \in Bases : BackedAt(b)'
<1> SUFFICES ASSUME NEW b \in Bases, b \notin mixed
             PROVE  (AloneOn(b) /\ (\A x \in Workers : Holds(x, b)) /\ IsBackup(b))'
  BY DEF BackedAt
<1>1. AloneOn(b) /\ (\A x \in Workers : Holds(x, b)) /\ IsBackup(b)
  BY DEF BackupInv, BackedAt
<1>2. \A x \in Workers : (OnBase(x, b))' => OnBase(x, b)
  BY DEF OnBase
<1>3. AloneOn(b)'
  BY <1>1, <1>2 DEF AloneOn
<1>4. CASE OnBase(w, b)
  <2>1. \A x \in Workers \ {w} : ~(OnBase(x, b))'
    BY <1>1, <1>2, <1>4 DEF AloneOn
  <2>2. \A x \in Workers : (Holds(x, b))'
    BY <1>4, <2>1 DEF Holds
  <2> QED BY <1>3, <1>4, <2>2
<1>5. CASE ~OnBase(w, b)
  <2>1. SameBackup(b)
    BY <1>5
  <2>2. IsBackup(b)'
    BY <1>1, <2>1 DEF IsBackup, SameBackup, BackupOf
  <2>3. ASSUME NEW x \in Workers, (OnBase(x, b))'
        PROVE  /\ work'[x].at \in {"backingUp", "backedUp"} => replaced'[b] = NoBackup
               /\ work'[x].at = "backedUp" => BackupOf(b, docs[work[x].doc])'
    <3>1. OnBase(x, b) /\ x # w /\ work'[x] = work[x]
      BY <1>2, <1>5, <2>3
    <3>2. work[x].doc # work[w].doc /\ work[x].doc \in DOMAIN Docs
      BY <1>5, <3>1 DEF OnBase, BackupInv, BackupType
    <3>3. docs'[work[x].doc] = docs[work[x].doc]
      BY <3>2
    <3> QED BY <1>1, <2>1, <3>1, <3>3 DEF Holds, SameBackup, BackupOf
  <2>4. \A x \in Workers : (Holds(x, b))'
    BY <2>3 DEF Holds
  <2> QED BY <1>3, <2>2, <2>4
<1> QED BY <1>4, <1>5

\* A step that changes no file, no job and no backup.
LEMMA BackupsStay ==
    ASSUME BackupInv, UNCHANGED <<backup, replaced, partial, mixed, work>>,
           \A e \in DOMAIN Docs : Docs[e] = "file" => docs'[e] = docs[e]
    PROVE  \A b \in Bases : BackedAt(b)'
<1> SUFFICES ASSUME NEW b \in Bases, b \notin mixed
             PROVE  (AloneOn(b) /\ (\A x \in Workers : Holds(x, b)) /\ IsBackup(b))'
  BY DEF BackedAt
<1>1. AloneOn(b) /\ (\A x \in Workers : Holds(x, b)) /\ IsBackup(b)
  BY DEF BackupInv, BackedAt
<1>2. ASSUME NEW x \in Workers, OnBase(x, b) PROVE docs'[work[x].doc] = docs[work[x].doc]
  BY <1>2 DEF OnBase, BackupInv, BackupType
<1>3. AloneOn(b)' /\ IsBackup(b)'
  BY <1>1 DEF AloneOn, OnBase, IsBackup, BackupOf
<1>4. \A x \in Workers : (Holds(x, b))'
  BY <1>1, <1>2 DEF Holds, OnBase, BackupOf
<1> QED BY <1>3, <1>4

LEMMA BackupWhenLoaded ==
    ASSUME BackupInv, DocType', NEW w \in Workers, NEW op, NEW d \in DOMAIN Docs, NEW v, Load(w, op, d, v)
    PROVE  BackupInv'
<1>1. work'[w] = [at |-> "loaded", op |-> op, doc |-> d, value |-> v, n |-> made', copy |-> docs[d]]
      /\ work[w] = Free /\ \A x \in Workers \ {w} : work'[x] = work[x]
  BY DEF BackupInv, DocType, Load, BeginsChange
<1>2. work'[w].doc = d /\ work'[w].at = "loaded"
  BY <1>1
<1>3. UNCHANGED <<docs, backup, replaced, partial>> /\ mixed \subseteq mixed'
  BY DEF Load, backups
<1>4. BackupType'
  BY <1>1, <1>2, <1>3 DEF BackupInv, BackupType
<1>5. ASSUME NEW b \in Bases PROVE BackedAt(b)'
  <2> SUFFICES ASSUME b \notin mixed'
               PROVE  (AloneOn(b) /\ (\A x \in Workers : Holds(x, b)) /\ IsBackup(b))'
    BY DEF BackedAt
  <2>1. AloneOn(b) /\ (\A x \in Workers : Holds(x, b)) /\ IsBackup(b)
    BY <1>3 DEF BackupInv, BackedAt
  <2>2. \A x \in Workers \ {w} : (OnBase(x, b))' <=> OnBase(x, b)
    BY <1>1 DEF OnBase
  <2>3. (OnBase(w, b))' => WorkersOn(b) = {}
    BY <1>2 DEF OnBase, Load
  <2>4. (OnBase(w, b))' => \A x \in Workers : ~OnBase(x, b)
    BY <2>3 DEF WorkersOn, OnBase
  <2>5. AloneOn(b)'
    BY <2>1, <2>2, <2>4 DEF AloneOn
  <2>6. ASSUME NEW x \in Workers \ {w} PROVE Holds(x, b)'
    BY <1>1, <1>3, <2>1, <2>2, <2>6 DEF Holds, BackupOf
  <2>7. Holds(w, b)'
    BY <1>2 DEF Holds
  <2>8. IsBackup(b)'
    BY <1>3, <2>1 DEF IsBackup, BackupOf
  <2> QED BY <2>5, <2>6, <2>7, <2>8
<1> QED BY <1>4, <1>5 DEF BackupInv

LEMMA BackupWhenChanged ==
    ASSUME BackupInv, DocType', NEW w \in Workers, NEW d \in DOMAIN Docs,
           NEW op \in AtOnce[Docs[d]], ChangeAtOnce(w, op, d)
    PROVE  BackupInv'
<1>1. Docs[d] # "file"
  BY DEF AtOnce
<1>2. UNCHANGED <<backup, replaced, partial, mixed, work>> /\ \A e \in DOMAIN Docs : e # d => docs'[e] = docs[e]
  BY DEF ChangeAtOnce, BackupInv, DocType, backups
<1>3. BackupType'
  BY <1>2 DEF BackupInv, BackupType
<1>4. \A b \in Bases : BackedAt(b)'
  BY <1>1, <1>2, BackupsStay
<1> QED BY <1>3, <1>4 DEF BackupInv

\* A log is opened: it has no backup.
LEMMA BackupWhenOpened ==
    ASSUME BackupInv, DocType', NEW w \in Workers, NEW d \in DOMAIN Docs, OpenLog(w, d)
    PROVE  BackupInv'
<1>1. work'[w] = [at |-> "opened", op |-> "append", doc |-> d, value |-> 0, n |-> made', copy |-> docs[d]]
      /\ work[w] = Free /\ \A x \in Workers \ {w} : work'[x] = work[x]
  BY DEF BackupInv, DocType, OpenLog, BeginsChange
<1>2. work'[w].doc = d /\ work'[w].at = "opened" /\ Docs[d] = "log"
  BY <1>1 DEF OpenLog
<1>3. UNCHANGED <<docs, backup, replaced, partial, mixed>>
  BY DEF OpenLog, backups
<1>4. BackupType'
  BY <1>1, <1>2, <1>3 DEF BackupInv, BackupType
<1>5. ASSUME NEW b \in Bases, b \notin mixed
      PROVE  (AloneOn(b) /\ (\A x \in Workers : Holds(x, b)) /\ IsBackup(b))'
  <2>1. AloneOn(b) /\ (\A x \in Workers : Holds(x, b)) /\ IsBackup(b)
    BY <1>5 DEF BackupInv, BackedAt
  <2>2. \A x \in Workers : (OnBase(x, b))' => x # w /\ OnBase(x, b)
    BY <1>1, <1>2 DEF OnBase
  <2>3. AloneOn(b)'
    BY <2>1, <2>2 DEF AloneOn
  <2>4. ASSUME NEW x \in Workers PROVE Holds(x, b)'
    BY <1>1, <1>3, <2>1, <2>2 DEF Holds, BackupOf
  <2>5. IsBackup(b)'
    BY <1>3, <2>1 DEF IsBackup, BackupOf
  <2> QED BY <2>3, <2>4, <2>5
<1>6. \A b \in Bases : BackedAt(b)'
  BY <1>3, <1>5 DEF BackedAt
<1> QED BY <1>4, <1>6 DEF BackupInv

\* The worker writes, or is done, or is cut off, and has nothing to hold any more; it has
\* recorded what it replaced, if it has a snapshot.
IsDone(w) ==
    Save(w) \/ AppendLine(w) \/ Write(w) \/ TargetMissing(w) \/ WriteFails(w) \/ CutOffChange(w)

LEMMA BackupIsReleased ==
    ASSUME BackupInv, DocType', NEW w \in Workers, IsDone(w)
    PROVE  BackupInv'
<1>0. /\ work[w].at # "free"
      /\ docs' = docs \/ \E c : docs' = [docs EXCEPT ![work[w].doc] = c]
  BY DEF IsDone, Save, AppendLine, Write, TargetMissing, WriteFails, ReadyToWrite, AfterBackup, CutOffChange
<1>1. /\ work' = [work EXCEPT ![w] = Free]
      /\ UNCHANGED <<backup, replaced, partial, mixed>>
  BY DEF IsDone, Save, AppendLine, Write, TargetMissing, WriteFails, CutOffChange, backups
<1>2. work[w] # Free
  BY <1>0, NotFree
<1>3. /\ work'[w] = Free /\ \A x \in Workers \ {w} : work'[x] = work[x]
      /\ \A e \in DOMAIN Docs : e # work[w].doc => docs'[e] = docs[e]
  BY <1>0, <1>1 DEF BackupInv, DocType
<1>4. BackupType'
  BY <1>1, <1>3 DEF BackupInv, BackupType
<1>5. \A b \in Bases \ mixed : (Holds(w, b) /\ IsBackup(b))'
  BY <1>1, <1>3 DEF BackupInv, BackedAt, IsBackup, BackupOf, Holds, OnBase
<1>6. \A b \in Bases : SameBackup(b)
  BY <1>1 DEF SameBackup
<1>7. \A b \in Bases : BackedAt(b)'
  BY <1>1, <1>2, <1>3, <1>5, <1>6, BackupsHold
<1> QED BY <1>4, <1>7 DEF BackupInv

\* A worker that goes from one place to the next.
LEMMA GoesTo ==
    ASSUME BackupInv, DocType', NEW w \in Workers, NEW to \in {"backingUp", "backedUp", "noBackup", "emptied"},
           work[w] # Free, work' = [work EXCEPT ![w].at = to]
    PROVE  /\ work'[w] # Free /\ work'[w].doc = work[w].doc /\ work'[w].at = to
           /\ \A x \in Workers \ {w} : work'[x] = work[x]
<1>1. IsJob(work[w])
  BY DEF BackupInv, DocType
<1>2. /\ work'[w].doc = work[w].doc /\ work'[w].at = to
      /\ \A x \in Workers \ {w} : work'[x] = work[x]
  BY <1>1 DEF BackupInv, DocType, IsJob
<1> QED BY <1>2, NotFree

\* Without a snapshot there is nothing to hold, and the older backup is left alone.
LEMMA BackupIsMissed ==
    ASSUME BackupInv, DocType', NEW w \in Workers, BackupFails(w)
    PROVE  BackupInv'
<1>1. work[w] # Free /\ work' = [work EXCEPT ![w].at = "noBackup"]
  BY NotFree DEF BackupFails
<1>2. UNCHANGED <<docs, backup, replaced, partial, mixed>>
  BY DEF BackupFails, backups
<1>3. /\ work'[w] # Free /\ work'[w].doc = work[w].doc /\ work'[w].at = "noBackup"
      /\ \A x \in Workers \ {w} : work'[x] = work[x]
  BY <1>1, GoesTo
<1>4. BackupType'
  BY <1>1, <1>2, <1>3 DEF BackupInv, BackupType
<1>5. \A b \in Bases \ mixed : (Holds(w, b) /\ IsBackup(b))'
  BY <1>2, <1>3 DEF BackupInv, BackedAt, IsBackup, BackupOf, Holds
<1>6. \A b \in Bases : SameBackup(b)
  BY <1>2 DEF SameBackup
<1>7. \A b \in Bases : BackedAt(b)'
  BY <1>1, <1>2, <1>3, <1>5, <1>6, BackupsHold
<1> QED BY <1>4, <1>7 DEF BackupInv

LEMMA BackupBegins ==
    ASSUME BackupInv, DocType', NEW w \in Workers, CreateBackup(w)
    PROVE  BackupInv'
<1>1. PICK b : b = Base[work[w].doc]
  OBVIOUS
<1>2. /\ work[w] # Free /\ Docs[work[w].doc] = "file" /\ work[w].doc \in DOMAIN Docs /\ b \in Bases
  BY <1>1, NotFree, FilesHaveBases DEF CreateBackup, BackupInv, BackupType
<1>3. /\ work' = [work EXCEPT ![w].at = "backingUp"] /\ UNCHANGED <<docs, partial, mixed>>
      /\ backup' = [backup EXCEPT ![b] = Content(0, {})]
      /\ replaced' = [replaced EXCEPT ![b] = NoBackup]
  BY <1>1 DEF CreateBackup
<1>4. /\ work'[w] # Free /\ work'[w].doc = work[w].doc /\ work'[w].at = "backingUp"
      /\ \A x \in Workers \ {w} : work'[x] = work[x]
  BY <1>2, <1>3, GoesTo
<1>5. replaced'[b] = NoBackup /\ \A c \in Bases \ {b} : SameBackup(c)
  BY <1>2, <1>3 DEF BackupInv, BackupType, SameBackup
<1>6. BackupType'
  BY <1>2, <1>3, <1>4 DEF BackupInv, BackupType
<1>7. \A c \in Bases : OnBase(w, c) <=> c = b
  BY <1>1, <1>2 DEF OnBase
<1>8. (Holds(w, b) /\ IsBackup(b))'
  BY <1>4, <1>5 DEF Holds, IsBackup
<1>9. \A c \in Bases : BackedAt(c)'
  <2>1. \A c \in Bases : ~OnBase(w, c) => SameBackup(c)
    BY <1>5, <1>7
  <2>2. \A c \in Bases \ mixed : OnBase(w, c) => (Holds(w, c) /\ IsBackup(c))'
    BY <1>7, <1>8
  <2> QED BY <1>2, <1>3, <1>4, <2>1, <2>2, BackupsHold
<1> QED BY <1>6, <1>9 DEF BackupInv

LEMMA BackupIsMade ==
    ASSUME BackupInv, DocType', NEW w \in Workers, CopyToBackup(w)
    PROVE  BackupInv'
<1>1. PICK b : b = Base[work[w].doc]
  OBVIOUS
<1>2. work[w] # Free /\ work[w].at = "backingUp"
  BY NotFree DEF CopyToBackup
<1>3. /\ Docs[work[w].doc] = "file" /\ work[w].doc \in DOMAIN Docs /\ b \in Bases
  BY <1>1, <1>2, FilesHaveBases DEF BackupInv, BackupType
<1>4. /\ work' = [work EXCEPT ![w].at = "backedUp"] /\ UNCHANGED <<docs, mixed, replaced>>
      /\ \/ backup' = [backup EXCEPT ![b] = docs[work[w].doc]] /\ partial' = partial \ {b}
         \/ /\ \E part \in SUBSET docs[work[w].doc].items : backup' = [backup EXCEPT ![b] = Content(0, part)]
            /\ partial' = partial \cup {b}
  BY <1>1 DEF CopyToBackup
<1>5. /\ work'[w] # Free /\ work'[w].doc = work[w].doc /\ work'[w].at = "backedUp"
      /\ \A x \in Workers \ {w} : work'[x] = work[x]
  BY <1>2, <1>4, GoesTo
<1>6. /\ backup' = [c \in Bases |-> backup'[c]]
      /\ BackupOf(b, docs[work[w].doc])'
      /\ \A c \in Bases \ {b} : SameBackup(c)
  <2>1. CASE backup' = [backup EXCEPT ![b] = docs[work[w].doc]] /\ partial' = partial \ {b}
    BY <1>3, <1>4, <1>5, <2>1 DEF BackupInv, BackupType, BackupOf, SameBackup
  <2>2. ASSUME NEW part \in SUBSET docs[work[w].doc].items,
               backup' = [backup EXCEPT ![b] = Content(0, part)], partial' = partial \cup {b}
        PROVE  /\ backup' = [c \in Bases |-> backup'[c]]
               /\ BackupOf(b, docs[work[w].doc])'
               /\ \A c \in Bases \ {b} : SameBackup(c)
    <3>1. /\ backup' = [c \in Bases |-> backup'[c]] /\ backup'[b] = Content(0, part)
          /\ \A c \in Bases \ {b} : SameBackup(c)
      BY <1>3, <1>4, <2>2 DEF BackupInv, BackupType, SameBackup
    <3>2. backup'[b].items = part
      BY <3>1 DEF Content
    <3> QED BY <1>4, <1>5, <2>2, <3>1, <3>2 DEF BackupOf
  <2> QED BY <1>4, <2>1, <2>2
<1>7. BackupType'
  BY <1>3, <1>4, <1>5, <1>6 DEF BackupInv, BackupType
<1>8. \A c \in Bases : OnBase(w, c) <=> c = b
  BY <1>1, <1>2, <1>3 DEF OnBase
<1>9. b \notin mixed => (Holds(w, b) /\ IsBackup(b))'
  <2> SUFFICES ASSUME b \notin mixed PROVE (Holds(w, b) /\ IsBackup(b))'
    OBVIOUS
  <2>1. replaced[b] = NoBackup
    BY <1>2, <1>3, <1>8 DEF BackupInv, BackedAt, Holds
  <2> QED BY <1>4, <1>5, <1>6, <2>1 DEF Holds, IsBackup
<1>10. \A c \in Bases : BackedAt(c)'
  <2>1. \A c \in Bases : ~OnBase(w, c) => SameBackup(c)
    BY <1>4, <1>6, <1>8
  <2>2. \A c \in Bases \ mixed : OnBase(w, c) => (Holds(w, c) /\ IsBackup(c))'
    BY <1>8, <1>9
  <2> QED BY <1>2, <1>4, <1>5, <2>1, <2>2, BackupsHold
<1> QED BY <1>7, <1>10 DEF BackupInv

LEMMA ContentOf == \A r, c : r = [at |-> "replaced", content |-> c] => r.content = c
  OBVIOUS

LEMMA BackupIsOfWhatWasReplaced ==
    ASSUME BackupInv, DocType', NEW w \in Workers, Truncate(w)
    PROVE  BackupInv'
<1>1. PICK d : d = work[w].doc
  OBVIOUS
<1>2. work[w] # Free /\ work[w].at \in {"loaded", "backedUp", "noBackup"}
  BY NotFree DEF Truncate, ReadyToWrite, AfterBackup
<1>3. /\ work' = [work EXCEPT ![w].at = "emptied"] /\ UNCHANGED <<backup, partial, mixed>>
      /\ docs' = [docs EXCEPT ![d] = Content(0, {})]
      /\ replaced' = IF work[w].at = "backedUp"
                     THEN [replaced EXCEPT ![Base[d]] = [at |-> "replaced", content |-> docs[d]]]
                     ELSE replaced
  BY <1>1 DEF Truncate
<1>4. /\ work'[w] # Free /\ work'[w].doc = work[w].doc /\ work'[w].at = "emptied"
      /\ \A x \in Workers \ {w} : work'[x] = work[x]
  BY <1>2, <1>3, GoesTo
<1>5. \A e \in DOMAIN Docs : e # work[w].doc => docs'[e] = docs[e]
  BY <1>1, <1>3 DEF BackupInv, DocType
<1>6. BackupType'
  <2>1. replaced' = [b \in Bases |-> replaced'[b]]
    BY <1>3 DEF BackupInv, BackupType
  <2>2. backup' = [b \in Bases |-> backup'[b]]
    BY <1>3 DEF BackupInv, BackupType
  <2>3. ASSUME NEW x \in Workers, work'[x] # Free
        PROVE  /\ work'[x].doc \in DOMAIN Docs
               /\ work'[x].at \in {"backingUp", "backedUp"} => Docs[work'[x].doc] = "file"
    <3>1. CASE x = w
      BY <1>2, <1>4, <3>1 DEF BackupInv, BackupType
    <3>2. CASE x # w
      BY <1>4, <2>3, <3>2 DEF BackupInv, BackupType
    <3> QED BY <3>1, <3>2
  <2> QED BY <2>1, <2>2, <2>3 DEF BackupType
<1>7. \A c \in Bases : ~OnBase(w, c) => SameBackup(c)
  BY <1>1, <1>2, <1>3 DEF OnBase, BackupInv, BackupType, SameBackup
<1>8. ASSUME NEW c \in Bases \ mixed, OnBase(w, c) PROVE (Holds(w, c) /\ IsBackup(c))'
  <2>1. Holds(w, c)'
    BY <1>4 DEF Holds
  <2>2. CASE work[w].at = "backedUp"
    <3>1. BackupOf(c, docs[d])
      BY <1>1, <1>8, <2>2 DEF BackupInv, BackedAt, Holds
    <3>2. replaced'[c] = [at |-> "replaced", content |-> docs[d]]
      BY <1>1, <1>3, <1>8, <2>2 DEF OnBase, BackupInv, BackupType
    <3>3. replaced'[c].content = docs[d]
      BY <3>2, ContentOf
    <3>4. IsBackup(c)'
      BY <1>3, <3>1, <3>3 DEF IsBackup, BackupOf
    <3> QED BY <2>1, <3>4
  <2>3. CASE work[w].at # "backedUp"
    <3>1. IsBackup(c)
      BY <1>8 DEF BackupInv, BackedAt
    <3> QED BY <1>3, <2>1, <2>3, <3>1 DEF IsBackup, BackupOf
  <2> QED BY <2>2, <2>3
<1>9. \A c \in Bases : BackedAt(c)'
  BY <1>2, <1>3, <1>4, <1>5, <1>7, <1>8, BackupsHold
<1> QED BY <1>6, <1>9 DEF BackupInv

\* What a write with a snapshot replaced can be had back from the backup, or a part of it
\* if the copy failed, whatever is written to other names and without a snapshot
\* meanwhile, unless two files of the name were backed up at once.
THEOREM BackupStays == Spec => []BackupIsWhatWasReplaced
<1>1. Init => KeptInv /\ BackupInv /\ LinesInv
  <2> SUFFICES ASSUME Init PROVE KeptInv /\ BackupInv /\ LinesInv
    OBVIOUS
  <2>1. KeptInv /\ LinesInv
    BY DEF Init, DocumentsInit, ServersInit, KeptInv, DocType, KeptAt, Alone, CopyIsAcked, DocIsAcked, LogIsAcked,
           IsAt, LinesInv
  <2>2. DocType /\ BackupType
    BY <2>1 DEF Init, DocumentsInit, KeptInv, BackupType
  <2>3. \A b \in Bases : BackedAt(b)
    BY DEF Init, DocumentsInit, BackedAt, AloneOn, Holds, OnBase, IsBackup
  <2> QED BY <2>1, <2>2, <2>3 DEF BackupInv
<1>2. KeptInv /\ LinesInv /\ [Next]_vars => KeptInv'
  <2>1. KeptInv /\ UNCHANGED dvars => KeptInv'
    BY DEF KeptInv, DocType, KeptAt, Alone, CopyIsAcked, DocIsAcked, LogIsAcked, IsAt, dvars, backups
  <2> QED BY <2>1, KeptSteps, NextIsDocStep DEF vars
<1>3. BackupInv /\ KeptInv' /\ LinesInv /\ [Next]_vars => BackupInv'
  <2> SUFFICES ASSUME BackupInv, KeptInv', LinesInv, [Next]_vars PROVE BackupInv'
    OBVIOUS
  <2>1. DocType'
    BY DEF KeptInv
  <2>2. CASE UNCHANGED dvars
    BY <2>1, <2>2, BackupsStay DEF dvars, backups, BackupInv, BackupType
  <2>3. CASE DocStep
    <3> SUFFICES ASSUME NEW w \in Workers,
                        \/ \E d \in DOMAIN Docs : \E op \in AtOnce[Docs[d]] : ChangeAtOnce(w, op, d)
                        \/ \E d \in DOMAIN Docs : (\E op, v : Load(w, op, d, v)) \/ OpenLog(w, d)
                        \/ Save(w) \/ AppendLine(w) \/ StepOfTool(w) \/ CutOffChange(w)
                 PROVE  BackupInv'
      BY <2>3 DEF DocStep
    <3>1. CASE \E d \in DOMAIN Docs : \E op \in AtOnce[Docs[d]] : ChangeAtOnce(w, op, d)
      BY <2>1, <3>1, BackupWhenChanged
    <3>2. CASE \E d \in DOMAIN Docs : (\E op, v : Load(w, op, d, v)) \/ OpenLog(w, d)
      BY <2>1, <3>2, BackupWhenLoaded, BackupWhenOpened
    <3>3. CASE IsDone(w)
      BY <2>1, <3>3, BackupIsReleased
    <3>4. CASE BackupFails(w) \/ CreateBackup(w) \/ CopyToBackup(w) \/ Truncate(w)
      BY <2>1, <3>4, BackupIsMissed, BackupBegins, BackupIsMade, BackupIsOfWhatWasReplaced
    <3> QED BY <3>1, <3>2, <3>3, <3>4 DEF StepOfTool, IsDone
  <2> QED BY <2>2, <2>3, NextIsDocStep DEF vars
<1>4. BackupInv => BackupIsWhatWasReplaced
  BY DEF BackupInv, BackedAt, IsBackup, BackupOf, BackupIsWhatWasReplaced
<1> QED BY <1>1, <1>2, <1>3, <1>4, LinesAreKept, PTL DEF Spec

-----------------------------------------------------------------------------
\* The answers of the protocol servers.

LEMMA OwedIsFinite ==
    ASSUME NEW s, NEW n \in Nat
    PROVE  IsFiniteSet(OwedTo(s, n)) /\ Cardinality(OwedTo(s, n)) \in Nat
<1>1. IsFiniteSet(1 .. n)
  BY FS_Interval
<1>2. OwedTo(s, n) \subseteq 1 .. n
  BY DEF OwedTo
<1> QED BY <1>1, <1>2, FS_Subset, FS_CardinalityType

\* How many lines are owed an answer, from one line to the next.
LEMMA OneMoreLine ==
    ASSUME NEW s, NEW n \in Nat
    PROVE  /\ AnswerTo(s, n + 1) = {} => OwedTo(s, n + 1) = OwedTo(s, n)
           /\ AnswerTo(s, n + 1) # {} =>
                 /\ OwedTo(s, n + 1) = OwedTo(s, n) \cup {n + 1}
                 /\ Cardinality(OwedTo(s, n + 1)) = Cardinality(OwedTo(s, n)) + 1
<1>1. \A i : i \in 1 .. n + 1 <=> i \in 1 .. n \/ i = n + 1
  OBVIOUS
<1>2. AnswerTo(s, n + 1) = {} => OwedTo(s, n + 1) = OwedTo(s, n)
  BY <1>1 DEF OwedTo
<1>3. ASSUME AnswerTo(s, n + 1) # {} PROVE OwedTo(s, n + 1) = OwedTo(s, n) \cup {n + 1}
  BY <1>1, <1>3 DEF OwedTo
<1>4. n + 1 \notin OwedTo(s, n)
  BY DEF OwedTo
<1>5. Cardinality(OwedTo(s, n) \cup {n + 1}) = Cardinality(OwedTo(s, n)) + 1
  BY <1>4, OwedIsFinite, FS_AddElement
<1> QED BY <1>2, <1>3, <1>5

\* The answer to a line has its place among the answers up to any later line.
LEMMA AnswersHavePlaces ==
    ASSUME NEW s, NEW n \in Nat, NEW i \in OwedTo(s, n)
    PROVE  Cardinality(OwedTo(s, i)) \in 1 .. Cardinality(OwedTo(s, n))
<1>1. i \in Nat /\ i \in 1 .. n /\ i \in OwedTo(s, i)
  BY DEF OwedTo
<1>2. OwedTo(s, i) \subseteq OwedTo(s, n)
  BY <1>1 DEF OwedTo
<1>3. Cardinality(OwedTo(s, i)) <= Cardinality(OwedTo(s, n))
  BY <1>2, OwedIsFinite, FS_Subset
<1>4. Cardinality(OwedTo(s, i)) # 0
  BY <1>1, OwedIsFinite, FS_EmptySet
<1> QED BY <1>1, <1>3, <1>4, OwedIsFinite

\* A line that a server sends: the ID it answers, whether with a result, of which change.
Reply == [id : Nat, ok : BOOLEAN, n : Nat]

\* The lines up to n are the same.
SameLines(s, n) == \A i \in 1 .. n : sent'[s][i] = sent[s][i]

LEMMA OwedTheSame ==
    ASSUME NEW s, NEW n \in Nat, SameLines(s, n)
    PROVE  /\ \A i \in 1 .. n : AnswerTo(s, i)' = AnswerTo(s, i)
           /\ OwedTo(s, n)' = OwedTo(s, n)
           /\ \A i \in 1 .. n : OwedTo(s, i)' = OwedTo(s, i)
<1>1. \A i \in 1 .. n : AnswerTo(s, i)' = AnswerTo(s, i)
  BY DEF AnswerTo, SameLines
<1> QED BY <1>1 DEF OwedTo

LEMMA AnsweredStays ==
    ASSUME NEW s, NEW n \in Nat, AnsweredUpTo(s, n), SameLines(s, n), answers'[s] = answers[s]
    PROVE  AnsweredUpTo(s, n)'
<1>1. \A i \in OwedTo(s, n) : i \in 1 .. n
  BY DEF OwedTo
<1>2. /\ OwedTo(s, n)' = OwedTo(s, n)
      /\ \A i \in OwedTo(s, n) : AnswerTo(s, i)' = AnswerTo(s, i) /\ OwedTo(s, i)' = OwedTo(s, i)
  BY <1>1, OwedTheSame
<1> QED BY <1>2 DEF AnsweredUpTo

\* One more line that is owed nothing, or is answered as it is owed.
LEMMA OneMoreAnswer ==
    ASSUME NEW s, NEW n \in Nat, AnsweredUpTo(s, n), answers[s] \in Seq(Reply), SameLines(s, n + 1),
           \/ AnswerTo(s, n + 1) = {} /\ answers'[s] = answers[s]
           \/ \E a \in Reply : a.id \in AnswerTo(s, n + 1) /\ answers'[s] = Append(answers[s], a)
    PROVE  AnsweredUpTo(s, n + 1)'
<1>1. /\ OwedTo(s, n + 1)' = OwedTo(s, n + 1)
      /\ \A i \in 1 .. n + 1 : AnswerTo(s, i)' = AnswerTo(s, i) /\ OwedTo(s, i)' = OwedTo(s, i)
  BY OwedTheSame
<1>2. \A i \in OwedTo(s, n + 1) : i \in 1 .. n + 1
  BY DEF OwedTo
<1>3. SUFFICES /\ Len(answers'[s]) = Cardinality(OwedTo(s, n + 1))
               /\ \A i \in OwedTo(s, n + 1) :
                     answers'[s][Cardinality(OwedTo(s, i))].id \in AnswerTo(s, i)
  BY <1>1, <1>2 DEF AnsweredUpTo
<1>4. CASE AnswerTo(s, n + 1) = {} /\ answers'[s] = answers[s]
  BY <1>4, OneMoreLine DEF AnsweredUpTo
<1>5. ASSUME NEW a \in Reply, a.id \in AnswerTo(s, n + 1), answers'[s] = Append(answers[s], a)
      PROVE  /\ Len(answers'[s]) = Cardinality(OwedTo(s, n + 1))
             /\ \A i \in OwedTo(s, n + 1) :
                   answers'[s][Cardinality(OwedTo(s, i))].id \in AnswerTo(s, i)
  <2>1. PICK c \in Nat : c = Cardinality(OwedTo(s, n))
    BY OwedIsFinite
  <2>2. /\ OwedTo(s, n + 1) = OwedTo(s, n) \cup {n + 1}
        /\ Cardinality(OwedTo(s, n + 1)) = c + 1 /\ Len(answers[s]) = c
    BY <1>5, <2>1, OneMoreLine DEF AnsweredUpTo
  <2>3. /\ Len(answers'[s]) = c + 1 /\ answers'[s][c + 1] = a
        /\ \A j \in 1 .. c : answers'[s][j] = answers[s][j]
    BY <1>5, <2>2
  <2>4. \A i \in OwedTo(s, n) : answers'[s][Cardinality(OwedTo(s, i))] = answers[s][Cardinality(OwedTo(s, i))]
    BY <2>1, <2>3, AnswersHavePlaces
  <2>5. ASSUME NEW i \in OwedTo(s, n + 1)
        PROVE  answers'[s][Cardinality(OwedTo(s, i))].id \in AnswerTo(s, i)
    <3>1. CASE i \in OwedTo(s, n)
      BY <2>4, <3>1 DEF AnsweredUpTo
    <3>2. CASE i = n + 1
      BY <1>5, <2>2, <2>3, <3>2
    <3> QED BY <2>2, <3>1, <3>2
  <2> QED BY <2>2, <2>3, <2>5
<1> QED BY <1>4, <1>5

-----------------------------------------------------------------------------
\* Every change under way has a number of its own, and is not acknowledged.
NumbersInv ==
    /\ made \in Nat /\ done \subseteq 1 .. made
    /\ work = [w \in Workers |-> work[w]]
    /\ \A w \in Workers : work[w] = Free \/ IsJob(work[w])
    /\ \A w \in Workers : work[w] # Free => work[w].n \in (1 .. made) \ done
    /\ \A w, x \in Workers : work[w] # Free /\ work[x] # Free /\ work[w].n = work[x].n => w = x

\* What becomes of change n does not change any more.
Settled(n) == n <= made /\ \A w \in Workers : work[w] # Free => work[w].n # n

\* A worker takes up a change, or a change is made at once.
Begins(w) ==
    /\ made' = made + 1 /\ work[w] = Free
    /\ \A x \in Workers \ {w} : work'[x] = work[x]
    /\ \/ done' = done /\ work'[w].n = made + 1
       \/ done' = done \cup {made + 1} /\ work'[w] = Free

\* It goes on with it, or ends it, acknowledged or not.
GoesOn(w) ==
    /\ made' = made /\ work[w] # Free
    /\ \A x \in Workers \ {w} : work'[x] = work[x]
    /\ \/ done' = done /\ work'[w].n = work[w].n
       \/ done' = done /\ work'[w] = Free
       \/ done' = done \cup {work[w].n} /\ work'[w] = Free

JobsAre == work = [w \in Workers |-> work[w]] /\ \A w \in Workers : work[w] = Free \/ IsJob(work[w])

LEMMA NumbersKept ==
    ASSUME NumbersInv, JobsAre', NEW w \in Workers, Begins(w) \/ GoesOn(w)
    PROVE  NumbersInv'
<1>1. made \in Nat /\ made' \in Nat /\ (made' = made \/ made' = made + 1)
  BY DEF NumbersInv, Begins, GoesOn
<1>2. done' \subseteq 1 .. made'
  BY <1>1 DEF NumbersInv, Begins, GoesOn
<1>3. ASSUME NEW x \in Workers, work'[x] # Free PROVE work'[x].n \in (1 .. made') \ done'
  <2>1. CASE x = w
    BY <1>1, <1>3, <2>1 DEF NumbersInv, Begins, GoesOn
  <2>2. CASE x # w
    <3>1. work'[x] = work[x] /\ work[x].n \in (1 .. made) \ done
      BY <1>3, <2>2 DEF NumbersInv, Begins, GoesOn
    <3>2. work[x].n \notin done'
      BY <1>1, <1>3, <2>2, <3>1 DEF NumbersInv, Begins, GoesOn
    <3> QED BY <1>1, <3>1, <3>2
  <2> QED BY <2>1, <2>2
<1>4. ASSUME NEW x \in Workers, NEW y \in Workers, work'[x] # Free, work'[y] # Free, work'[x].n = work'[y].n
      PROVE  x = y
  <2>1. CASE Begins(w)
    <3>1. \A z \in Workers \ {w} : work'[z] # Free => work'[z].n <= made /\ work'[z].n \in Nat
      BY <1>1, <2>1 DEF NumbersInv, Begins
    <3>2. work'[w] # Free => work'[w].n = made + 1
      BY <2>1 DEF Begins
    <3>3. x # w /\ y # w => x = y
      BY <1>4, <2>1 DEF NumbersInv, Begins
    <3> QED BY <1>1, <1>4, <3>1, <3>2, <3>3
  <2>2. CASE GoesOn(w)
    BY <1>4, <2>2 DEF NumbersInv, GoesOn
  <2> QED BY <2>1, <2>2
<1> QED BY <1>1, <1>2, <1>3, <1>4 DEF NumbersInv, JobsAre

\* What is settled stays so.
LEMMA SettledStays ==
    ASSUME NumbersInv, NEW w \in Workers, Begins(w) \/ GoesOn(w), NEW n \in Nat, Settled(n)
    PROVE  Settled(n)' /\ (n \in done' <=> n \in done)
<1>1. made \in Nat
  BY DEF NumbersInv
<1>2. CASE Begins(w)
  BY <1>1, <1>2 DEF Settled, Begins
<1>3. CASE GoesOn(w)
  BY <1>1, <1>3 DEF Settled, GoesOn
<1> QED BY <1>2, <1>3

\* A change that its worker is done with is settled.
LEMMA EndedIsSettled ==
    ASSUME NumbersInv, NEW w \in Workers, GoesOn(w), work'[w] = Free, NEW n, n = work[w].n
    PROVE  n \in Nat /\ Settled(n)'
<1>1. n \in 1 .. made /\ made \in Nat
  BY DEF NumbersInv, GoesOn
<1>2. \A x \in Workers : work'[x] # Free => work'[x].n # n
  BY DEF NumbersInv, GoesOn
<1>3. n <= made'
  BY <1>1 DEF GoesOn
<1> QED BY <1>1, <1>2, <1>3 DEF Settled

LEMMA WorkIsNumbered ==
    ASSUME NumbersInv, NEW w \in Workers, Save(w) \/ AppendLine(w) \/ StepOfTool(w) \/ CutOffChange(w)
    PROVE  JobsAre' /\ GoesOn(w)
<1>1. CASE IsDone(w)
  <2>1. /\ work[w].at # "free" /\ work' = [work EXCEPT ![w] = Free] /\ made' = made
        /\ done' = done \/ done' = done \cup {work[w].n}
    BY <1>1 DEF IsDone, Save, AppendLine, Write, TargetMissing, WriteFails, ReadyToWrite, AfterBackup,
                CutOffChange, Acknowledge
  <2>2. work[w] # Free
    BY <2>1, NotFree
  <2>3. work'[w] = Free /\ \A x \in Workers \ {w} : work'[x] = work[x]
    BY <2>1 DEF NumbersInv
  <2>4. JobsAre'
    BY <2>1, <2>3 DEF NumbersInv, JobsAre
  <2> QED BY <2>1, <2>2, <2>3, <2>4 DEF GoesOn
<1>2. CASE BackupFails(w) \/ CreateBackup(w) \/ CopyToBackup(w) \/ Truncate(w)
  <2>1. /\ work[w].at # "free" /\ made' = made /\ done' = done
        /\ \E to \in {"backingUp", "backedUp", "noBackup", "emptied"} : work' = [work EXCEPT ![w].at = to]
    BY <1>2 DEF BackupFails, CreateBackup, CopyToBackup, Truncate, ReadyToWrite, AfterBackup
  <2>2. work[w] # Free /\ IsJob(work[w])
    BY <2>1, NotFree DEF NumbersInv
  <2>3. PICK to \in {"backingUp", "backedUp", "noBackup", "emptied"} : work' = [work EXCEPT ![w].at = to]
    BY <2>1
  <2>4. work'[w].n = work[w].n /\ IsJob(work'[w])
    BY <2>2, <2>3 DEF NumbersInv, IsJob
  <2>5. \A x \in Workers \ {w} : work'[x] = work[x]
    BY <2>3 DEF NumbersInv
  <2>6. JobsAre'
    BY <2>3, <2>4, <2>5 DEF NumbersInv, JobsAre
  <2> QED BY <2>1, <2>2, <2>4, <2>5, <2>6 DEF GoesOn
<1> QED BY <1>1, <1>2 DEF StepOfTool, IsDone

LEMMA StepsAreNumbered ==
    ASSUME NumbersInv, DocStep
    PROVE  JobsAre' /\ \E w \in Workers : Begins(w) \/ GoesOn(w)
<1> SUFFICES ASSUME NEW w \in Workers,
                    \/ \E d \in DOMAIN Docs : \E op \in AtOnce[Docs[d]] : ChangeAtOnce(w, op, d)
                    \/ \E d \in DOMAIN Docs : (\E op, v : Load(w, op, d, v)) \/ OpenLog(w, d)
                    \/ Save(w) \/ AppendLine(w) \/ StepOfTool(w) \/ CutOffChange(w)
             PROVE  JobsAre' /\ (Begins(w) \/ GoesOn(w))
  BY DEF DocStep
<1>1. CASE \E d \in DOMAIN Docs : \E op \in AtOnce[Docs[d]] : ChangeAtOnce(w, op, d)
  <2>1. work[w] = Free /\ work' = work /\ made' = made + 1 /\ done' = done \cup {made + 1}
    BY <1>1 DEF ChangeAtOnce
  <2> QED BY <2>1 DEF NumbersInv, JobsAre, Begins
<1>2. CASE \E d \in DOMAIN Docs : (\E op, v : Load(w, op, d, v)) \/ OpenLog(w, d)
  <2>1. PICK to, op, d, v : to \in {"loaded", "opened"} /\ BeginsChange(w, to, op, d, v) /\ done' = done
    BY <1>2 DEF Load, OpenLog
  <2>2. PICK k : k = [at |-> to, op |-> op, doc |-> d, value |-> v, n |-> made + 1, copy |-> docs[d]]
    OBVIOUS
  <2>3. IsJob(k) /\ k.n = made + 1
    BY <2>1, <2>2 DEF IsJob
  <2>4. work[w] = Free /\ work' = [work EXCEPT ![w] = k] /\ made' = made + 1 /\ done' = done
    BY <2>1, <2>2 DEF BeginsChange
  <2> QED BY <2>3, <2>4 DEF NumbersInv, JobsAre, Begins
<1> QED BY <1>1, <1>2, WorkIsNumbered

-----------------------------------------------------------------------------
\* The line in hand is one that can be parsed.
InHand(s, i) ==
    /\ sent[s][i].form # "broken"
    /\ Servers[s] # "mcp" => sent[s][i].form # "stringId"
    /\ ~(Servers[s] = "stdio" /\ i > Limit)

\* While a tool runs, all lines but the last one are answered.
HandledBy(s) ==
    /\ seen[s] <= Len(sent[s])
    /\ at[s] = "reading" => AnsweredUpTo(s, seen[s])
    /\ at[s] = "inTool" => seen[s] > 0 /\ InHand(s, seen[s]) /\ AnsweredUpTo(s, seen[s] - 1)

\* An answer tells what has become of its change, and that does not change any more.
IsTrue(a) == Settled(a.n) /\ (a.n # 0 => (a.ok <=> a.n \in done))

ServersType ==
    /\ at \in [DOMAIN Servers -> {"reading", "inTool", "ended"}]
    /\ answers \in [DOMAIN Servers -> Seq(Reply)]

AllTrue == \A s \in DOMAIN Servers : \A i \in DOMAIN answers[s] : IsTrue(answers[s][i])

AnswersInv == ServersType /\ AllTrue /\ \A s \in DOMAIN Servers : HandledBy(s)

-----------------------------------------------------------------------------
\* Line n of a server is done with: it is owed nothing, or is answered.
OneMore(s, n) ==
    \/ AnswerTo(s, n) = {} /\ answers' = answers
    \/ \E a \in Reply : /\ a.id \in AnswerTo(s, n) /\ IsTrue(a)'
                         /\ answers' = [answers EXCEPT ![s] = Append(answers[s], a)]

Reads(s) ==
    /\ at[s] = "reading" /\ seen[s] < Len(sent[s])
    /\ seen' = [seen EXCEPT ![s] = seen[s] + 1]
    /\ \/ \E p \in {"reading", "ended"} : at' = [at EXCEPT ![s] = p] /\ OneMore(s, seen[s] + 1)
       \/ at' = [at EXCEPT ![s] = "inTool"] /\ answers' = answers /\ InHand(s, seen[s] + 1)

Returns(s) ==
    /\ at[s] = "inTool" /\ seen' = seen
    /\ at' = [at EXCEPT ![s] = "reading"] /\ OneMore(s, seen[s])

Stands(s) ==
    UNCHANGED <<seen, answers>> /\ (at' = at \/ at' = [at EXCEPT ![s] = "ended"])

\* The fields of an answer.
LEMMA AnswerFields ==
    ASSUME NEW id \in Nat, NEW ok \in BOOLEAN, NEW n \in Nat
    PROVE  \E a \in Reply : a = [id |-> id, ok |-> ok, n |-> n] /\ a.id = id /\ a.n = n /\ a.ok = ok
<1> DEFINE r == [id |-> id, ok |-> ok, n |-> n]
<1>1. r \in Reply
  BY DEF Reply
<1>2. r.id = id /\ r.n = n
  OBVIOUS
<1>3. r.ok = ok
  BY Zenon
<1> HIDE DEF r
<1>4. r = [id |-> id, ok |-> ok, n |-> n]
  BY DEF r
<1> QED BY <1>1, <1>2, <1>3, <1>4

\* A line that can be parsed is answered with its ID; null is for notifications.
LEMMA AnsweredAsOwed ==
    ASSUME NEW s \in DOMAIN Servers, NEW i \in Nat \ {0}, InHand(s, i), NEW ok \in BOOLEAN, NEW n \in Nat,
           NEW id, id = IF sent[s][i].form = "notification" THEN Null ELSE i,
           Answered(s, id, ok, n), Settled(n)', n # 0 => (ok <=> n \in done')
    PROVE  OneMore(s, i)
<1>1. id \in Nat
  BY DEF Null
<1>2. PICK a \in Reply : a = [id |-> id, ok |-> ok, n |-> n] /\ a.id = id /\ a.n = n /\ a.ok = ok
  BY <1>1, AnswerFields
<1>3. IsTrue(a)'
  BY <1>2 DEF IsTrue
<1>4. CASE id = Null /\ Servers[s] # "mcp"
  <2>1. sent[s][i].form = "notification"
    BY <1>4 DEF Null
  <2>2. AnswerTo(s, i) = {}
    BY <1>4, <2>1 DEF AnswerTo, InHand
  <2> QED BY <1>4, <2>2 DEF Answered, OneMore
<1>5. CASE ~(id = Null /\ Servers[s] # "mcp")
  <2>1. answers' = [answers EXCEPT ![s] = Append(answers[s], a)]
    BY <1>2, <1>5 DEF Answered, WriteLine
  <2>2. id \in AnswerTo(s, i)
    BY <1>5 DEF AnswerTo, InHand
  <2> QED BY <1>2, <1>3, <2>1, <2>2 DEF OneMore
<1> QED BY <1>4, <1>5

LEMMA ZeroIsSettled == NumbersInv => Settled(0)
  BY DEF NumbersInv, Settled

\* What is answered without a change.
LEMMA AnsweredWithout ==
    ASSUME NumbersInv', NEW s \in DOMAIN Servers, NEW i \in Nat \ {0}, InHand(s, i), NEW ok \in BOOLEAN,
           NEW id, id = IF sent[s][i].form = "notification" THEN Null ELSE i,
           Answered(s, id, ok, 0)
    PROVE  OneMore(s, i)
<1>1. Settled(0)'
  BY ZeroIsSettled DEF NumbersInv, Settled
<1> QED BY <1>1, AnsweredAsOwed

LEMMA LineIsRead ==
    ASSUME NumbersInv', LinesInv, AnswersInv, NEW s \in DOMAIN Servers, ReadLine(s)
    PROVE  Reads(s) \/ Stands(s)
<1>1. PICK i \in Nat \ {0} : i = seen[s] + 1
  BY DEF LinesInv
<1>2. at[s] = "reading" /\ at \in [DOMAIN Servers -> {"reading", "inTool", "ended"}]
  BY DEF ReadLine, AnswersInv, ServersType
<1>3. Number(s) = i /\ Line(s) = sent[s][i]
  BY <1>1 DEF Number, Line
<1>4. CASE at' = [at EXCEPT ![s] = "ended"] /\ UNCHANGED <<seen, answers, dvars>>
  BY <1>4 DEF Stands
<1>5. SUFFICES ASSUME seen[s] < Len(sent[s]), seen' = [seen EXCEPT ![s] = i],
                      ParseError(s) \/ (~Unparsable(s) /\ HandleRequest(s))
               PROVE  Reads(s)
  BY <1>1, <1>4 DEF ReadLine, Consume
<1>6. ASSUME OneMore(s, i), NEW p \in {"reading", "ended"}, at' = [at EXCEPT ![s] = p] PROVE Reads(s)
  BY <1>1, <1>2, <1>5, <1>6 DEF Reads
<1>7. OneMore(s, i) /\ at' = at => Reads(s)
  <2>1. at' = at => at' = [at EXCEPT ![s] = "reading"]
    BY <1>2
  <2> QED BY <1>6, <2>1
<1>8. CASE ParseError(s)
  <2>1. PICK a : a = [id |-> Null, ok |-> FALSE, n |-> 0]
    OBVIOUS
  <2>2. a \in Reply /\ a.id = Null /\ a.n = 0
    BY <2>1 DEF Reply, Null
  <2>3. IsTrue(a)'
    BY <2>2, ZeroIsSettled DEF IsTrue, NumbersInv, Settled
  <2>4. answers' = [answers EXCEPT ![s] = Append(answers[s], a)]
    BY <1>8, <2>1 DEF ParseError, WriteLine
  <2>5. AnswerTo(s, i) = {Null}
    BY <1>3, <1>8 DEF ParseError, Unparsable, OverLimit, AnswerTo
  <2>6. OneMore(s, i)
    BY <2>2, <2>3, <2>4, <2>5 DEF OneMore
  <2>7. at' = at \/ at' = [at EXCEPT ![s] = "ended"]
    BY <1>2, <1>8 DEF ParseError
  <2> QED BY <1>6, <1>7, <2>6, <2>7
<1>9. CASE ~Unparsable(s) /\ HandleRequest(s)
  <2>1. InHand(s, i)
    BY <1>3, <1>9 DEF Unparsable, OverLimit, InHand
  <2>2. IdOf(s) = IF sent[s][i].form = "notification" THEN Null ELSE i
    BY <1>3 DEF IdOf
  <2>3. ASSUME NEW ok \in BOOLEAN, Answered(s, IdOf(s), ok, 0), at' = at PROVE Reads(s)
    BY <1>7, <2>1, <2>2, <2>3, AnsweredWithout
  <2>4. CASE InvalidRequest(s)
    BY <2>3, <2>4 DEF InvalidRequest
  <2>5. CASE Initialize(s) \/ ListTools(s) \/ NewSession(s) \/ PromptSession(s)
    BY <2>3, <2>5 DEF Initialize, ListTools, NewSession, PromptSession, AnswerAtOnce
  <2>6. CASE CallTool(s)
    <3>1. CASE at' = [at EXCEPT ![s] = "inTool"] /\ UNCHANGED answers
      BY <1>1, <1>2, <1>5, <2>1, <3>1 DEF Reads
    <3>2. CASE Answered(s, IdOf(s), FALSE, 0) /\ at' = at
      BY <2>3, <3>2
    <3> QED BY <2>6, <3>1, <3>2 DEF CallTool
  <2> QED BY <1>9, <2>4, <2>5, <2>6 DEF HandleRequest
<1> QED BY <1>5, <1>8, <1>9

\* The answer to a line whose tool has returned, or was cut off.
LEMMA ToolReturns ==
    ASSUME NumbersInv, NumbersInv', LinesInv, AnswersInv, NEW s \in DOMAIN Servers,
           at[s] = "inTool", at' = [at EXCEPT ![s] = "reading"], seen' = seen,
           GoesOn(s), work'[s] = Free, NEW ok \in BOOLEAN, ok <=> work[s].n \in done',
           Answered(s, IF sent[s][seen[s]].form = "notification" THEN Null ELSE seen[s], ok, work[s].n)
    PROVE  Returns(s)
<1>1. s \in Workers
  BY ServersAssumption
<1>2. PICK n \in Nat : n = work[s].n
  BY <1>1 DEF NumbersInv, GoesOn
<1>3. Settled(n)'
  BY <1>1, <1>2, EndedIsSettled
<1>4. seen[s] \in Nat \ {0} /\ InHand(s, seen[s])
  BY DEF LinesInv, AnswersInv, HandledBy
<1>5. OneMore(s, seen[s])
  BY <1>2, <1>3, <1>4, AnsweredAsOwed
<1> QED BY <1>5 DEF Returns

LEMMA ToolSteps ==
    ASSUME NumbersInv, NumbersInv', LinesInv, AnswersInv, NEW s \in DOMAIN Servers,
           StepTool(s) \/ CutOffTool(s)
    PROVE  Returns(s) \/ Stands(s)
<1>1. s \in Workers
  BY ServersAssumption
<1>2. at[s] = "inTool" /\ seen' = seen
  BY DEF StepTool, CutOffTool
<1>3. GoesOn(s)
  BY <1>1, WorkIsNumbered DEF StepTool, CutOffTool
<1>4. CASE StepTool(s)
  <2>1. CASE work'[s] # Free
    BY <1>2, <1>4, <2>1 DEF StepTool, Stands
  <2>2. CASE work'[s] = Free /\ work[s].n \in done'
    <3>1. (work[s].n \in done') = TRUE
      BY <2>2
    <3>2. Answered(s, IF sent[s][seen[s]].form = "notification" THEN Null ELSE seen[s], TRUE, work[s].n)
          /\ at' = [at EXCEPT ![s] = "reading"]
      BY <1>4, <2>2, <3>1 DEF StepTool
    <3> QED BY <1>2, <1>3, <2>2, <3>2, ToolReturns
  <2>3. CASE work'[s] = Free /\ work[s].n \notin done'
    <3>1. (work[s].n \in done') = FALSE
      BY <2>3
    <3>2. Answered(s, IF sent[s][seen[s]].form = "notification" THEN Null ELSE seen[s], FALSE, work[s].n)
          /\ at' = [at EXCEPT ![s] = "reading"]
      BY <1>4, <2>3, <3>1 DEF StepTool
    <3> QED BY <1>2, <1>3, <2>3, <3>2, ToolReturns
  <2> QED BY <2>1, <2>2, <2>3
<1>5. CASE CutOffTool(s)
  <2>1. work'[s] = Free /\ work[s].n \notin done'
    BY <1>1, <1>3, <1>5 DEF CutOffTool, CutOffChange, NumbersInv, GoesOn
  <2>2. CASE at' = [at EXCEPT ![s] = "ended"] /\ UNCHANGED answers
    BY <1>2, <2>2 DEF Stands
  <2>3. CASE /\ at' = [at EXCEPT ![s] = "reading"]
             /\ Answered(s, IF sent[s][seen[s]].form = "notification" THEN Null ELSE seen[s], FALSE, work[s].n)
    BY <1>2, <1>3, <2>1, <2>3, ToolReturns
  <2> QED BY <1>5, <2>2, <2>3 DEF CutOffTool
<1> QED BY <1>4, <1>5

LEMMA ServerActs ==
    ASSUME NumbersInv, NumbersInv', LinesInv, AnswersInv, NEW s \in DOMAIN Servers, ServerStep(s)
    PROVE  sent' = sent /\ (Reads(s) \/ Returns(s) \/ Stands(s))
<1>1. sent' = sent
  BY DEF ServerStep, ReadLine, StepTool, CutOffTool, EndOfInput
<1>2. EndOfInput(s) => Stands(s)
  BY DEF EndOfInput, Stands
<1> QED BY <1>1, <1>2, LineIsRead, ToolSteps DEF ServerStep

-----------------------------------------------------------------------------
\* What was settled is, and what became of it is the same.
NothingUnsettled == \A n \in Nat : Settled(n) => Settled(n)' /\ (n \in done' <=> n \in done)

LEMMA TrueStays ==
    ASSUME NothingUnsettled, NEW a \in Reply, IsTrue(a)
    PROVE  IsTrue(a)'
<1>1. a.n \in Nat
  BY DEF Reply
<1> QED BY <1>1 DEF IsTrue, NothingUnsettled

LEMMA HandledStays ==
    ASSUME LinesInv, NEW x \in DOMAIN Servers, HandledBy(x),
           at'[x] = at[x], seen'[x] = seen[x], answers'[x] = answers[x],
           Len(sent'[x]) \in Nat, Len(sent[x]) <= Len(sent'[x]), SameLines(x, seen[x])
    PROVE  HandledBy(x)'
<1>1. PICK n \in Nat : n = seen[x] /\ n = seen'[x]
  BY DEF LinesInv
<1>2. n <= Len(sent'[x])
  BY <1>1 DEF HandledBy, LinesInv
<1>3. at'[x] = "reading" => AnsweredUpTo(x, n)'
  BY <1>1, AnsweredStays DEF HandledBy
<1>4. ASSUME at'[x] = "inTool" PROVE n > 0 /\ InHand(x, n)' /\ AnsweredUpTo(x, n - 1)'
  <2>1. n > 0 /\ InHand(x, n) /\ AnsweredUpTo(x, n - 1)
    BY <1>1, <1>4 DEF HandledBy
  <2>2. n - 1 \in Nat /\ n \in 1 .. n /\ 1 .. n - 1 \subseteq 1 .. n
    BY <2>1
  <2>3. SameLines(x, n - 1)
    BY <1>1, <2>2 DEF SameLines
  <2>4. AnsweredUpTo(x, n - 1)'
    BY <2>1, <2>2, <2>3, AnsweredStays
  <2>5. sent'[x][n] = sent[x][n]
    BY <1>1, <2>2 DEF SameLines
  <2>6. InHand(x, n)'
    BY <2>1, <2>5 DEF InHand
  <2> QED BY <2>1, <2>4, <2>6
<1> QED BY <1>1, <1>2, <1>3, <1>4 DEF HandledBy

\* What others do, and the client that sends a line.
LEMMA AnswersStay ==
    ASSUME LinesInv, LinesInv', AnswersInv, NothingUnsettled, UNCHANGED <<at, seen, answers>>,
           sent' = sent \/ \E s \in DOMAIN Servers : \E line : sent' = [sent EXCEPT ![s] = Append(@, line)]
    PROVE  AnswersInv'
<1>1. ServersType'
  BY DEF AnswersInv, ServersType
<1>2. AllTrue'
  <2> SUFFICES ASSUME NEW s \in DOMAIN Servers, NEW i \in DOMAIN answers[s] PROVE IsTrue(answers[s][i])'
    BY DEF AllTrue
  <2>1. PICK a \in Reply : a = answers[s][i]
    BY DEF AnswersInv, ServersType
  <2>2. IsTrue(a)'
    BY <2>1, TrueStays DEF AnswersInv, AllTrue
  <2>3. answers'[s][i] = a
    BY <2>1
  <2> QED BY <2>2, <2>3
<1>3. ASSUME NEW x \in DOMAIN Servers PROVE HandledBy(x)'
  <2>1. HandledBy(x) /\ seen[x] \in Nat /\ seen[x] <= Len(sent[x])
    BY DEF AnswersInv, HandledBy, LinesInv
  <2>2. sent[x] \in Seq(AllLines) /\ sent'[x] \in Seq(AllLines)
    BY DEF LinesInv
  <2>3. sent'[x] = sent[x] \/ \E line : sent'[x] = Append(sent[x], line)
    BY DEF LinesInv
  <2>4. /\ Len(sent'[x]) \in Nat /\ Len(sent[x]) <= Len(sent'[x])
        /\ \A i \in 1 .. Len(sent[x]) : sent'[x][i] = sent[x][i]
    <3>1. CASE sent'[x] = sent[x]
      BY <2>2, <3>1
    <3>2. ASSUME NEW line, sent'[x] = Append(sent[x], line)
          PROVE  /\ Len(sent'[x]) \in Nat /\ Len(sent[x]) <= Len(sent'[x])
                 /\ \A i \in 1 .. Len(sent[x]) : sent'[x][i] = sent[x][i]
      BY <2>2, <3>2
    <3> QED BY <2>3, <3>1, <3>2
  <2>5. SameLines(x, seen[x])
    BY <2>1, <2>2, <2>4 DEF SameLines
  <2> QED BY <2>1, <2>4, <2>5, HandledStays
<1> QED BY <1>1, <1>2, <1>3 DEF AnswersInv

\* A server that takes a step answers as it owes.
LEMMA AnswersGrow ==
    ASSUME LinesInv, AnswersInv, NothingUnsettled, NEW s \in DOMAIN Servers, sent' = sent,
           Reads(s) \/ Returns(s) \/ Stands(s)
    PROVE  AnswersInv'
<1>1. answers' = answers \/ \E a \in Reply : IsTrue(a)' /\ answers' = [answers EXCEPT ![s] = Append(answers[s], a)]
  BY DEF Reads, Returns, Stands, OneMore
<1>2. ServersType'
  <2>1. at' \in [DOMAIN Servers -> {"reading", "inTool", "ended"}]
    BY DEF Reads, Returns, Stands, AnswersInv, ServersType
  <2>2. answers \in [DOMAIN Servers -> Seq(Reply)]
    BY DEF AnswersInv, ServersType
  <2>3. ASSUME NEW a \in Reply PROVE Append(answers[s], a) \in Seq(Reply)
    BY <2>2
  <2>4. answers' \in [DOMAIN Servers -> Seq(Reply)]
    BY <1>1, <2>2, <2>3
  <2> QED BY <2>1, <2>4 DEF ServersType
<1>3. ASSUME NEW x \in DOMAIN Servers, NEW i \in DOMAIN answers'[x] PROVE IsTrue(answers[x][i])'
  <2>1. ASSUME NEW a, a = answers[x][i], i \in DOMAIN answers[x] PROVE IsTrue(a)'
    BY <2>1, TrueStays DEF AnswersInv, AllTrue, ServersType
  <2>2. CASE answers' = answers
    BY <2>1, <2>2
  <2>3. ASSUME NEW a \in Reply, IsTrue(a)', answers' = [answers EXCEPT ![s] = Append(answers[s], a)]
        PROVE  IsTrue(answers[x][i])'
    <3>1. CASE x # s
      BY <2>1, <2>3, <3>1
    <3>2. CASE x = s
      <4>1. answers[x] \in Seq(Reply) /\ answers'[x] = Append(answers[x], a)
        BY <2>3, <3>2 DEF AnswersInv, ServersType
      <4>2. answers'[x][i] = a \/ (i \in DOMAIN answers[x] /\ answers'[x][i] = answers[x][i])
        BY <4>1
      <4> QED BY <2>1, <2>3, <4>2
    <3> QED BY <3>1, <3>2
  <2> QED BY <1>1, <2>2, <2>3
<1>4. ASSUME NEW x \in DOMAIN Servers \ {s} PROVE HandledBy(x)'
  <2>1. at'[x] = at[x] /\ seen'[x] = seen[x] /\ answers'[x] = answers[x]
    BY <1>1 DEF Reads, Returns, Stands, AnswersInv, ServersType, LinesInv
  <2>2. HandledBy(x) /\ SameLines(x, seen[x]) /\ Len(sent'[x]) \in Nat /\ Len(sent[x]) <= Len(sent'[x])
    BY DEF AnswersInv, SameLines, LinesInv
  <2> QED BY <2>1, <2>2, HandledStays
<1>5. HandledBy(s)'
  <2>1. PICK n \in Nat : n = seen[s]
    BY DEF LinesInv
  <2>2. HandledBy(s) /\ \A i \in Nat : SameLines(s, i)
    BY DEF AnswersInv, SameLines
  <2>3. at[s] \in {"reading", "inTool", "ended"} /\ answers[s] \in Seq(Reply) /\ Len(sent[s]) \in Nat
    BY DEF AnswersInv, ServersType, LinesInv
  <2>4. ASSUME NEW i \in Nat, AnsweredUpTo(s, i), OneMore(s, i + 1) PROVE AnsweredUpTo(s, i + 1)'
    <3>1. \/ AnswerTo(s, i + 1) = {} /\ answers'[s] = answers[s]
          \/ \E a \in Reply : a.id \in AnswerTo(s, i + 1) /\ answers'[s] = Append(answers[s], a)
      BY <2>4 DEF OneMore, AnswersInv, ServersType
    <3> QED BY <2>2, <2>3, <2>4, <3>1, OneMoreAnswer
  <2>5. CASE Reads(s)
    <3>1. seen'[s] = n + 1 /\ n + 1 <= Len(sent'[s]) /\ AnsweredUpTo(s, n)
      BY <2>1, <2>2, <2>3, <2>5 DEF Reads, LinesInv, HandledBy
    <3>2. ASSUME NEW p \in {"reading", "ended"}, at' = [at EXCEPT ![s] = p], OneMore(s, n + 1)
          PROVE  HandledBy(s)'
      <4>1. AnsweredUpTo(s, n + 1)' /\ at'[s] = p
        BY <2>1, <2>4, <3>1, <3>2 DEF AnswersInv, ServersType
      <4> QED BY <3>1, <3>2, <4>1 DEF HandledBy
    <3>3. CASE at' = [at EXCEPT ![s] = "inTool"] /\ answers' = answers /\ InHand(s, n + 1)
      <4>1. at'[s] = "inTool" /\ n + 1 > 0 /\ n + 1 - 1 = n
        BY <2>1, <3>3 DEF AnswersInv, ServersType
      <4>2. AnsweredUpTo(s, n)'
        BY <2>2, <3>1, <3>3, AnsweredStays
      <4>3. InHand(s, n + 1)'
        BY <3>3 DEF InHand
      <4> QED BY <3>1, <4>1, <4>2, <4>3 DEF HandledBy
    <3> QED BY <2>1, <2>5, <3>2, <3>3 DEF Reads
  <2>6. CASE Returns(s)
    <3>1. n > 0 /\ AnsweredUpTo(s, n - 1) /\ n - 1 \in Nat /\ n - 1 + 1 = n
      BY <2>1, <2>2, <2>6 DEF Returns, HandledBy
    <3>2. seen'[s] = n /\ at'[s] = "reading" /\ n <= Len(sent'[s])
      BY <2>1, <2>2, <2>6 DEF Returns, HandledBy, AnswersInv, ServersType
    <3>3. AnsweredUpTo(s, n)'
      BY <2>1, <2>4, <2>6, <3>1 DEF Returns
    <3> QED BY <3>2, <3>3 DEF HandledBy
  <2>7. CASE Stands(s)
    <3>1. CASE at' = at
      <4>1. at'[s] = at[s] /\ seen'[s] = seen[s] /\ answers'[s] = answers[s]
        BY <2>7, <3>1 DEF Stands
      <4> QED BY <2>1, <2>2, <2>3, <4>1, HandledStays
    <3>2. CASE at' = [at EXCEPT ![s] = "ended"]
      <4>1. at'[s] = "ended" /\ seen' = seen
        BY <2>7, <3>2 DEF Stands, AnswersInv, ServersType
      <4> QED BY <2>2, <4>1 DEF HandledBy
    <3> QED BY <2>7, <3>1, <3>2 DEF Stands
  <2> QED BY <2>5, <2>6, <2>7
<1> QED BY <1>2, <1>3, <1>4, <1>5 DEF AnswersInv, AllTrue

-----------------------------------------------------------------------------
\* Each line is answered once, in the order of the lines and with its own ID, and an answer
\* is a result only if its change is made, for any number of servers, lines and workers.
THEOREM LinesAreAnswered == Spec => []AnsweredOnce
<1> DEFINE Inv == NumbersInv /\ LinesInv /\ AnswersInv
<1>1. Init => Inv
  <2> SUFFICES ASSUME Init PROVE Inv
    OBVIOUS
  <2>1. NumbersInv /\ LinesInv
    BY DEF Init, DocumentsInit, ServersInit, NumbersInv, LinesInv
  <2>2. ServersType /\ AllTrue
    BY DEF Init, ServersInit, ServersType, AllTrue
  <2>3. ASSUME NEW s \in DOMAIN Servers PROVE HandledBy(s)
    <3>1. OwedTo(s, 0) = {}
      BY DEF OwedTo
    <3>2. AnsweredUpTo(s, 0)
      BY <3>1, FS_EmptySet DEF AnsweredUpTo, Init, ServersInit
    <3> QED BY <3>2 DEF HandledBy, Init, ServersInit
  <2> QED BY <2>1, <2>2, <2>3 DEF AnswersInv
<1>2. Inv /\ [Next]_vars => Inv'
  <2> SUFFICES ASSUME NumbersInv, LinesInv, AnswersInv, [Next]_vars PROVE Inv'
    OBVIOUS
  <2>1. LinesInv'
    BY LinesAreKept
  <2>2. NumbersInv' /\ NothingUnsettled
    <3>1. CASE UNCHANGED dvars
      BY <3>1 DEF dvars, NumbersInv, NothingUnsettled, Settled
    <3>2. CASE DocStep
      BY <3>2, StepsAreNumbered, NumbersKept, SettledStays DEF NothingUnsettled
    <3> QED BY <3>1, <3>2, NextIsDocStep DEF vars
  <2>3. ASSUME NEW s \in DOMAIN Servers, ServerGoesOn(s) PROVE AnswersInv'
    BY <2>2, <2>3, ServerActs, AnswersGrow DEF ServerGoesOn
  <2>4. ASSUME NEW s \in DOMAIN Servers, ClientSends(s) PROVE AnswersInv'
    <3>1. UNCHANGED <<at, seen, answers>> /\ \E line : sent' = [sent EXCEPT ![s] = Append(@, line)]
      BY <2>4 DEF ClientSends, SendLine
    <3> QED BY <2>1, <2>2, <3>1, AnswersStay
  <2>5. CASE UNCHANGED pvars
    BY <2>1, <2>2, <2>5, AnswersStay DEF pvars
  <2>6. AnswersInv'
    BY <2>3, <2>4, <2>5 DEF Next, LocalStep, LocalGoesOn, HttpGoesOn, vars
  <2> QED BY <2>1, <2>2, <2>6
<1>3. Inv => AnsweredOnce
  BY DEF AnswersInv, HandledBy, AllTrue, IsTrue, AnsweredOnce
<1> QED BY <1>1, <1>2, <1>3, PTL DEF Spec
=============================================================================
