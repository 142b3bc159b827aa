--------------------------- MODULE ProxyMode_proofs ---------------------------
(***************************************************************************)
(* Proofs about ProxyRelay and ProxyMode.  First an inductive invariant of *)
(* what happens to one connection, for any number of pieces and in any     *)
(* order of the handler, the copiers, the two ends and the server's Close. *)
(* Then the program around it: its command never outlives the proxies it   *)
(* was given, and the connection keeps its invariant while the program     *)
(* starts, is signalled and ends.                                          *)
(***************************************************************************)
EXTENDS ProxyMode, TLAPS

\* Everything that happens to a connection.
RelayNext == (\E r \in Requests : Accept(r)) \/ RelayStep \/ ServerCloses \/ RelayKilled

RelayTypes ==
    /\ request \in Requests \cup {NoRequest}
    /\ handler \in {"none", "reading", "dialling", "answering", "relaying", "responding",
                    "ending", "closing", "done", "gone"}
    /\ told \in {"nothing", "ok", "refused"}
    /\ peer \in [Ends -> {"open", "eof", "reset"}]
    /\ socket \in [Ends -> {"none", "open", "shut", "idle", "closed"}]
    /\ sent \in [Ends -> Nat] /\ read \in [Ends -> Nat] /\ written \in [Ends -> Nat]
    /\ skipped \in Nat
    /\ copier \in [Ends -> {"none", "copying", "clean", "failed"}]
    /\ seen \in {"nothing", "whole", "cut"}

\* A handler at work has a request, of the kind it is at work on.
RequestInv ==
    /\ handler \in {"reading", "dialling", "answering", "relaying", "responding", "ending"} =>
            request # NoRequest
    /\ handler \in {"relaying", "ending", "closing"} => request.kind # "plain"
    /\ handler = "responding" => request.kind = "plain"
    /\ handler \in {"none", "reading"} => skipped = 0
    /\ skipped # 0 => request.kind = "connect"

\* Until the answer nothing has been told, copied or refused.
BeforeAnswer ==
    handler \in {"none", "reading", "dialling", "answering"} =>
        told = "nothing" /\ written["server"] = 0 /\ \A e \in Ends : copier[e] = "none"

\* The sockets a handler counts on; http.Server.Close takes none from a relay.
SocketInv ==
    /\ handler \in {"none", "reading", "dialling"} => socket["server"] = "none"
    /\ handler \in {"answering", "relaying", "responding"} => socket["server"] = "open" /\ Dialable
    /\ handler \in {"reading", "dialling", "answering", "relaying"} =>
            socket["client"] \in {"open", "shut"}
    /\ socket["client"] = "shut" =>
            \/ request.kind = "plain" \/ request = NoRequest
            \/ request.kind = "connect" /\ handler = "reading"

\* What the client was told, and when it could not be.
AnswerInv ==
    /\ told = "refused" =>
            handler \in {"closing", "done"} /\ \A e \in Ends : copier[e] = "none"
    /\ \A e \in Ends : copier[e] # "none" =>
            request.kind # "plain" /\ (told = "ok" \/ peer["client"] = "reset")
    /\ handler = "responding" => told = "ok" \/ Unreachable
    /\ handler \in {"relaying", "ending"} => told = "ok" \/ peer["client"] = "reset"
    /\ handler = "closing" =>
            told # "nothing" \/ peer["client"] = "reset" \/ request = NoRequest

\* How a copier ended, and that its result says so.
CopierInv ==
    /\ \A e \in Ends : copier[e] = "clean" => peer[e] # "open" /\ written[e] = sent[e]
    /\ handler = "relaying" /\ (\E e \in Ends : copier[e] = "failed") =>
            \E e \in Ends : peer[e] = "reset"
    /\ results # <<>> => \E e \in Ends : copier[e] \in {"clean", "failed"}

SeenInv == seen # "nothing" => handler = "done" /\ request.kind = "plain"

RelayInv ==
    /\ RelayTypes /\ RequestInv /\ BeforeAnswer /\ SocketInv /\ AnswerInv /\ CopierInv
    /\ SeenInv /\ ReplyTruthful /\ EndMeansComplete

-----------------------------------------------------------------------------
LEMMA RequestFacts ==
  /\ \A r \in Requests :
        /\ r # NoRequest
        /\ r.kind \in {"socks", "connect", "plain"}
        /\ r.kind = "plain" => r.dest = "host"
        /\ r.kind = "connect" => r.dest # "unsupported"
        /\ r.framing = "length" => r.kind = "plain"
  /\ NoRequest.kind = "none" /\ NoRequest.framing = "none"
  BY DEF Requests, NoRequest

LEMMA RelayInvInit == RelayInit => RelayInv
  BY RequestFacts
  DEF RelayInit, RelayInv, RelayTypes, RequestInv, BeforeAnswer, SocketInv, AnswerInv, CopierInv,
      SeenInv, ReplyTruthful, EndMeansComplete, Zero, Ends

(* One lemma per part of the invariant, with a step for each group of actions    *)
(* that change what it reads.                                                    *)

LEMMA TypesStep == ASSUME RelayInv, RelayNext PROVE RelayTypes'
<1> USE RequestFacts DEF RelayInv, RelayTypes, SocketInv, Move, Ends
<1>1. ASSUME NEW r \in Requests, Accept(r) PROVE RelayTypes'
  BY <1>1 DEF Accept
<1>2. CASE Abandon \/ ReadRequest \/ RefuseUnsupported
  BY <1>2 DEF Abandon, ReadRequest, ThrownAway, RefuseUnsupported, Refuse, Tell
<1>3. CASE DialFails \/ DialSucceeds \/ Answer
  BY <1>3 DEF DialFails, Refuse, Tell, DialSucceeds, Answer
<1>4. ASSUME NEW e \in Ends, PeerSends(e) \/ PeerEnds(e) PROVE RelayTypes'
  BY <1>4 DEF PeerSends, PeerEnds
<1>5. ASSUME NEW e \in Ends, CopyReads(e) \/ CopyWrites(e) PROVE RelayTypes'
  BY <1>5 DEF CopyReads, CopyWrites, Other
<1>6. ASSUME NEW e \in Ends, CopyEnds(e) \/ CopyFails(e) PROVE RelayTypes'
  BY <1>6 DEF CopyEnds, CopyReturns, CopyFails
<1>7. CASE TakeResult \/ CloseServer \/ CloseClient
  BY <1>7 DEF TakeResult, CloseServer, CloseClient
<1>8. CASE PlainAnswer \/ PlainCopies \/ PlainEnds \/ IdleEnds
  BY <1>8 DEF PlainAnswer, RoundTrip, Tell, PlainCopies, PlainEnds, TakenFor, IdleEnds
<1>9. CASE ServerCloses \/ RelayKilled
  BY <1>9 DEF ServerCloses, RelayKilled, Zero
<1> HIDE DEF RelayInv, RelayTypes, SocketInv, Move, Ends
<1> QED
  BY <1>1, <1>2, <1>3, <1>4, <1>5, <1>6, <1>7, <1>8, <1>9
  DEF RelayNext, RelayStep, PeerStep, Prompt, CopierStep

LEMMA RequestStep == ASSUME RelayInv, RelayNext PROVE RequestInv'
<1> USE RequestFacts DEF RelayInv, RelayTypes, RequestInv, Move, Ends
<1>1. ASSUME NEW r \in Requests, Accept(r) PROVE RequestInv'
  BY <1>1 DEF Accept
<1>2. CASE Abandon \/ ReadRequest \/ RefuseUnsupported
  BY <1>2 DEF Abandon, ReadRequest, ThrownAway, RefuseUnsupported, Refuse, Tell
<1>3. CASE DialFails \/ DialSucceeds \/ Answer
  BY <1>3 DEF DialFails, Refuse, Tell, DialSucceeds, Answer
<1>4. CASE TakeResult \/ CloseServer \/ CloseClient
  BY <1>4 DEF TakeResult, CloseServer, CloseClient
<1>5. CASE PlainAnswer \/ PlainEnds
  BY <1>5 DEF PlainAnswer, RoundTrip, Tell, PlainEnds, TakenFor
<1>6. CASE RelayKilled
  BY <1>6 DEF RelayKilled, Zero
<1>7. CASE UNCHANGED <<request, handler, skipped>>
  BY <1>7
<1> HIDE DEF RelayInv, RelayTypes, RequestInv, Move, Ends
<1> QED
  BY <1>1, <1>2, <1>3, <1>4, <1>5, <1>6, <1>7
  DEF RelayNext, RelayStep, PeerStep, Prompt, CopierStep, PeerSends, PeerEnds, CopyReads,
      CopyWrites, CopyEnds, CopyReturns, CopyFails, PlainCopies, IdleEnds, ServerCloses

LEMMA BeforeAnswerStep == ASSUME RelayInv, RelayNext PROVE BeforeAnswer'
<1> USE RequestFacts DEF RelayInv, RelayTypes, BeforeAnswer, RequestInv, SeenInv, Move, Ends
<1>1. ASSUME NEW r \in Requests, Accept(r) PROVE BeforeAnswer'
  BY <1>1 DEF Accept
<1>2. CASE Abandon \/ ReadRequest \/ RefuseUnsupported
  BY <1>2 DEF Abandon, ReadRequest, ThrownAway, RefuseUnsupported, Refuse, Tell
<1>3. CASE DialFails \/ DialSucceeds \/ Answer
  BY <1>3 DEF DialFails, Refuse, Tell, DialSucceeds, Answer
<1>4. ASSUME NEW e \in Ends, CopyWrites(e) PROVE BeforeAnswer'
  BY <1>4 DEF CopyWrites, Other
<1>5. ASSUME NEW e \in Ends, CopyEnds(e) \/ CopyFails(e) PROVE BeforeAnswer'
  BY <1>5 DEF CopyEnds, CopyReturns, CopyFails
<1>6. CASE TakeResult \/ CloseServer \/ CloseClient
  BY <1>6 DEF TakeResult, CloseServer, CloseClient
<1>7. CASE PlainAnswer \/ PlainCopies \/ PlainEnds
  BY <1>7 DEF PlainAnswer, RoundTrip, Tell, PlainCopies, PlainEnds, TakenFor
<1>8. CASE RelayKilled
  BY <1>8 DEF RelayKilled, Zero
<1>9. CASE UNCHANGED <<handler, told, written, copier>>
  BY <1>9
<1> HIDE DEF RelayInv, RelayTypes, BeforeAnswer, RequestInv, SeenInv, Move, Ends
<1> QED
  BY <1>1, <1>2, <1>3, <1>4, <1>5, <1>6, <1>7, <1>8, <1>9
  DEF RelayNext, RelayStep, PeerStep, Prompt, CopierStep, PeerSends, PeerEnds, CopyReads,
      IdleEnds, ServerCloses

LEMMA SocketStep == ASSUME RelayInv, RelayNext PROVE SocketInv'
<1> USE RequestFacts DEF RelayInv, RelayTypes, RequestInv, BeforeAnswer, SocketInv, Move,
       Ends, Dialable, Brackets
<1>1. ASSUME NEW r \in Requests, Accept(r) PROVE SocketInv'
  BY <1>1 DEF Accept
<1>2. CASE Abandon \/ ReadRequest \/ RefuseUnsupported
  BY <1>2 DEF Abandon, ReadRequest, ThrownAway, RefuseUnsupported, Refuse, Tell
<1>3. CASE DialFails \/ DialSucceeds \/ Answer
  BY <1>3 DEF DialFails, Refuse, Tell, DialSucceeds, Answer
<1>4. CASE TakeResult \/ CloseServer \/ CloseClient
  BY <1>4 DEF TakeResult, CloseServer, CloseClient
<1>5. CASE PlainAnswer \/ PlainEnds \/ IdleEnds
  BY <1>5 DEF PlainAnswer, RoundTrip, Tell, PlainEnds, TakenFor, IdleEnds
<1>6. CASE ServerCloses \/ RelayKilled
  BY <1>6 DEF ServerCloses, RelayKilled, Zero
<1>7. CASE UNCHANGED <<request, handler, socket>>
  BY <1>7
<1> HIDE DEF RelayInv, RelayTypes, RequestInv, BeforeAnswer, SocketInv, Move, Ends,
       Dialable, Brackets
<1> QED
  BY <1>1, <1>2, <1>3, <1>4, <1>5, <1>6, <1>7
  DEF RelayNext, RelayStep, PeerStep, Prompt, CopierStep, PeerSends, PeerEnds, CopyReads,
      CopyWrites, CopyEnds, CopyReturns, CopyFails, PlainCopies

LEMMA AnswerStep == ASSUME RelayInv, RelayNext PROVE AnswerInv'
<1> USE RequestFacts DEF RelayInv, RelayTypes, RequestInv, BeforeAnswer, SocketInv,
       AnswerInv, Move, Ends, Unreachable
<1>1. ASSUME NEW r \in Requests, Accept(r) PROVE AnswerInv'
  BY <1>1 DEF Accept
<1>2. CASE Abandon \/ ReadRequest \/ RefuseUnsupported
  BY <1>2 DEF Abandon, ReadRequest, ThrownAway, RefuseUnsupported, Refuse, Tell
<1>3. CASE DialFails \/ DialSucceeds \/ Answer
  BY <1>3 DEF DialFails, Refuse, Tell, DialSucceeds, Answer
<1>4. ASSUME NEW e \in Ends, PeerEnds(e) PROVE AnswerInv'
  BY <1>4 DEF PeerEnds
<1>5. ASSUME NEW e \in Ends, CopyEnds(e) \/ CopyFails(e) PROVE AnswerInv'
  BY <1>5 DEF CopyEnds, CopyReturns, CopyFails
<1>6. CASE TakeResult \/ CloseServer \/ CloseClient
  BY <1>6 DEF TakeResult, CloseServer, CloseClient
<1>7. CASE PlainAnswer \/ PlainEnds \/ IdleEnds
  BY <1>7 DEF PlainAnswer, RoundTrip, Tell, PlainEnds, TakenFor, IdleEnds
<1>8. CASE ServerCloses \/ RelayKilled
  BY <1>8 DEF ServerCloses, RelayKilled, Zero
<1>9. CASE UNCHANGED <<request, handler, told, peer, socket, copier>>
  BY <1>9
<1> HIDE DEF RelayInv, RelayTypes, RequestInv, BeforeAnswer, SocketInv, AnswerInv, Move,
       Ends, Unreachable
<1> QED
  BY <1>1, <1>2, <1>3, <1>4, <1>5, <1>6, <1>7, <1>8, <1>9
  DEF RelayNext, RelayStep, PeerStep, Prompt, CopierStep, PeerSends, CopyReads, CopyWrites,
      PlainCopies

LEMMA CopierStepInv == ASSUME RelayInv, RelayNext PROVE CopierInv'
<1> USE RequestFacts DEF RelayInv, RelayTypes, RequestInv, BeforeAnswer, SocketInv,
       AnswerInv, CopierInv, Move, Ends
<1>1. ASSUME NEW r \in Requests, Accept(r) PROVE CopierInv'
  BY <1>1 DEF Accept
<1>2. CASE Abandon \/ ReadRequest \/ RefuseUnsupported
  BY <1>2 DEF Abandon, ReadRequest, ThrownAway, RefuseUnsupported, Refuse, Tell
<1>3. CASE DialFails \/ DialSucceeds \/ Answer
  BY <1>3 DEF DialFails, Refuse, Tell, DialSucceeds, Answer
<1>4. ASSUME NEW e \in Ends, PeerSends(e) \/ PeerEnds(e) PROVE CopierInv'
  BY <1>4 DEF PeerSends, PeerEnds
<1>5. ASSUME NEW e \in Ends, CopyWrites(e) PROVE CopierInv'
  BY <1>5 DEF CopyWrites, Other
<1>6. ASSUME NEW e \in Ends, CopyEnds(e) PROVE CopierInv'
  BY <1>6 DEF CopyEnds, CopyReturns
<1>7. ASSUME NEW e \in Ends, CopyFails(e) PROVE CopierInv'
  <2>1. /\ copier[e] = "copying" /\ copier' = [copier EXCEPT ![e] = "failed"]
        /\ UNCHANGED <<handler, peer, sent, written>>
    BY <1>7 DEF CopyFails, CopyReturns
  <2>2. \E f \in Ends : socket[f] = "closed" \/ peer[f] = "reset"
    BY <1>7 DEF CopyFails, Other
  <2>3. handler = "relaying" => \E f \in Ends : peer[f] = "reset"
    BY <2>2
  <2> QED BY <2>1, <2>3
<1>8. CASE TakeResult \/ CloseServer \/ CloseClient
  BY <1>8 DEF TakeResult, CloseServer, CloseClient
<1>9. CASE PlainAnswer \/ PlainCopies \/ PlainEnds
  BY <1>9 DEF PlainAnswer, RoundTrip, Tell, PlainCopies, PlainEnds, TakenFor
<1>10. CASE RelayKilled
  BY <1>10 DEF RelayKilled, Zero
<1>11. CASE UNCHANGED <<handler, peer, sent, written, copier, results>>
  BY <1>11
<1> HIDE DEF RelayInv, RelayTypes, RequestInv, BeforeAnswer, SocketInv, AnswerInv,
       CopierInv, Move, Ends
<1> QED
  BY <1>1, <1>2, <1>3, <1>4, <1>5, <1>6, <1>7, <1>8, <1>9, <1>10, <1>11
  DEF RelayNext, RelayStep, PeerStep, Prompt, CopierStep, CopyReads, IdleEnds, ServerCloses

LEMMA SeenStep == ASSUME RelayInv, RelayNext PROVE SeenInv'
<1> USE RequestFacts DEF RelayInv, RelayTypes, RequestInv, SeenInv, Move, Ends
<1>1. ASSUME NEW r \in Requests, Accept(r) PROVE SeenInv'
  BY <1>1 DEF Accept
<1>2. CASE Abandon \/ ReadRequest \/ RefuseUnsupported
  BY <1>2 DEF Abandon, ReadRequest, ThrownAway, RefuseUnsupported, Refuse, Tell
<1>3. CASE DialFails \/ DialSucceeds \/ Answer
  BY <1>3 DEF DialFails, Refuse, Tell, DialSucceeds, Answer
<1>4. CASE TakeResult \/ CloseServer \/ CloseClient
  BY <1>4 DEF TakeResult, CloseServer, CloseClient
<1>5. CASE PlainAnswer \/ PlainEnds
  BY <1>5 DEF PlainAnswer, RoundTrip, Tell, PlainEnds, TakenFor
<1>6. CASE RelayKilled
  BY <1>6 DEF RelayKilled, Zero
<1>7. CASE UNCHANGED <<request, handler, seen>>
  BY <1>7
<1> HIDE DEF RelayInv, RelayTypes, RequestInv, SeenInv, Move, Ends
<1> QED
  BY <1>1, <1>2, <1>3, <1>4, <1>5, <1>6, <1>7
  DEF RelayNext, RelayStep, PeerStep, Prompt, CopierStep, PeerSends, PeerEnds, CopyReads,
      CopyWrites, CopyEnds, CopyReturns, CopyFails, PlainCopies, IdleEnds, ServerCloses

LEMMA TruthfulStep == ASSUME RelayInv, RelayNext PROVE ReplyTruthful'
<1> USE RequestFacts DEF RelayInv, RelayTypes, RequestInv, BeforeAnswer, SocketInv,
       AnswerInv, CopierInv, SeenInv, ReplyTruthful, EndMeansComplete, Move, Ends,
       Unreachable, Dialable, Brackets
<1>1. ASSUME NEW r \in Requests, Accept(r) PROVE ReplyTruthful'
  BY <1>1 DEF Accept
<1>2. CASE Abandon \/ ReadRequest \/ RefuseUnsupported
  BY <1>2 DEF Abandon, ReadRequest, ThrownAway, RefuseUnsupported, Refuse, Tell
<1>3. CASE DialFails \/ DialSucceeds \/ Answer
  BY <1>3 DEF DialFails, Refuse, Tell, DialSucceeds, Answer
<1>4. ASSUME NEW e \in Ends, PeerEnds(e) PROVE ReplyTruthful'
  BY <1>4 DEF PeerEnds
<1>5. ASSUME NEW e \in Ends, CopyWrites(e) PROVE ReplyTruthful'
  BY <1>5 DEF CopyWrites, Other
<1>6. CASE TakeResult \/ CloseServer \/ CloseClient
  BY <1>6 DEF TakeResult, CloseServer, CloseClient
<1>7. CASE PlainAnswer \/ PlainCopies \/ PlainEnds \/ IdleEnds
  BY <1>7 DEF PlainAnswer, RoundTrip, Tell, PlainCopies, PlainEnds, TakenFor, IdleEnds
<1>8. CASE ServerCloses \/ RelayKilled
  BY <1>8 DEF ServerCloses, RelayKilled, Zero
<1>9. CASE UNCHANGED <<request, handler, told, peer, socket, written>>
  BY <1>9
<1> HIDE DEF RelayInv, RelayTypes, RequestInv, BeforeAnswer, SocketInv, AnswerInv,
       CopierInv, SeenInv, ReplyTruthful, EndMeansComplete, Move, Ends, Unreachable,
       Dialable, Brackets
<1> QED
  BY <1>1, <1>2, <1>3, <1>4, <1>5, <1>6, <1>7, <1>8, <1>9
  DEF RelayNext, RelayStep, PeerStep, Prompt, CopierStep, PeerSends, CopyReads, CopyEnds,
      CopyReturns, CopyFails

LEMMA CompleteStep == ASSUME RelayInv, RelayNext PROVE EndMeansComplete'
<1> USE RequestFacts DEF RelayInv, RelayTypes, RequestInv, BeforeAnswer, SocketInv,
       AnswerInv, CopierInv, SeenInv, ReplyTruthful, EndMeansComplete, Move, Ends,
       Unreachable
<1>1. ASSUME NEW r \in Requests, Accept(r) PROVE EndMeansComplete'
  BY <1>1 DEF Accept
<1>2. CASE Abandon \/ ReadRequest \/ RefuseUnsupported
  BY <1>2 DEF Abandon, ReadRequest, ThrownAway, RefuseUnsupported, Refuse, Tell
<1>3. CASE DialFails \/ DialSucceeds \/ Answer
  BY <1>3 DEF DialFails, Refuse, Tell, DialSucceeds, Answer
<1>4. ASSUME NEW e \in Ends, PeerSends(e) \/ PeerEnds(e) PROVE EndMeansComplete'
  BY <1>4 DEF PeerSends, PeerEnds
<1>5. ASSUME NEW e \in Ends, CopyWrites(e) PROVE EndMeansComplete'
  BY <1>5 DEF CopyWrites, Other
<1>6. ASSUME NEW e \in Ends, CopyEnds(e) \/ CopyFails(e) PROVE EndMeansComplete'
  BY <1>6 DEF CopyEnds, CopyReturns, CopyFails
<1>7. CASE TakeResult \/ CloseServer \/ CloseClient
  BY <1>7 DEF TakeResult, CloseServer, CloseClient
<1>8. CASE PlainAnswer \/ PlainCopies \/ PlainEnds
  BY <1>8 DEF PlainAnswer, RoundTrip, Tell, PlainCopies, PlainEnds, TakenFor
<1>9. CASE RelayKilled
  BY <1>9 DEF RelayKilled, Zero
<1>10. CASE UNCHANGED <<request, handler, told, peer, sent, written, skipped, copier, seen>>
  BY <1>10
<1> HIDE DEF RelayInv, RelayTypes, RequestInv, BeforeAnswer, SocketInv, AnswerInv,
       CopierInv, SeenInv, ReplyTruthful, EndMeansComplete, Move, Ends, Unreachable
<1> QED
  BY <1>1, <1>2, <1>3, <1>4, <1>5, <1>6, <1>7, <1>8, <1>9, <1>10
  DEF RelayNext, RelayStep, PeerStep, Prompt, CopierStep, CopyReads, IdleEnds, ServerCloses

(* Whatever happens to a connection, the invariant stays.                        *)
LEMMA RelayInvStep == RelayInv /\ (RelayNext \/ UNCHANGED relayVars) => RelayInv'
<1>1. ASSUME RelayInv, RelayNext PROVE RelayInv'
  BY <1>1, TypesStep, RequestStep, BeforeAnswerStep, SocketStep, AnswerStep, CopierStepInv,
     SeenStep, TruthfulStep, CompleteStep DEF RelayInv
<1>2. ASSUME RelayInv, UNCHANGED relayVars PROVE RelayInv'
  BY <1>2 DEF relayVars, RelayInv, RelayTypes, RequestInv, BeforeAnswer, SocketInv, AnswerInv,
     CopierInv, SeenInv, ReplyTruthful, EndMeansComplete, Unreachable, Dialable, Brackets
<1> QED BY <1>1, <1>2

-----------------------------------------------------------------------------
(* The program *)

LEMMA InitRelay == Init => RelayInv
  BY RelayInvInit DEF Init

\* The program touches a connection only as RelayNext says.
LEMMA StepRelay == [Next]_vars => RelayNext \/ UNCHANGED relayVars
<1> SUFFICES ASSUME Next PROVE RelayNext \/ UNCHANGED relayVars
  BY DEF vars
<1>1. CASE CloseHTTP \/ Exit
  BY <1>1 DEF CloseHTTP, Exit, RelayNext
<1>2. CASE MainStep /\ ~CloseHTTP /\ ~Exit
  BY <1>2 DEF MainStep, StartSession, Listen, Notify, Interrupted, StartCommand, SetProcess,
     CommandReaped, CloseSOCKS, CloseSession
<1>3. CASE Command \/ Forward
  BY <1>3 DEF Command, Forward
<1>4. CASE Signal
  BY <1>4 DEF Signal, RelayNext, relayVars
<1>5. ASSUME NEW r \in Requests, Connect(r) PROVE RelayNext
  BY <1>5 DEF Connect, RelayNext
<1>6. CASE RelayStep
  BY <1>6 DEF RelayNext
<1> QED BY <1>1, <1>2, <1>3, <1>4, <1>5, <1>6 DEF Next

LEMMA RelayInvariant == Spec => []RelayInv
<1>1. RelayInv /\ [Next]_vars => RelayInv'
  BY StepRelay, RelayInvStep
<1> QED BY <1>1, InitRelay, PTL DEF Spec

(* A client is told of a success only over a connection to what it asked for,    *)
(* of a failure only without one, and gets an answer unless it breaks off or     *)
(* cannot be reached: also while the listeners are being closed.                 *)
THEOREM ReplySafe == Spec => []ReplyTruthful
<1>1. RelayInv => ReplyTruthful
  BY DEF RelayInv
<1> QED BY <1>1, RelayInvariant, PTL

(* A relay ends because one direction is complete or an end broke off, and a     *)
(* response with a length is not taken for whole when it is not: for any number  *)
(* of pieces in either direction.                                                *)
THEOREM EndSafe == Spec => []EndMeansComplete
<1>1. RelayInv => EndMeansComplete
  BY DEF RelayInv
<1> QED BY <1>1, RelayInvariant, PTL

-----------------------------------------------------------------------------
(* The main goroutine                                                            *)

\* What the main goroutine has built up, and not yet taken down, where it is.
MainInv ==
    /\ main \in {"socks", "http", "notify", "waiting", "start", "started", "running",
                 "close http"} => session = "up"
    /\ main = "socks" => listening = {}
    /\ main = "http" => listening = {"socks"}
    /\ main \in {"notify", "waiting", "start", "started", "running", "close http"} =>
            listening = {"socks", "http"}
    /\ main = "session" => listening = {}
    /\ main \in {"start", "started", "running"} => notified
    /\ child \in {"running", "signalled"} => main \in {"started", "running"}

LEMMA MainStepInv == MainInv /\ [Next]_vars => MainInv'
<1> SUFFICES ASSUME MainInv, Next PROVE MainInv'
  BY DEF MainInv, vars, modeVars
<1> USE DEF MainInv, Goto
<1>1. CASE StartSession
  BY <1>1 DEF StartSession
<1>2. CASE Listen("socks", "http", "close session") \/ Listen("http", "notify", "close socks")
  BY <1>2 DEF Listen
<1>3. CASE Notify \/ Interrupted
  BY <1>3 DEF Notify, Interrupted
<1>4. CASE StartCommand \/ SetProcess \/ CommandReaped
  BY <1>4 DEF StartCommand, SetProcess, CommandReaped
<1>5. CASE CloseHTTP \/ CloseSOCKS \/ CloseSession \/ Exit
  BY <1>5 DEF CloseHTTP, CloseSOCKS, CloseSession, Exit
<1>6. CASE Command \/ Forward
  BY <1>6 DEF Command, Forward
<1>7. CASE Signal
  BY <1>7 DEF Signal
<1>8. CASE UNCHANGED modeVars
  BY <1>8 DEF modeVars
<1> HIDE DEF MainInv, Goto
<1> QED BY <1>1, <1>2, <1>3, <1>4, <1>5, <1>6, <1>7, <1>8 DEF Next, MainStep, Connect

(* From the moment the command runs until it has ended, the program is there:    *)
(* no signal kills it and its session and listeners stay up.                     *)
THEOREM ChildSafe == Spec => []ChildNotAbandoned
<1>1. Init => MainInv
  BY DEF Init, MainInv
<1>2. MainInv => ChildNotAbandoned
  BY DEF MainInv, ChildNotAbandoned, Gone
<1> QED BY <1>1, <1>2, MainStepInv, PTL DEF Spec
=============================================================================
