----------------------------- MODULE RestProofs -----------------------------
(***************************************************************************)
(* Theorems about RestClient and RestSession, for every value of their     *)
(* constants.  About the client: the type invariant, which says that a     *)
(* call in the table has had no callback, and that it implements           *)
(* RequestLedger.  About the session: that the network is one RestClient   *)
(* assumes; that the server keeps, under every name, the last upload it    *)
(* reported, and refuses as bad the forms without a file; and that a       *)
(* download gives the application a file that was uploaded under the name  *)
(* it asked for.                                                           *)
(*                                                                         *)
(* About the scanner: that it reads every form a browser makes.  The       *)
(* invariant of the session relates three logs: the uploads, the files     *)
(* they have left, and the responses on their way to the client.           *)
(***************************************************************************)
EXTENDS RestSession, SequenceTheorems, NaturalsInduction, WellFoundedInduction, TLAPS

----------------------------------------------------------------------------
(* Outcomes and requests. *)

\* What a callback is given is an outcome.
LEMMA OutcomeTyped ==
  ASSUME NEW pending \in PendingRequests, NEW result \in Results
  PROVE  Outcome(pending, result) \in Outcomes
BY DEF Outcome, Outcomes, Results

\* A request that is made is well typed.
LEMMA RequestTyped ==
  ASSUME NEW use \in Uses
  PROVE  [verb |-> use.verb, path |-> createRequest(use.endpoint), pending |-> use.pending] \in Requests
<1>1. use.verb \in Verbs /\ use.pending \in PendingRequests
  BY UsesAssumption
<1>2. createRequest(use.endpoint) \in Paths
  BY DEF createRequest, Paths
<1> QED
  BY <1>1, <1>2 DEF Requests

----------------------------------------------------------------------------
(* Type correctness. *)

\* A call that has not been made has no callback.
RestInv ==
  /\ TypeOK
  /\ \A c \in Calls : c > Len(requests) => completions[c] = <<>>

\* The service starts with no reply pending.
LEMMA InitInv == Init => RestInv
<1> SUFFICES ASSUME Init PROVE RestInv
  OBVIOUS
<1>1. requests \in Seq(Requests) /\ Len(requests) = 0
  BY EmptySeq DEF Init
<1>2. completions \in [Calls -> Seq(Outcomes)] /\ \A c \in Calls : completions[c] = <<>>
  BY EmptySeq DEF Init
<1>3. DOMAIN m_pendingRequests = {} /\ m_serverUrl \in ServerUrls
  BY RestAssumption DEF Init
<1> QED
  BY <1>1, <1>2, <1>3, RestAssumption DEF RestInv, TypeOK

\* What startRequest leaves behind.
LEMMA StartEffect ==
  ASSUME TypeOK, NEW use \in Uses, startRequest(use.verb, use.endpoint, use.pending)
  PROVE  LET reply == Len(requests) + 1 IN
         /\ reply \in Calls
         /\ requests' \in Seq(Requests) /\ Len(requests') = reply
         /\ \A r \in 1..Len(requests) : requests'[r] = requests[r]
         /\ requests'[reply].pending = use.pending
         /\ DOMAIN m_pendingRequests' = DOMAIN m_pendingRequests \cup {reply}
         /\ m_pendingRequests'[reply] = use.pending
         /\ \A r \in DOMAIN m_pendingRequests : m_pendingRequests'[r] = m_pendingRequests[r]
         /\ UNCHANGED <<m_serverUrl, completions>>
<1> DEFINE reply == Len(requests) + 1
           request == [verb |-> use.verb, path |-> createRequest(use.endpoint), pending |-> use.pending]
<1>1. request \in Requests /\ request.pending = use.pending
  BY RequestTyped
<1>2. requests \in Seq(Requests) /\ Len(requests) \in Nat
  BY DEF TypeOK
<1>3. requests' = Append(requests, request) /\ reply \in Calls
  BY <1>2, RestAssumption DEF startRequest, Calls
<1>4. DOMAIN m_pendingRequests \subseteq 1..Len(requests)
  BY DEF TypeOK
<1>5. /\ m_pendingRequests' = [r \in DOMAIN m_pendingRequests \cup {reply} |->
            IF r = reply THEN use.pending ELSE m_pendingRequests[r]]
      /\ UNCHANGED <<m_serverUrl, completions>>
  BY DEF startRequest
<1>6. reply \notin DOMAIN m_pendingRequests
  BY <1>2, <1>4
<1> HIDE DEF request
<1>7. /\ requests' \in Seq(Requests) /\ Len(requests') = reply
      /\ \A r \in 1..Len(requests) : requests'[r] = requests[r]
      /\ requests'[reply] = request
  BY <1>1, <1>2, <1>3, AppendProperties
<1> QED
  BY <1>1, <1>3, <1>5, <1>6, <1>7

\* The finished reply of a call that is in the table.
LEMMA ResponseEffect ==
  ASSUME TypeOK, NEW reply \in DOMAIN m_pendingRequests, NEW result \in Results,
         handleResponse(reply, result)
  PROVE  LET pending == m_pendingRequests[reply] IN
         /\ reply \in Calls /\ pending \in PendingRequests
         /\ completions[reply] = <<>>
         /\ DOMAIN m_pendingRequests' = DOMAIN m_pendingRequests \ {reply}
         /\ \A r \in DOMAIN m_pendingRequests' : m_pendingRequests'[r] = m_pendingRequests[r]
         /\ completions' = IF pending.hasCallback
                           THEN [completions EXCEPT ![reply] = Append(@, Outcome(pending, result))]
                           ELSE completions
         /\ UNCHANGED <<m_serverUrl, requests>>
<1>1. requests \in Seq(Requests) /\ Len(requests) \in Nat /\ Len(requests) <= MaxCalls
  BY DEF TypeOK
<1>2. reply \in 1..Len(requests)
  BY DEF TypeOK
<1>3. m_pendingRequests[reply] = requests[reply].pending /\ completions[reply] = <<>>
  BY DEF TypeOK
<1>4. requests[reply].pending \in PendingRequests
  <2>1. requests[reply] \in Requests
    BY <1>1, <1>2, ElementOfSeq
  <2> QED
    BY <2>1 DEF Requests
<1>5. reply \in Calls
  BY <1>1, <1>2, RestAssumption DEF Calls
<1>6. m_pendingRequests' = Restrict(m_pendingRequests, DOMAIN m_pendingRequests \ {reply})
  BY DEF handleResponse, Take
<1> QED
  BY <1>3, <1>4, <1>5, <1>6 DEF handleResponse, RunsCallback, Restrict

\* Every step keeps the types, and that a pending reply has not been answered.
LEMMA NextInv ==
  ASSUME RestInv, [Next]_clientVars
  PROVE  RestInv'
<1> USE DEF RestInv
<1>1. CASE UNCHANGED clientVars
  BY <1>1 DEF TypeOK, clientVars
<1>2. ASSUME NEW url \in ServerUrls, setServerUrl(url)
      PROVE  RestInv'
  BY <1>2 DEF TypeOK, setServerUrl
<1>3. ASSUME NEW use \in Uses, startRequest(use.verb, use.endpoint, use.pending)
      PROVE  RestInv'
  <2> DEFINE reply == Len(requests) + 1
  <2>1. Len(requests) \in Nat /\ reply \in Calls /\ completions[reply] = <<>>
    BY <1>3, StartEffect DEF TypeOK
  <2>2. Len(requests') <= MaxCalls
    BY <1>3, <2>1, StartEffect, RestAssumption DEF Calls
  <2>3. \A r \in DOMAIN m_pendingRequests' :
          /\ r \in 1..Len(requests')
          /\ m_pendingRequests'[r] = requests'[r].pending
          /\ completions'[r] = <<>>
    <3>1. \A r \in DOMAIN m_pendingRequests :
            /\ r \in 1..Len(requests)
            /\ m_pendingRequests[r] = requests[r].pending
            /\ completions[r] = <<>>
      BY DEF TypeOK
    <3> QED
      BY <1>3, <2>1, <3>1, StartEffect
  <2>4. \A c \in Calls : c > Len(requests') => completions'[c] = <<>>
    <3>1. Len(requests') = Len(requests) + 1 /\ UNCHANGED completions
      BY <1>3, StartEffect
    <3>2. \A c \in Calls : c \in Nat
      BY RestAssumption DEF Calls
    <3> QED
      BY <2>1, <3>1, <3>2
  <2>5. /\ requests' \in Seq(Requests)
        /\ UNCHANGED <<m_serverUrl, completions>>
    BY <1>3, StartEffect
  <2> QED
    BY <2>2, <2>3, <2>4, <2>5 DEF TypeOK
<1>4. ASSUME NEW reply \in 1..Len(requests), NEW result \in Results, handleResponse(reply, result)
      PROVE  RestInv'
  <2>1. CASE reply \notin DOMAIN m_pendingRequests
    BY <1>1, <1>4, <2>1 DEF handleResponse
  <2>2. CASE reply \in DOMAIN m_pendingRequests
    <3> DEFINE pending == m_pendingRequests[reply]
    <3>1. pending \in PendingRequests /\ reply \in Calls /\ UNCHANGED <<m_serverUrl, requests>>
      BY <1>4, <2>2, ResponseEffect
    <3>2. Outcome(pending, result) \in Outcomes
      BY <1>4, <3>1, OutcomeTyped
    <3>3. completions' \in [Calls -> Seq(Outcomes)]
      <4>1. Append(completions[reply], Outcome(pending, result)) \in Seq(Outcomes)
        BY <3>1, <3>2, AppendProperties DEF TypeOK
      <4>2. completions' \in {completions,
              [completions EXCEPT ![reply] = Append(@, Outcome(pending, result))]}
        BY <1>4, <2>2, ResponseEffect
      <4>3. completions \in [Calls -> Seq(Outcomes)]
        BY DEF TypeOK
      <4> QED
        BY <3>1, <4>1, <4>2, <4>3
    <3>4. \A c \in Calls \ {reply} : completions'[c] = completions[c]
      BY <1>4, <2>2, <3>1, ResponseEffect DEF TypeOK
    <3>5. \A r \in DOMAIN m_pendingRequests' : r \in DOMAIN m_pendingRequests /\ r # reply
      BY <1>4, <2>2, ResponseEffect
    <3>6. \A r \in DOMAIN m_pendingRequests : r \in Calls
      BY RestAssumption DEF TypeOK, Calls
    <3>7. \A r \in DOMAIN m_pendingRequests' :
            /\ r \in 1..Len(requests)
            /\ m_pendingRequests'[r] = requests[r].pending
            /\ completions'[r] = <<>>
      BY <1>4, <2>2, <3>4, <3>5, <3>6, ResponseEffect DEF TypeOK
    <3>8. \A c \in Calls : c > Len(requests) => completions'[c] = <<>>
      BY <1>4, <3>4 DEF TypeOK
    <3> QED
      BY <3>1, <3>3, <3>7, <3>8 DEF TypeOK
  <2> QED
    BY <2>1, <2>2
<1> QED
  BY <1>1, <1>2, <1>3, <1>4 DEF Next, ApplicationStep

\* The type invariant of RestClient: the table holds calls that were made and have
\* had no callback.
THEOREM TypeCorrect == Spec => []TypeOK
<1>1. Spec => []RestInv
  BY InitInv, NextInv, PTL DEF Spec
<1> QED
  BY <1>1, PTL DEF RestInv

----------------------------------------------------------------------------
(* The client implements the ledger. *)

\* The client starts as the ledger does.
LEMMA InitLedger == Init => Ledger!Init
<1> SUFFICES ASSUME Init PROVE Ledger!Init
  OBVIOUS
<1>1. Len(requests) = 0 /\ DOMAIN m_pendingRequests = {}
  BY EmptySeq DEF Init
<1> QED
  BY <1>1 DEF Init, Ledger!Init, Issued, Outstanding

\* Every step is one of the ledger, or changes nothing of it.
LEMMA NextLedger ==
  ASSUME RestInv, [Next]_clientVars
  PROVE  [Ledger!Next]_<<Issued, Outstanding, completions>>
<1> DEFINE Same == UNCHANGED <<Issued, Outstanding, completions>>
<1>1. CASE UNCHANGED clientVars
  BY <1>1 DEF clientVars, Issued, Outstanding
<1>2. ASSUME NEW url \in ServerUrls, setServerUrl(url)
      PROVE  Same
  BY <1>2 DEF setServerUrl, Issued, Outstanding
<1>3. ASSUME NEW use \in Uses, startRequest(use.verb, use.endpoint, use.pending)
      PROVE  Same \/ Ledger!Accept(Len(requests) + 1)
  <2> DEFINE reply == Len(requests) + 1
  <2>1. /\ Len(requests) \in Nat /\ reply \in Calls /\ Len(requests') = reply
        /\ UNCHANGED completions
    BY <1>3, StartEffect DEF RestInv, TypeOK
  <2>2. Issued' = IF use.pending.hasCallback THEN Issued \cup {reply} ELSE Issued
    <3>1. \A c \in 1..Len(requests) : requests'[c] = requests[c]
      BY <1>3, StartEffect DEF RestInv
    <3>2. requests'[reply].pending = use.pending
      BY <1>3, StartEffect DEF RestInv
    <3>3. 1..reply = 1..Len(requests) \cup {reply}
      BY <2>1
    <3> QED
      BY <2>1, <3>1, <3>2, <3>3 DEF Issued
  <2>3. Outstanding' = IF use.pending.hasCallback THEN Outstanding \cup {reply} ELSE Outstanding
    <3>1. /\ DOMAIN m_pendingRequests' = DOMAIN m_pendingRequests \cup {reply}
          /\ m_pendingRequests'[reply] = use.pending
          /\ \A r \in DOMAIN m_pendingRequests : m_pendingRequests'[r] = m_pendingRequests[r]
      BY <1>3, StartEffect DEF RestInv
    <3>2. reply \notin DOMAIN m_pendingRequests
      BY <2>1 DEF RestInv, TypeOK
    <3> QED
      BY <2>1, <3>1, <3>2 DEF Outstanding
  <2>4. reply \notin Issued
    BY <2>1 DEF Issued
  <2> QED
    BY <2>1, <2>2, <2>3, <2>4 DEF Ledger!Accept
<1>4. ASSUME NEW reply \in 1..Len(requests), NEW result \in Results, handleResponse(reply, result)
      PROVE  Same \/ \E outcome \in Outcomes : reply \in Calls /\ Ledger!Complete(reply, outcome)
  <2>1. CASE reply \notin DOMAIN m_pendingRequests
    BY <1>1, <1>4, <2>1 DEF handleResponse, clientVars, Issued, Outstanding
  <2>2. CASE reply \in DOMAIN m_pendingRequests
    <3> DEFINE pending == m_pendingRequests[reply]
               outcome == Outcome(pending, result)
    <3>1. /\ pending \in PendingRequests /\ reply \in Calls
          /\ DOMAIN m_pendingRequests' = DOMAIN m_pendingRequests \ {reply}
          /\ \A r \in DOMAIN m_pendingRequests' : m_pendingRequests'[r] = m_pendingRequests[r]
      BY <1>4, <2>2, ResponseEffect DEF RestInv
    <3>2. UNCHANGED requests
      BY <1>4, <2>2, ResponseEffect DEF RestInv
    <3>3. Outstanding' = IF pending.hasCallback THEN Outstanding \ {reply} ELSE Outstanding
      BY <2>2, <3>1 DEF Outstanding
    <3>4. completions' = IF pending.hasCallback
                         THEN [completions EXCEPT ![reply] = Append(@, outcome)] ELSE completions
      BY <1>4, <2>2, ResponseEffect DEF RestInv
    <3>5. UNCHANGED Issued
      BY <3>2 DEF Issued
    <3>6. outcome \in Outcomes
      BY <1>4, <3>1, OutcomeTyped
    <3> HIDE DEF outcome
    <3>7. CASE pending.hasCallback
      <4>1. reply \in Outstanding
        BY <2>2, <3>1, <3>7 DEF Outstanding
      <4>2. Ledger!Complete(reply, outcome)
        BY <3>3, <3>4, <3>5, <3>7, <4>1 DEF Ledger!Complete
      <4> QED
        BY <3>1, <3>6, <4>2
    <3>8. CASE ~pending.hasCallback
      BY <3>3, <3>4, <3>5, <3>8
    <3> QED
      BY <3>7, <3>8
  <2> QED
    BY <2>1, <2>2
<1>5. ASSUME NEW c \in Calls, Ledger!Accept(c)
      PROVE  Ledger!Next
  BY <1>5 DEF Ledger!Next
<1>6. ASSUME NEW c \in Calls, NEW outcome \in Outcomes, Ledger!Complete(c, outcome)
      PROVE  Ledger!Next
  BY <1>6 DEF Ledger!Next
<1>7. ASSUME NEW use \in Uses, startRequest(use.verb, use.endpoint, use.pending)
      PROVE  Len(requests) + 1 \in Calls
  BY <1>7, StartEffect DEF RestInv
<1> QED
  BY <1>1, <1>2, <1>3, <1>4, <1>5, <1>6, <1>7 DEF Next, ApplicationStep

\* The REST client implements RequestLedger: a call with a callback is held until
\* handleResponse completes it, once, when finished is emitted again too.
THEOREM ImplementsLedger == Spec => LedgerSpec
<1>1. Spec => []RestInv
  BY InitInv, NextInv, PTL DEF Spec
<1>2. RestInv /\ [Next]_clientVars => [Ledger!Next]_<<Issued, Outstanding, completions>>
  BY NextLedger
<1> QED
  BY InitLedger, <1>1, <1>2, PTL DEF Spec, LedgerSpec, Ledger!Spec, Ledger!ledgerVars

----------------------------------------------------------------------------
(* Numbers. *)

\* A set of numbers has a least one.
LEMMA SmallestNumber ==
  ASSUME NEW T, T \subseteq Nat, T # {}
  PROVE  \E x \in T : \A y \in T : x <= y
<1>1. PICK x \in T : \A y \in T : <<y, x>> \notin OpToRel(<, Nat)
  BY WFMin, NatLessThanWellFounded, Zenon
<1>2. \A y \in T : ~(y < x)
  BY <1>1, Zenon DEF OpToRel
<1>3. \A y \in T : x <= y
  <2> TAKE y \in T
  <2>1. x \in Nat /\ y \in Nat /\ ~(y < x)
    BY <1>2
  <2> QED
    BY <2>1
<1> QED
  BY <1>3

\* Induction: a set that holds 0, and the successor of each number it holds.
LEMMA Induction ==
  ASSUME NEW S, 0 \in S, \A n \in Nat : n \in S => n + 1 \in S
  PROVE  \A n \in Nat : n \in S
<1> SUFFICES ASSUME NEW m \in Nat, m \notin S PROVE FALSE
  OBVIOUS
<1> DEFINE T == Nat \ S
<1>1. PICK x \in T : \A y \in T : x <= y
  BY SmallestNumber
<1>2. x \in Nat /\ x # 0 /\ x - 1 \in Nat /\ x - 1 < x
  BY <1>1
<1>3. x - 1 \in S
  BY <1>1, <1>2
<1>4. (x - 1) + 1 = x
  BY <1>2
<1> QED
  BY <1>1, <1>2, <1>3, <1>4

----------------------------------------------------------------------------
(* The multipart scanner. *)

\* What the scanner looks for are three texts.
LEMMA TokensDiffer ==
  /\ Server!Delimiter \in Tokens /\ Server!Dashes \in Tokens /\ Server!Crlf \in Tokens
  /\ Server!Delimiter # Server!Crlf /\ Server!Dashes # Server!Crlf
  /\ Server!Delimiter # Server!Dashes
<1>1. /\ Server!Delimiter = [kind |-> "delimiter", filename |-> <<>>]
      /\ Server!Dashes = [kind |-> "dashes", filename |-> <<>>]
      /\ Server!Crlf = [kind |-> "crlf", filename |-> <<>>]
  BY DEF Server!Delimiter, Server!Dashes, Server!Crlf, Server!Token
<1>2. Server!Delimiter \in Tokens /\ Server!Dashes \in Tokens /\ Server!Crlf \in Tokens
  BY Zenon DEF Tokens
<1>3. /\ Server!Delimiter.kind = "delimiter" /\ Server!Dashes.kind = "dashes"
      /\ Server!Crlf.kind = "crlf"
  BY <1>1
<1> QED
  BY <1>2, <1>3

\* The least of a set of numbers, as the server and as the session name it.
LEMMA ServerMin ==
  ASSUME NEW T, T \subseteq Nat, NEW m \in T, \A x \in T : m <= x
  PROVE  Server!Min(T) = m
<1>1. Server!Min(T) \in T /\ \A y \in T : Server!Min(T) <= y
  BY Zenon DEF Server!Min
<1>2. m <= Server!Min(T) /\ Server!Min(T) <= m /\ m \in Nat /\ Server!Min(T) \in Nat
  BY <1>1
<1> QED
  BY <1>2

LEMMA ClientMin ==
  ASSUME NEW T, T \subseteq Nat, NEW m \in T, \A x \in T : m <= x
  PROVE  Min(T) = m
<1>1. Min(T) \in T /\ \A y \in T : Min(T) <= y
  BY Zenon DEF Min
<1>2. m <= Min(T) /\ Min(T) <= m /\ m \in Nat /\ Min(T) \in Nat
  BY <1>1
<1> QED
  BY <1>2

\* Where the scanner finds a token: at the first place that holds it, from a position on.
Places(body, token, from) == {i \in from..Len(body) : body[i] = token}

LEMMA TokenAt ==
  ASSUME NEW body \in Seq(Tokens), NEW token, NEW from \in Nat \ {0}
  PROVE  Server!IndexOf(body, <<token>>, from) =
           IF Places(body, token, from) = {} THEN 0 ELSE Server!Min(Places(body, token, from))
<1> DEFINE P == <<token>>
           at == {i \in from..(Len(body) - Len(P) + 1) : SubSeq(body, i, i + Len(P) - 1) = P}
<1>1. Len(P) = 1 /\ Len(body) \in Nat
  BY LenProperties
<1>2. \A i : i \in from..(Len(body) - Len(P) + 1) <=> i \in from..Len(body)
  BY <1>1
<1>3. ASSUME NEW i \in from..Len(body)
      PROVE  SubSeq(body, i, i + Len(P) - 1) = P <=> body[i] = token
  <2>1. i + Len(P) - 1 = i /\ i \in 1..Len(body)
    BY <1>1
  <2> DEFINE one == SubSeq(body, i, i)
  <2>2. one \in Seq(Tokens) /\ Len(one) = 1 /\ one[1] = body[i]
    <3>1. \A j \in i..i : body[j] \in Tokens
      BY <2>1, ElementOfSeq
    <3>2. /\ one \in Seq(Tokens) /\ Len(one) = 1
          /\ \A j \in 1..(i - i + 1) : one[j] = body[i + j - 1]
      BY <2>1, <3>1, SubSeqProperties
    <3> HIDE DEF one
    <3> QED
      BY <2>1, <3>2
  <2> HIDE DEF one
  <2>3. ASSUME body[i] = token
        PROVE  one = P
    <3>1. P \in Seq(Tokens) /\ P[1] = token
      BY <2>2, <2>3
    <3>2. \A j \in 1..Len(one) : one[j] = P[j]
      BY <2>2, <2>3, <3>1
    <3> HIDE DEF P
    <3> QED
      BY <1>1, <2>2, <3>1, <3>2, SeqEqual
  <2>4. ASSUME one = P
        PROVE  body[i] = token
    BY <2>2, <2>4
  <2> QED
    BY <2>1, <2>3, <2>4 DEF one
<1>4. at = Places(body, token, from)
  BY <1>2, <1>3 DEF Places
<1> HIDE DEF at, P
<1> QED
  BY <1>4 DEF Server!IndexOf, at, P

\* What is found is the first.
LEMMA FindsToken ==
  ASSUME NEW body \in Seq(Tokens), NEW token, NEW from \in Nat \ {0},
         NEW at \in from..Len(body), body[at] = token, \A j \in from..(at - 1) : body[j] # token
  PROVE  Server!IndexOf(body, <<token>>, from) = at
<1>1. at \in Places(body, token, from) /\ Places(body, token, from) \subseteq Nat
  BY DEF Places
<1>2. \A x \in Places(body, token, from) : at <= x
  BY DEF Places
<1>3. Server!Min(Places(body, token, from)) = at
  BY <1>1, <1>2, ServerMin
<1> QED
  BY <1>1, <1>3, TokenAt

\* What is not there is not found.
LEMMA FindsNoToken ==
  ASSUME NEW body \in Seq(Tokens), NEW token, NEW from \in Nat \ {0},
         \A j \in from..Len(body) : body[j] # token
  PROVE  Server!IndexOf(body, <<token>>, from) = 0
<1>1. Places(body, token, from) = {}
  BY DEF Places
<1> QED
  BY <1>1, TokenAt

\* What is found lies behind where the search began.
LEMMA FoundWithin ==
  ASSUME NEW body \in Seq(Tokens), NEW token, NEW from \in Nat \ {0}
  PROVE  \/ Server!IndexOf(body, <<token>>, from) = 0
         \/ Server!IndexOf(body, <<token>>, from) \in from..Len(body)
<1>1. CASE Places(body, token, from) = {}
  BY <1>1, TokenAt
<1>2. CASE Places(body, token, from) # {}
  <2>1. Places(body, token, from) \subseteq Nat
    BY DEF Places
  <2>2. PICK x \in Places(body, token, from) : \A y \in Places(body, token, from) : x <= y
    BY <1>2, <2>1, SmallestNumber
  <2>3. Server!Min(Places(body, token, from)) = x
    BY <2>1, <2>2, ServerMin
  <2> QED
    BY <1>2, <2>2, <2>3, TokenAt DEF Places
<1> QED
  BY <1>1, <1>2

\* A part that a browser makes, as the scanner cuts it out.
Content(part) == <<part.header, Server!Crlf, Server!Crlf>> \o part.payload

Parts == [header : Tokens, payload : Seq(Tokens)]

\* A part begins with its header and an empty line; its payload follows.
LEMMA ContentOfPart ==
  ASSUME NEW part \in Parts
  PROVE  /\ Content(part) \in Seq(Tokens) /\ Len(Content(part)) = 3 + Len(part.payload)
         /\ Content(part)[1] = part.header
         /\ Content(part)[2] = Server!Crlf /\ Content(part)[3] = Server!Crlf
         /\ \A k \in 1..Len(part.payload) : Content(part)[3 + k] = part.payload[k]
<1> DEFINE top == <<part.header, Server!Crlf, Server!Crlf>>
           tail == part.payload
<1>1. part.header \in Tokens /\ tail \in Seq(Tokens)
  BY DEF Parts
<1>2. /\ top \in Seq(Tokens) /\ Len(top) = 3
      /\ top[1] = part.header /\ top[2] = Server!Crlf /\ top[3] = Server!Crlf
  BY <1>1, TokensDiffer
<1> HIDE DEF top, tail
<1>3. /\ top \o tail \in Seq(Tokens) /\ Len(top \o tail) = 3 + Len(tail)
      /\ \A i \in 1..(3 + Len(tail)) : (top \o tail)[i] = IF i <= 3 THEN top[i] ELSE tail[i - 3]
  <2>1. /\ top \o tail \in Seq(Tokens) /\ Len(top \o tail) = Len(top) + Len(tail)
        /\ \A i \in 1..(Len(top) + Len(tail)) :
             (top \o tail)[i] = IF i <= Len(top) THEN top[i] ELSE tail[i - Len(top)]
    BY <1>1, <1>2, ConcatProperties
  <2> QED
    BY <1>2, <2>1
<1>4. Len(tail) \in Nat
  BY <1>1, LenProperties
<1> DEFINE whole == top \o tail
<1> HIDE DEF whole
<1>5. \A i \in 1..(3 + Len(tail)) : whole[i] = IF i <= 3 THEN top[i] ELSE tail[i - 3]
  BY <1>3 DEF whole
<1>6. /\ whole[1] = part.header /\ whole[2] = Server!Crlf /\ whole[3] = Server!Crlf
      /\ \A k \in 1..Len(tail) : whole[3 + k] = tail[k]
  <2>1. 1 \in 1..(3 + Len(tail)) /\ 2 \in 1..(3 + Len(tail)) /\ 3 \in 1..(3 + Len(tail))
    BY <1>4
  <2>2. ASSUME NEW k \in 1..Len(tail)
        PROVE  whole[3 + k] = tail[k]
    <3>1. 3 + k \in 1..(3 + Len(tail)) /\ ~(3 + k <= 3) /\ (3 + k) - 3 = k
      BY <1>4
    <3> QED
      BY <1>5, <3>1
  <2> QED
    BY <1>2, <1>5, <2>1, <2>2
<1> QED
  BY <1>3, <1>6 DEF Content, whole, top, tail

\* The scanner reads such a part as a file when its header names "file" and a file name.
IsFile(part) == NamesFile(part.header) /\ part.header.filename # <<>>
FileOf(part) == [name |-> Last(part.header.filename), data |-> part.payload]

\* FileOfPart reads the part of a browser: no line end of the payload is taken for the
\* end of the headers.
LEMMA PartIsRead ==
  ASSUME NEW part \in Parts, part.header # Server!Crlf
  PROVE  Server!FileOfPart(Content(part)) = IF IsFile(part) THEN FileOf(part) ELSE Server!NoFile
<1> DEFINE c == Content(part)
           L == Len(part.payload)
           P == <<Server!Crlf, Server!Crlf>>
<1>1. /\ c \in Seq(Tokens) /\ Len(c) = 3 + L /\ L \in Nat
      /\ c[1] = part.header /\ c[2] = Server!Crlf /\ c[3] = Server!Crlf
      /\ \A k \in 1..L : c[3 + k] = part.payload[k]
  BY ContentOfPart, LenProperties DEF Parts
<1> HIDE DEF c, L
<1>2. Server!IndexOf(c, P, 1) = 2
  <2> DEFINE at == {i \in 1..(Len(c) - Len(P) + 1) : SubSeq(c, i, i + Len(P) - 1) = P}
  <2>1. P \in Seq(Tokens) /\ Len(P) = 2 /\ P[1] = Server!Crlf /\ P[2] = Server!Crlf
    BY TokensDiffer
  <2> HIDE DEF P
  <2>2. ASSUME NEW i \in 1..2
        PROVE  /\ SubSeq(c, i, i + 1) \in Seq(Tokens) /\ Len(SubSeq(c, i, i + 1)) = 2
               /\ SubSeq(c, i, i + 1)[1] = c[i] /\ SubSeq(c, i, i + 1)[2] = c[i + 1]
    <3> DEFINE two == SubSeq(c, i, i + 1)
    <3>1. \A j \in i..(i + 1) : c[j] \in Tokens
      <4>1. i..(i + 1) \subseteq 1..Len(c)
        BY <1>1
      <4> QED
        BY <1>1, <4>1, ElementOfSeq
    <3>2. /\ two \in Seq(Tokens) /\ Len(two) = 2
          /\ \A j \in 1..((i + 1) - i + 1) : two[j] = c[i + j - 1]
      BY <3>1, SubSeqProperties
    <3> HIDE DEF two
    <3>3. two[1] = c[i] /\ two[2] = c[i + 1]
      <4>1. two[1] = c[i + 1 - 1] /\ two[2] = c[i + 2 - 1]
        BY <3>2
      <4> QED
        BY <4>1
    <3> QED
      BY <3>2, <3>3 DEF two
  <2>3. SubSeq(c, 2, 3) = P
    <3> DEFINE two == SubSeq(c, 2, 3)
    <3>1. two \in Seq(Tokens) /\ Len(two) = 2 /\ two[1] = c[2] /\ two[2] = c[3]
      <4>1. 2 \in 1..2 /\ 2 + 1 = 3
        OBVIOUS
      <4> QED
        BY <2>2, <4>1
    <3> HIDE DEF two
    <3>2. \A j \in 1..Len(two) : two[j] = P[j]
      BY <1>1, <2>1, <3>1
    <3>3. two = P
      BY <2>1, <3>1, <3>2, SeqEqual
    <3> QED
      BY <3>3 DEF two
  <2>4. SubSeq(c, 1, 2) # P
    <3>1. SubSeq(c, 1, 2)[1] = c[1]
      <4>1. 1 \in 1..2 /\ 1 + 1 = 2
        OBVIOUS
      <4> QED
        BY <2>2, <4>1
    <3> QED
      BY <1>1, <2>1, <3>1
  <2>5. \A i : i \in at <=> i \in 1..(2 + L) /\ SubSeq(c, i, i + 1) = P
    <3>1. Len(c) - Len(P) + 1 = 2 + L
      BY <1>1, <2>1
    <3>2. \A i \in 1..(2 + L) : i + Len(P) - 1 = i + 1
      BY <1>1, <2>1
    <3> QED
      BY <3>1, <3>2
  <2> HIDE DEF at
  <2>6. 2 \in at /\ at \subseteq Nat /\ \A x \in at : 2 <= x
    <3>1. L \in Nat
      BY <1>1
    <3>2. 2 \in 1..(2 + L) /\ 2 + 1 = 3
      BY <3>1
    <3>3. SubSeq(c, 2, 2 + 1) = P
      BY <2>3, <3>2
    <3>4. 2 \in at
      BY <2>5, <3>2, <3>3
    <3>5. \A i \in at : i \in 1..(2 + L) /\ SubSeq(c, i, i + 1) = P
      BY <2>5
    <3>6. 1 \notin at
      <4>1. 1 \in at => SubSeq(c, 1, 1 + 1) = P
        BY <3>5
      <4>2. 1 + 1 = 2
        OBVIOUS
      <4> QED
        BY <2>4, <4>1, <4>2
    <3>7. \A i \in at : i \in Nat /\ i >= 1
      BY <3>1, <3>5
    <3> QED
      BY <3>4, <3>6, <3>7
  <2>7. Server!Min(at) = 2
    BY <2>6, ServerMin
  <2> QED
    BY <2>6, <2>7 DEF Server!IndexOf, at
<1> HIDE DEF P
<1>3. SubSeq(c, 4, Len(c)) = part.payload
  <2> DEFINE rest == SubSeq(c, 4, Len(c))
  <2>1. \A j \in 4..Len(c) : c[j] \in Tokens
    <3>1. 4..Len(c) \subseteq 1..Len(c)
      BY <1>1
    <3> QED
      BY <1>1, <3>1, ElementOfSeq
  <2>2. /\ rest \in Seq(Tokens) /\ Len(rest) = IF 4 <= Len(c) THEN Len(c) - 4 + 1 ELSE 0
        /\ \A j \in 1..(Len(c) - 4 + 1) : rest[j] = c[4 + j - 1]
    BY <1>1, <2>1, SubSeqProperties
  <2> HIDE DEF rest
  <2>3. Len(rest) = L
    BY <1>1, <2>2
  <2>4. \A j \in 1..L : rest[j] = part.payload[j]
    <3> TAKE j \in 1..L
    <3>1. j \in 1..(Len(c) - 4 + 1) /\ 4 + j - 1 = 3 + j
      BY <1>1
    <3> QED
      BY <1>1, <2>2, <3>1
  <2>5. rest = part.payload
    BY <2>2, <2>3, <2>4, SeqEqual DEF L, Parts
  <2> QED
    BY <2>5 DEF rest
<1> DEFINE headers == 1..(2 - 1)
           named == {i \in headers : c[i].kind = "file" \/ c[i].filename = <<"file">>}
           withFile == {i \in headers : c[i].filename # <<>>}
<1>4. headers = {1}
  OBVIOUS
<1>5. named # {} <=> part.header.kind = "file" \/ part.header.filename = <<"file">>
  BY <1>1, <1>4
<1>6. /\ withFile # {} <=> part.header.filename # <<>>
      /\ withFile # {} => Server!Min(withFile) = 1
  <2>1. withFile \subseteq {1} /\ (1 \in withFile <=> part.header.filename # <<>>)
    BY <1>1, <1>4
  <2>2. ASSUME withFile # {}
        PROVE  Server!Min(withFile) = 1
    <3>1. 1 \in withFile /\ withFile \subseteq Nat /\ \A x \in withFile : 1 <= x
      BY <2>1, <2>2
    <3> HIDE DEF withFile
    <3> QED
      BY <3>1, ServerMin
  <2> QED
    BY <2>1, <2>2
<1> DEFINE isFile == 2 > 1 /\ named # {} /\ withFile # {}
<1>7. Server!FileOfPart(c) =
        IF isFile
        THEN [name |-> Server!safeFileName(c[Server!Min(withFile)].filename),
              data |-> SubSeq(c, 2 + 2, Len(c))]
        ELSE Server!NoFile
  BY <1>2 DEF Server!FileOfPart, Server!NamesFile, P
<1>8. isFile <=> IsFile(part)
  BY <1>5, <1>6 DEF IsFile, NamesFile
<1>9. ASSUME IsFile(part)
      PROVE  /\ Server!safeFileName(c[Server!Min(withFile)].filename) = Last(part.header.filename)
             /\ SubSeq(c, 2 + 2, Len(c)) = part.payload
  <2>1. c[Server!Min(withFile)].filename = part.header.filename
    BY <1>1, <1>6, <1>9 DEF IsFile
  <2>2. part.header.filename # <<>>
    BY <1>9 DEF IsFile
  <2>3. Server!safeFileName(part.header.filename) = Last(part.header.filename)
    BY <2>2 DEF Server!safeFileName, Server!Last, Last
  <2>4. 2 + 2 = 4
    OBVIOUS
  <2> QED
    BY <1>3, <2>1, <2>3, <2>4
<1> HIDE DEF isFile, named, withFile
<1> QED
  BY <1>7, <1>8, <1>9 DEF FileOf, c

----------------------------------------------------------------------------
(* The body of a form. *)

FlatStep(f, seqs, i) == IF i = 1 THEN seqs[i] ELSE f[i - 1] \o seqs[i]

Flattens(flat, seqs, n, S) ==
  /\ FlattenSeq(seqs) = flat[n]
  /\ \A i \in 1..n : flat[i] \in Seq(S) /\ flat[i] = FlatStep(flat, seqs, i)

\* The recursive definition of FlattenSeq defines a function.
LEMMA FlattenObeys ==
  ASSUME NEW S, NEW n \in Nat \ {0}, NEW seqs \in [1..n -> Seq(S)], Len(seqs) = n
  PROVE  \E flat : Flattens(flat, seqs, n, S)
<1> DEFINE Built(m) == \E g \in [1..m -> Seq(S)] : \A i \in 1..m : g[i] = FlatStep(g, seqs, i)
           Good == {m \in Nat : m <= n => Built(m)}
<1>1. 0 \in Good
  <2> DEFINE g == [i \in 1..0 |-> seqs[1]]
  <2>1. g \in [1..0 -> Seq(S)] /\ \A i \in 1..0 : g[i] = FlatStep(g, seqs, i)
    OBVIOUS
  <2> HIDE DEF g
  <2>2. Built(0)
    BY <2>1
  <2> HIDE DEF Built
  <2> QED
    BY <2>2
<1>2. ASSUME NEW m \in Nat, m \in Good
      PROVE  m + 1 \in Good
  <2>1. ASSUME m + 1 <= n
        PROVE  Built(m + 1)
    <3>1. Built(m)
      <4> HIDE DEF Built
      <4> QED
        BY <1>2, <2>1
    <3>2. PICK g \in [1..m -> Seq(S)] : \A i \in 1..m : g[i] = FlatStep(g, seqs, i)
      BY <3>1
    <3> DEFINE last == IF m = 0 THEN seqs[m + 1] ELSE g[m] \o seqs[m + 1]
               h == [i \in 1..(m + 1) |-> IF i = m + 1 THEN last ELSE g[i]]
    <3>3. last \in Seq(S)
      <4>1. seqs[m + 1] \in Seq(S) /\ (m # 0 => g[m] \in Seq(S))
        BY <2>1
      <4> QED
        BY <4>1, ConcatProperties
    <3> HIDE DEF last
    <3>4. h \in [1..(m + 1) -> Seq(S)]
      BY <3>3
    <3>5. h[m + 1] = last /\ \A i \in 1..m : h[i] = g[i]
      OBVIOUS
    <3> HIDE DEF h
    <3>6. ASSUME NEW i \in 1..(m + 1)
          PROVE  h[i] = FlatStep(h, seqs, i)
      <4>1. CASE i = m + 1
        <5>1. m # 0 => i # 1 /\ i - 1 = m /\ h[m] = g[m]
          BY <3>5, <4>1
        <5> QED
          BY <3>5, <4>1, <5>1 DEF last, FlatStep
      <4>2. CASE i # m + 1
        <5>1. i \in 1..m /\ (i # 1 => i - 1 \in 1..m)
          BY <4>2
        <5> QED
          BY <3>2, <3>5, <5>1 DEF FlatStep
      <4> QED
        BY <4>1, <4>2
    <3> QED
      BY <3>4, <3>6
  <2> HIDE DEF Built
  <2> QED
    BY <2>1
<1>3. Built(n)
  <2> HIDE DEF Good, Built
  <2>1. n \in Good
    BY <1>1, <1>2, Induction
  <2> QED
    BY <2>1 DEF Good
<1>4. PICK g \in [1..n -> Seq(S)] : \A i \in 1..n : g[i] = FlatStep(g, seqs, i)
  BY <1>3
<1> HIDE DEF Good, Built
<1> DEFINE Definition(f) == f = [i \in 1..n |-> IF i = 1 THEN seqs[i] ELSE f[i - 1] \o seqs[i]]
           result == CHOOSE f : Definition(f)
<1>5. Definition(g)
  BY <1>4 DEF FlatStep
<1>6. FlattenSeq(seqs) = result[n]
  BY DEF FlattenSeq
<1> HIDE DEF Definition
<1>7. Definition(result)
  BY <1>5, Zenon
<1> HIDE DEF result
<1>8. \A i \in 1..n : result[i] = FlatStep(result, seqs, i)
  BY <1>7 DEF Definition, FlatStep
<1>9. \A i \in 1..n : result[i] \in Seq(S)
  <2> DEFINE Typed == {m \in Nat : m + 1 <= n => result[m + 1] \in Seq(S)}
  <2>1. 0 \in Typed
    BY <1>8 DEF FlatStep
  <2>2. ASSUME NEW m \in Nat, m \in Typed
        PROVE  m + 1 \in Typed
    <3> SUFFICES ASSUME m + 2 <= n PROVE result[m + 2] \in Seq(S)
      OBVIOUS
    <3>1. m + 2 \in 1..n /\ m + 2 # 1 /\ (m + 2) - 1 = m + 1
      OBVIOUS
    <3>2. result[m + 2] = result[m + 1] \o seqs[m + 2]
      BY <1>8, <3>1 DEF FlatStep
    <3>3. result[m + 1] \in Seq(S) /\ seqs[m + 2] \in Seq(S)
      BY <2>2, <3>1
    <3> QED
      BY <3>2, <3>3, ConcatProperties
  <2> HIDE DEF Typed
  <2>3. \A m \in Nat : m \in Typed
    BY <2>1, <2>2, Induction
  <2> TAKE i \in 1..n
  <2> DEFINE m == i - 1
  <2>4. m \in Nat /\ m + 1 = i /\ m + 1 <= n
    OBVIOUS
  <2> HIDE DEF m
  <2> QED
    BY <2>3, <2>4 DEF Typed
<1>10. \A i \in 1..n : result[i] \in Seq(S) /\ result[i] = FlatStep(result, seqs, i)
  BY <1>8, <1>9
<1>11. Flattens(result, seqs, n, S)
  BY <1>6, <1>10 DEF Flattens
<1> QED
  BY <1>11

\* at[i] is where the i-th of the sequences begins.
LayOut(flat, seqs, n, at) ==
  /\ at[1] = 1 /\ at[n + 1] = Len(flat) + 1
  /\ \A i \in 1..n :
       /\ at[i] \in Nat \ {0} /\ at[i + 1] = at[i] + Len(seqs[i]) /\ at[i + 1] <= Len(flat) + 1
       /\ \A k \in 1..Len(seqs[i]) : flat[at[i] + k - 1] = seqs[i][k]

LEMMA Flattened ==
  ASSUME NEW S, NEW n \in Nat \ {0}, NEW seqs \in [1..n -> Seq(S)], Len(seqs) = n
  PROVE  /\ FlattenSeq(seqs) \in Seq(S)
         /\ \E at : LayOut(FlattenSeq(seqs), seqs, n, at)
<1>1. PICK flat : /\ FlattenSeq(seqs) = flat[n]
                  /\ \A i \in 1..n : /\ flat[i] \in Seq(S)
                                     /\ flat[i] = FlatStep(flat, seqs, i)
  <2>1. \E flat : Flattens(flat, seqs, n, S)
    BY FlattenObeys
  <2> QED
    BY <2>1 DEF Flattens
<1> DEFINE before == [i \in 1..(n + 1) |-> IF i = 1 THEN <<>> ELSE flat[i - 1]]
<1>2. \A i \in 1..(n + 1) : before[i] \in Seq(S) /\ Len(before[i]) \in Nat
  <2> TAKE i \in 1..(n + 1)
  <2>1. before[i] \in Seq(S)
    <3>1. CASE i = 1
      BY <3>1, EmptySeq
    <3>2. CASE i # 1
      <4>1. i - 1 \in 1..n
        BY <3>2
      <4> QED
        BY <1>1, <3>2, <4>1
    <3> QED
      BY <3>1, <3>2
  <2> HIDE DEF before
  <2> QED
    BY <2>1, LenProperties
<1>3. ASSUME NEW i \in 1..n
      PROVE  before[i + 1] = before[i] \o seqs[i]
  <2>1. i + 1 \in 1..(n + 1) /\ i + 1 # 1 /\ (i + 1) - 1 = i /\ i \in 1..(n + 1)
    OBVIOUS
  <2>2. before[i + 1] = flat[i]
    BY <2>1
  <2>3. CASE i = 1
    <3>1. before[i] = <<>> /\ seqs[i] \in Seq(S) /\ flat[i] = seqs[i]
      BY <1>1, <2>1, <2>3 DEF FlatStep
    <3> QED
      BY <2>2, <3>1, ConcatEmptySeq
  <2>4. CASE i # 1
    <3>1. before[i] = flat[i - 1] /\ flat[i] = flat[i - 1] \o seqs[i]
      BY <1>1, <2>1, <2>4 DEF FlatStep
    <3> QED
      BY <2>2, <3>1
  <2> QED
    BY <2>3, <2>4
<1>4. before[1] = <<>> /\ before[n + 1] = flat[n]
  OBVIOUS
<1> HIDE DEF before
<1>5. ASSUME NEW i \in 1..n
      PROVE  /\ Len(before[i + 1]) = Len(before[i]) + Len(seqs[i]) /\ Len(seqs[i]) \in Nat
             /\ \A j \in 1..Len(before[i]) : before[i + 1][j] = before[i][j]
             /\ \A k \in 1..Len(seqs[i]) : before[i + 1][Len(before[i]) + k] = seqs[i][k]
  <2> DEFINE s == before[i]
             t == seqs[i]
  <2>1. i \in 1..(n + 1)
    OBVIOUS
  <2>2. s \in Seq(S) /\ t \in Seq(S)
    BY <1>2, <2>1
  <2> HIDE DEF s, t
  <2>3. Len(s) \in Nat /\ Len(t) \in Nat
    BY <2>2, LenProperties
  <2>4. /\ Len(s \o t) = Len(s) + Len(t)
        /\ \A j \in 1..(Len(s) + Len(t)) : (s \o t)[j] = IF j <= Len(s) THEN s[j] ELSE t[j - Len(s)]
    BY <2>2, ConcatProperties
  <2> DEFINE st == s \o t
  <2> HIDE DEF st
  <2>5. \A j \in 1..(Len(s) + Len(t)) : st[j] = IF j <= Len(s) THEN s[j] ELSE t[j - Len(s)]
    BY <2>4 DEF st
  <2>6. \A j \in 1..Len(s) : st[j] = s[j]
    BY <2>3, <2>5
  <2>7. \A k \in 1..Len(t) : st[Len(s) + k] = t[k]
    <3> TAKE k \in 1..Len(t)
    <3>1. Len(s) + k \in 1..(Len(s) + Len(t)) /\ ~(Len(s) + k <= Len(s)) /\ (Len(s) + k) - Len(s) = k
      BY <2>3
    <3> QED
      BY <2>5, <3>1
  <2> QED
    BY <1>3, <2>3, <2>4, <2>6, <2>7 DEF s, t, st
<1> DEFINE whole == before[n + 1]
           Within(i) == /\ Len(before[i]) <= Len(whole)
                        /\ \A j \in 1..Len(before[i]) : whole[j] = before[i][j]
<1>6. \A i \in 1..(n + 1) : Within(i)
  <2> DEFINE Good == {m \in Nat : m <= n => Within(n + 1 - m)}
  <2>1. 0 \in Good
    <3>1. n + 1 - 0 = n + 1 /\ n + 1 \in 1..(n + 1)
      OBVIOUS
    <3>2. Len(before[n + 1]) \in Nat
      BY <1>2, <3>1
    <3> QED
      BY <3>1, <3>2
  <2>2. ASSUME NEW m \in Nat, m \in Good
        PROVE  m + 1 \in Good
    <3> SUFFICES ASSUME m + 1 <= n PROVE Within(n + 1 - (m + 1))
      OBVIOUS
    <3> DEFINE i == n - m
    <3>1. i \in 1..n /\ n + 1 - (m + 1) = i /\ n + 1 - m = i + 1 /\ i \in 1..(n + 1)
          /\ i + 1 \in 1..(n + 1) /\ n + 1 \in 1..(n + 1)
      OBVIOUS
    <3> HIDE DEF i
    <3>2. Within(i + 1)
      BY <2>2, <3>1
    <3>3. /\ Len(before[i + 1]) = Len(before[i]) + Len(seqs[i]) /\ Len(seqs[i]) \in Nat
          /\ \A j \in 1..Len(before[i]) : before[i + 1][j] = before[i][j]
      BY <1>5, <3>1
    <3>4. Len(before[i]) \in Nat /\ Len(before[i + 1]) \in Nat /\ Len(whole) \in Nat
      BY <1>2, <3>1
    <3>5. Len(before[i]) <= Len(before[i + 1]) /\ Len(before[i + 1]) <= Len(whole)
      <4> DEFINE a == Len(before[i])
                 b == Len(before[i + 1])
                 c == Len(seqs[i])
      <4>1. a \in Nat /\ b \in Nat /\ c \in Nat /\ b = a + c
        BY <3>3, <3>4
      <4> HIDE DEF a, b, c
      <4>2. a <= b
        BY <4>1
      <4>3. Len(before[i]) <= Len(before[i + 1])
        BY <4>2 DEF a, b
      <4> QED
        BY <3>2, <4>3
    <3>6. ASSUME NEW j \in 1..Len(before[i])
          PROVE  whole[j] = before[i][j]
      <4>1. j \in 1..Len(before[i + 1])
        BY <3>4, <3>5
      <4> QED
        BY <3>2, <3>3, <4>1
    <3>7. Within(i)
      BY <3>4, <3>5, <3>6
    <3> QED
      BY <3>1, <3>7
  <2> HIDE DEF Good
  <2>3. \A m \in Nat : m \in Good
    BY <2>1, <2>2, Induction
  <2> TAKE i \in 1..(n + 1)
  <2>4. n + 1 - i \in Nat /\ n + 1 - i <= n /\ n + 1 - (n + 1 - i) = i
    OBVIOUS
  <2> HIDE DEF Within
  <2> QED
    BY <2>3, <2>4 DEF Good
<1> DEFINE at == [i \in 1..(n + 1) |-> Len(before[i]) + 1]
<1>7. \A i \in 1..(n + 1) : at[i] = Len(before[i]) + 1
  OBVIOUS
<1> HIDE DEF at
<1>8. at[1] = 1 /\ at[n + 1] = Len(whole) + 1
  <2>1. 1 \in 1..(n + 1) /\ n + 1 \in 1..(n + 1) /\ Len(<<>>) = 0
    BY EmptySeq
  <2> QED
    BY <1>4, <1>7, <2>1
<1>9. ASSUME NEW i \in 1..n
      PROVE  /\ at[i] \in Nat \ {0} /\ at[i + 1] = at[i] + Len(seqs[i]) /\ at[i + 1] <= Len(whole) + 1
             /\ \A k \in 1..Len(seqs[i]) : whole[at[i] + k - 1] = seqs[i][k]
  <2>1. i \in 1..(n + 1) /\ i + 1 \in 1..(n + 1) /\ n + 1 \in 1..(n + 1)
    OBVIOUS
  <2>2. /\ at[i] = Len(before[i]) + 1 /\ at[i + 1] = Len(before[i + 1]) + 1
        /\ Len(before[i]) \in Nat /\ Len(before[i + 1]) \in Nat /\ Len(whole) \in Nat
    BY <1>2, <1>7, <2>1
  <2>3. /\ Len(before[i + 1]) = Len(before[i]) + Len(seqs[i]) /\ Len(seqs[i]) \in Nat
        /\ \A k \in 1..Len(seqs[i]) : before[i + 1][Len(before[i]) + k] = seqs[i][k]
    BY <1>5
  <2>4. Within(i + 1)
    BY <1>6, <2>1
  <2>5. ASSUME NEW k \in 1..Len(seqs[i])
        PROVE  whole[at[i] + k - 1] = seqs[i][k]
    <3>1. at[i] + k - 1 = Len(before[i]) + k /\ Len(before[i]) + k \in 1..Len(before[i + 1])
      BY <2>2, <2>3
    <3> QED
      BY <2>3, <2>4, <3>1
  <2> QED
    BY <2>2, <2>3, <2>4, <2>5
<1>10. whole \in Seq(S) /\ whole = FlattenSeq(seqs)
  <2>1. n + 1 \in 1..(n + 1)
    OBVIOUS
  <2> QED
    BY <1>1, <1>2, <1>4, <2>1
<1> HIDE DEF whole
<1>11. LayOut(whole, seqs, n, at)
  BY <1>8, <1>9 DEF LayOut
<1> QED
  BY <1>10, <1>11

\* What the scanner meets in the encoding of a part.
LEMMA PartEncoded ==
  ASSUME NEW part \in Parts
  PROVE  /\ EncodePart(part) \in Seq(Tokens) /\ Len(EncodePart(part)) = 6 + Len(part.payload)
         /\ EncodePart(part)[1] = Server!Delimiter /\ EncodePart(part)[2] = Server!Crlf
         /\ \A k \in 1..(3 + Len(part.payload)) : EncodePart(part)[2 + k] = Content(part)[k]
         /\ EncodePart(part)[6 + Len(part.payload)] = Server!Crlf
<1> DEFINE top == <<Server!Delimiter, Server!Crlf, part.header, Server!Crlf, Server!Crlf>>
           mid == part.payload
           end == <<Server!Crlf>>
           L == Len(mid)
           two == top \o mid
           all == two \o end
           c == Content(part)
<1>1. part.header \in Tokens /\ mid \in Seq(Tokens) /\ L \in Nat
  BY LenProperties DEF Parts
<1>2. /\ top \in Seq(Tokens) /\ Len(top) = 5 /\ top[1] = Server!Delimiter /\ top[2] = Server!Crlf
      /\ top[3] = part.header /\ top[4] = Server!Crlf /\ top[5] = Server!Crlf
  BY <1>1, TokensDiffer
<1>3. end \in Seq(Tokens) /\ Len(end) = 1 /\ end[1] = Server!Crlf
  BY TokensDiffer
<1>4. /\ Len(c) = 3 + L /\ c[1] = part.header /\ c[2] = Server!Crlf /\ c[3] = Server!Crlf
      /\ \A k \in 1..L : c[3 + k] = mid[k]
  BY ContentOfPart
<1>5. EncodePart(part) = all
  BY DEF EncodePart
<1> HIDE DEF top, mid, end, c, all
<1>6. /\ two \in Seq(Tokens) /\ Len(two) = Len(top) + L
      /\ \A i \in 1..(Len(top) + L) : two[i] = IF i <= Len(top) THEN top[i] ELSE mid[i - Len(top)]
  BY <1>1, <1>2, ConcatProperties
<1> HIDE DEF two, L
<1>7. /\ all \in Seq(Tokens) /\ Len(all) = Len(two) + Len(end)
      /\ \A i \in 1..(Len(two) + Len(end)) : all[i] = IF i <= Len(two) THEN two[i] ELSE end[i - Len(two)]
  <2>1. /\ two \o end \in Seq(Tokens) /\ Len(two \o end) = Len(two) + Len(end)
        /\ \A i \in 1..(Len(two) + Len(end)) :
             (two \o end)[i] = IF i <= Len(two) THEN two[i] ELSE end[i - Len(two)]
    <3>1. two \in Seq(Tokens) /\ end \in Seq(Tokens)
      BY <1>3, <1>6
    <3> QED
      BY <3>1, ConcatProperties
  <2> QED
    BY <2>1 DEF all
<1>8. Len(two) = 5 + L /\ Len(all) = 6 + L
  BY <1>1, <1>2, <1>3, <1>6, <1>7
<1>9. \A i \in 1..(5 + L) : two[i] = IF i <= 5 THEN top[i] ELSE mid[i - 5]
  BY <1>2, <1>6
<1>10. \A i \in 1..(6 + L) : all[i] = IF i <= 5 + L THEN two[i] ELSE end[i - (5 + L)]
  BY <1>3, <1>7, <1>8
<1>11. \A i \in 1..(5 + L) : all[i] = IF i <= 5 THEN top[i] ELSE mid[i - 5]
  BY <1>1, <1>9, <1>10
<1>12. all[1] = Server!Delimiter /\ all[2] = Server!Crlf
  <2>1. 1 \in 1..(5 + L) /\ 2 \in 1..(5 + L)
    BY <1>1
  <2> QED
    BY <1>2, <1>11, <2>1
<1>13. all[6 + L] = Server!Crlf
  <2>1. 6 + L \in 1..(6 + L) /\ ~(6 + L <= 5 + L) /\ (6 + L) - (5 + L) = 1
    BY <1>1
  <2> QED
    BY <1>3, <1>10, <2>1
<1>14. ASSUME NEW k \in 1..(3 + L)
       PROVE  all[2 + k] = c[k]
  <2>1. 2 + k \in 1..(5 + L)
    BY <1>1
  <2>2. CASE k \in 1..3
    <3>1. all[2 + k] = top[2 + k]
      BY <1>11, <2>1, <2>2
    <3>2. k = 1 \/ k = 2 \/ k = 3
      BY <2>2
    <3>3. 2 + 1 = 3 /\ 2 + 2 = 4 /\ 2 + 3 = 5
      OBVIOUS
    <3> QED
      BY <1>2, <1>4, <3>1, <3>2, <3>3
  <2>3. CASE k \notin 1..3
    <3>1. ~(2 + k <= 5) /\ (2 + k) - 5 = k - 3 /\ k - 3 \in 1..L /\ 3 + (k - 3) = k
      BY <1>1, <2>3
    <3>2. all[2 + k] = mid[k - 3]
      BY <1>11, <2>1, <3>1
    <3>3. c[3 + (k - 3)] = mid[k - 3]
      BY <1>4, <3>1
    <3> QED
      BY <3>1, <3>2, <3>3
  <2> QED
    BY <2>2, <2>3
<1> QED
  BY <1>5, <1>7, <1>8, <1>12, <1>13, <1>14 DEF L, mid, c

\* Where the parts of a form begin in its encoding, and what ends it.
Begins(form, at) ==
  LET n == Len(form.parts)
      body == Encode(form) IN
  /\ at[1] = 1 /\ at[n + 1] \in Nat \ {0}
  /\ \A i \in 1..n :
       LET code == EncodePart(form.parts[i]) IN
       /\ at[i] \in Nat \ {0} /\ at[i + 1] = at[i] + Len(code)
       /\ at[i + 1] <= Len(body) + 1
       /\ \A k \in 1..Len(code) : body[at[i] + k - 1] = code[k]
  /\ form.cut => Len(body) + 1 = at[n + 1]
  /\ ~form.cut => /\ Len(body) = at[n + 1] + 1
                  /\ body[at[n + 1]] = Server!Delimiter
                  /\ body[at[n + 1] + 1] = Server!Dashes

\* The encoding of a form is made of its parts, one behind the other, and its end.
LEMMA FormEncoded ==
  ASSUME NEW form, WellMade(form)
  PROVE  Encode(form) \in Seq(Tokens) /\ \E at : Begins(form, at)
<1> DEFINE n == Len(form.parts)
           seqs == [i \in 1..n |-> EncodePart(form.parts[i])]
           flat == FlattenSeq(seqs)
           end == IF form.cut THEN <<>> ELSE <<Server!Delimiter, Server!Dashes>>
           body == flat \o end
<1>1. /\ form.parts \in Seq(Parts) /\ n \in Nat /\ form.cut \in BOOLEAN
      /\ \A i \in 1..n : form.parts[i] \in Parts
  BY LenProperties, ElementOfSeq DEF WellMade, Parts
<1>2. Encode(form) = body
  BY DEF Encode
<1> HIDE DEF n
<1>3. seqs \in [1..n -> Seq(Tokens)] /\ \A i \in 1..n : seqs[i] = EncodePart(form.parts[i])
  BY <1>1, PartEncoded
<1>4. Len(seqs) = n
  BY ONLY <1>1
<1> HIDE DEF seqs
<1>5. end \in Seq(Tokens) /\ Len(end) = IF form.cut THEN 0 ELSE 2
  BY <1>1, TokensDiffer, EmptySeq
<1>6. ~form.cut => end[1] = Server!Delimiter /\ end[2] = Server!Dashes
  OBVIOUS
<1> HIDE DEF end, flat
<1>7. /\ flat \in Seq(Tokens)
      /\ \E at : /\ at[1] = 1 /\ at[n + 1] = Len(flat) + 1
                 /\ n # 0 => LayOut(flat, seqs, n, at)
  <2>1. CASE n = 0
    <3>1. flat = seqs
      BY <1>4, <2>1 DEF flat, FlattenSeq
    <3>2. seqs = <<>>
      BY <1>3, <2>1
    <3>3. flat \in Seq(Tokens) /\ Len(flat) = 0
      BY <3>1, <3>2, EmptySeq
    <3> DEFINE at == [i \in {1} |-> 1]
    <3>4. at[1] = 1 /\ at[n + 1] = Len(flat) + 1
      BY <2>1, <3>3
    <3> HIDE DEF at
    <3> QED
      BY <2>1, <3>3, <3>4
  <2>2. CASE n # 0
    <3>1. n \in Nat \ {0}
      BY <1>1, <2>2
    <3>2. flat \in Seq(Tokens) /\ \E at : LayOut(flat, seqs, n, at)
      BY <1>3, <1>4, <3>1, Flattened, Zenon DEF flat
    <3> QED
      BY <3>2 DEF LayOut
  <2> QED
    BY <2>1, <2>2
<1>8. PICK at : /\ at[1] = 1 /\ at[n + 1] = Len(flat) + 1
                /\ n # 0 => LayOut(flat, seqs, n, at)
  BY <1>7
<1> DEFINE F == Len(flat)
           E == Len(end)
<1>9. F \in Nat /\ E \in Nat
  BY <1>5, <1>7, LenProperties
<1>10. /\ body \in Seq(Tokens) /\ Len(body) = F + E
       /\ \A i \in 1..(F + E) : body[i] = IF i <= F THEN flat[i] ELSE end[i - F]
  BY <1>5, <1>7, ConcatProperties
<1> HIDE DEF F, E, body
<1>11. ASSUME NEW i \in 1..n
       PROVE  LET code == EncodePart(form.parts[i]) IN
              /\ at[i] \in Nat \ {0} /\ at[i + 1] = at[i] + Len(code)
              /\ at[i + 1] <= Len(body) + 1
              /\ \A k \in 1..Len(code) : body[at[i] + k - 1] = code[k]
  <2> DEFINE code == EncodePart(form.parts[i])
  <2>1. n # 0 /\ seqs[i] = code /\ Len(code) \in Nat
    BY <1>1, <1>3, PartEncoded, LenProperties
  <2> HIDE DEF code
  <2>2. /\ at[i] \in Nat \ {0} /\ at[i + 1] = at[i] + Len(code) /\ at[i + 1] <= F + 1
        /\ \A k \in 1..Len(code) : flat[at[i] + k - 1] = code[k]
    BY <1>8, <2>1 DEF LayOut, F
  <2>3. at[i + 1] <= Len(body) + 1
    BY <1>9, <1>10, <2>1, <2>2
  <2>4. ASSUME NEW k \in 1..Len(code)
        PROVE  body[at[i] + k - 1] = code[k]
    <3>1. at[i] + k - 1 \in 1..(F + E) /\ at[i] + k - 1 <= F
      BY <1>9, <2>1, <2>2
    <3> QED
      BY <1>10, <2>2, <3>1
  <2> QED
    BY <2>2, <2>3, <2>4 DEF code
<1>12. ASSUME ~form.cut
       PROVE  /\ Len(body) = at[n + 1] + 1
              /\ body[at[n + 1]] = Server!Delimiter /\ body[at[n + 1] + 1] = Server!Dashes
  <2>1. E = 2 /\ at[n + 1] = F + 1
    BY <1>5, <1>8, <1>12 DEF E, F
  <2>2. /\ F + 1 \in 1..(F + E) /\ ~(F + 1 <= F) /\ (F + 1) - F = 1
        /\ F + 2 \in 1..(F + E) /\ ~(F + 2 <= F) /\ (F + 2) - F = 2 /\ (F + 1) + 1 = F + 2
    BY <1>9, <2>1
  <2>3. body[F + 1] = end[1] /\ body[F + 2] = end[2]
    BY <1>10, <2>2
  <2> QED
    BY <1>6, <1>9, <1>10, <1>12, <2>1, <2>2, <2>3
<1>13. form.cut => Len(body) + 1 = at[n + 1]
  BY <1>5, <1>8, <1>9, <1>10 DEF E, F
<1>14. at[n + 1] \in Nat \ {0}
  BY <1>8, <1>9 DEF F
<1>15. Begins(form, at)
  BY <1>2, <1>8, <1>11, <1>12, <1>13, <1>14 DEF Begins, n
<1> QED
  BY <1>2, <1>10, <1>15

----------------------------------------------------------------------------
(* The scan. *)

\* What parseMultipartFile looks at when its cursor is at c: the next delimiter, the
\* part behind it, the delimiter that ends the part.
ScanStart(body, c) == Server!IndexOf(body, <<Server!Delimiter>>, c)

ScanPart(body, c) ==
  IF Server!IsAt(body, ScanStart(body, c) + 1, Server!Crlf)
  THEN ScanStart(body, c) + 2 ELSE ScanStart(body, c) + 1

ScanNext(body, c) == Server!IndexOf(body, <<Server!Delimiter>>, ScanPart(body, c))

ScanFile(body, c) ==
  Server!FileOfPart(Server!Chop(SubSeq(body, ScanPart(body, c), ScanNext(body, c) - 1)))

ScanStops(body, c) ==
  \/ ScanStart(body, c) = 0
  \/ Server!IsAt(body, ScanStart(body, c) + 1, Server!Dashes)
  \/ ScanNext(body, c) = 0

ScanResult(scan, body, c) ==
  IF ScanStops(body, c) THEN Server!NoFile
  ELSE IF ScanFile(body, c).name # Server!NoName THEN ScanFile(body, c)
       ELSE scan[ScanNext(body, c)]

\* The cursor moves on, and stays in the body.
LEMMA CursorMoves ==
  ASSUME NEW body \in Seq(Tokens), NEW c \in 1..(Len(body) + 1), ~ScanStops(body, c)
  PROVE  ScanNext(body, c) \in (c + 1)..Len(body)
<1> DEFINE start == ScanStart(body, c)
           part == ScanPart(body, c)
           next == ScanNext(body, c)
<1>1. c \in Nat \ {0} /\ Len(body) \in Nat
  BY LenProperties
<1>2. start = 0 \/ start \in c..Len(body)
  BY <1>1, FoundWithin DEF ScanStart
<1>3. start \in c..Len(body)
  BY <1>2 DEF ScanStops
<1>4. part = start + 1 \/ part = start + 2
  BY DEF ScanPart
<1> HIDE DEF start, part
<1>5. part \in Nat \ {0} /\ part >= c + 1
  BY <1>1, <1>3, <1>4
<1>6. next = 0 \/ next \in part..Len(body)
  BY <1>5, FoundWithin DEF ScanNext, part
<1>7. next # 0
  BY DEF ScanStops
<1> HIDE DEF next
<1>8. next \in (c + 1)..Len(body)
  BY <1>1, <1>5, <1>6, <1>7
<1> QED
  BY <1>8 DEF next

\* The recursive definition of parseMultipartFile defines a function.
LEMMA ScanObeys ==
  ASSUME NEW body \in Seq(Tokens)
  PROVE  \E scan : /\ Server!parseMultipartFile(body) = scan[1]
                   /\ \A c \in 1..(Len(body) + 1) : scan[c] = ScanResult(scan, body, c)
<1> DEFINE M == Len(body) + 1
           Fun(g) == g = [c \in 1..M |-> g[c]]
           Built(m) == \E g : Fun(g) /\ \A c \in (M - m + 1)..M : g[c] = ScanResult(g, body, c)
           Good == {m \in Nat : m <= M => Built(m)}
<1>1. M \in Nat \ {0}
  BY LenProperties
<1>2. 0 \in Good
  <2> DEFINE g == [c \in 1..M |-> 0]
  <2>1. Fun(g) /\ \A c \in (M - 0 + 1)..M : g[c] = ScanResult(g, body, c)
    BY <1>1
  <2> HIDE DEF g, Fun
  <2>2. Built(0)
    BY <2>1
  <2> HIDE DEF Built
  <2> QED
    BY <2>2
<1>3. ASSUME NEW m \in Nat, m \in Good
      PROVE  m + 1 \in Good
  <2>1. ASSUME m + 1 <= M
        PROVE  Built(m + 1)
    <3>1. Built(m)
      <4>1. m <= M
        BY <1>1, <2>1
      <4> HIDE DEF Built, M
      <4> QED
        BY <1>3, <4>1
    <3>2. PICK g : Fun(g) /\ \A c \in (M - m + 1)..M : g[c] = ScanResult(g, body, c)
      BY <3>1
    <3> DEFINE b == M - m
               h == [c \in 1..M |-> IF c = b THEN ScanResult(g, body, b) ELSE g[c]]
    <3>3. b \in 1..M
      BY <1>1, <2>1
    <3>4. Fun(h) /\ h[b] = ScanResult(g, body, b) /\ \A c \in 1..M : c # b => h[c] = g[c]
      BY <3>3
    <3> HIDE DEF h, b, Fun
    <3>5. ASSUME NEW c \in b..M
          PROVE  ScanResult(h, body, c) = ScanResult(g, body, c)
      <4>1. CASE ScanStops(body, c)
        BY <4>1 DEF ScanResult
      <4>2. CASE ~ScanStops(body, c)
        <5>1. c \in 1..M
          BY <1>1, <3>3
        <5>2. ScanNext(body, c) \in (c + 1)..Len(body)
          BY <4>2, <5>1, CursorMoves
        <5>3. ScanNext(body, c) \in 1..M /\ ScanNext(body, c) # b
          BY <1>1, <3>3, <5>1, <5>2
        <5>4. h[ScanNext(body, c)] = g[ScanNext(body, c)]
          BY <3>4, <5>3
        <5> QED
          BY <5>4 DEF ScanResult
      <4> QED
        BY <4>1, <4>2
    <3>6. \A c \in b..M : h[c] = ScanResult(h, body, c)
      <4> TAKE c \in b..M
      <4>1. CASE c = b
        BY <3>4, <3>5, <4>1
      <4>2. CASE c # b
        <5>1. c \in (M - m + 1)..M /\ c \in 1..M
          BY <1>1, <3>3, <4>2 DEF b
        <5> QED
          BY <3>2, <3>4, <3>5, <4>2, <5>1
      <4> QED
        BY <4>1, <4>2
    <3>7. M - (m + 1) + 1 = b
      BY <1>1 DEF b
    <3> QED
      BY <3>4, <3>6, <3>7
  <2> HIDE DEF Built
  <2> QED
    BY <2>1
<1>4. Built(M)
  <2> HIDE DEF Good, Built, M
  <2>1. M \in Good
    BY <1>1, <1>2, <1>3, Induction
  <2> QED
    BY <1>1, <2>1 DEF Good
<1>5. PICK g : Fun(g) /\ \A c \in 1..M : g[c] = ScanResult(g, body, c)
  <2>1. M - M + 1 = 1
    BY <1>1
  <2> HIDE DEF M, Fun
  <2> QED
    BY <1>4, <2>1
<1> DEFINE Definition(f) == f = [c \in 1..M |-> ScanResult(f, body, c)]
           scan == CHOOSE f : Definition(f)
<1>6. Definition(g)
  BY <1>5
<1>7. Server!parseMultipartFile(body) = scan[1]
  BY Zenon DEF Server!parseMultipartFile, ScanResult, ScanStops, ScanFile, ScanNext, ScanPart, ScanStart
<1> HIDE DEF Definition
<1>8. Definition(scan)
  BY <1>6, Zenon
<1> HIDE DEF scan
<1>9. \A c \in 1..M : scan[c] = ScanResult(scan, body, c)
  BY <1>8 DEF Definition
<1> QED
  BY <1>7, <1>9

----------------------------------------------------------------------------
(* The scan of a form. *)

\* The scanner at the beginning of a part: what it finds up to the next delimiter.
LEMMA PartScanned ==
  ASSUME NEW form, WellMade(form), NEW at, Begins(form, at), NEW i \in 1..Len(form.parts)
  PROVE  LET body == Encode(form)
             part == form.parts[i]
             cut == i = Len(form.parts) /\ form.cut IN
         /\ at[i] \in 1..Len(body)
         /\ ScanStops(body, at[i]) <=> cut
         /\ ~cut => /\ ScanNext(body, at[i]) = at[i + 1]
                    /\ ScanFile(body, at[i]) =
                         IF IsFile(part) THEN FileOf(part) ELSE Server!NoFile
<1> DEFINE n == Len(form.parts)
           body == Encode(form)
           part == form.parts[i]
           cut == i = n /\ form.cut
           L == Len(part.payload)
           code == EncodePart(part)
           c == Content(part)
           a == at[i]
           z == at[i + 1]
<1>1. n \in Nat /\ part \in Parts /\ form.cut \in BOOLEAN
  BY LenProperties, ElementOfSeq DEF WellMade, Parts
<1>2. /\ part.header # Server!Delimiter /\ part.header # Server!Crlf
      /\ \A k \in 1..L : part.payload[k] # Server!Delimiter
  BY DEF WellMade
<1>3. body \in Seq(Tokens) /\ Len(body) \in Nat /\ DOMAIN body = 1..Len(body)
  BY FormEncoded, LenProperties
<1>4. /\ code \in Seq(Tokens) /\ Len(code) = 6 + L /\ L \in Nat
      /\ code[1] = Server!Delimiter /\ code[2] = Server!Crlf
      /\ \A k \in 1..(3 + L) : code[2 + k] = c[k]
      /\ code[6 + L] = Server!Crlf
  BY <1>1, PartEncoded, LenProperties DEF Parts
<1>5. /\ c \in Seq(Tokens) /\ Len(c) = 3 + L /\ c[1] = part.header
      /\ c[2] = Server!Crlf /\ c[3] = Server!Crlf
      /\ \A k \in 1..L : c[3 + k] = part.payload[k]
  BY <1>1, ContentOfPart
<1>6. /\ a \in Nat \ {0} /\ z = a + Len(code) /\ z <= Len(body) + 1
      /\ \A k \in 1..Len(code) : body[a + k - 1] = code[k]
  BY DEF Begins
<1>7. IF cut THEN z = Len(body) + 1 ELSE z <= Len(body) /\ body[z] = Server!Delimiter
  <2>1. CASE i = n
    <3>1. i + 1 = n + 1
      BY <2>1
    <3>2. /\ form.cut => Len(body) + 1 = z
          /\ ~form.cut => Len(body) = z + 1 /\ body[z] = Server!Delimiter
      BY <3>1 DEF Begins
    <3> HIDE DEF z, body
    <3> QED
      BY <1>1, <1>3, <1>4, <1>6, <2>1, <3>2
  <2>2. CASE i # n
    <3>1. i + 1 \in 1..n
      <4>1. i \in 1..n
        OBVIOUS
      <4> HIDE DEF n
      <4> QED
        BY <1>1, <2>2, <4>1
    <3> DEFINE other == EncodePart(form.parts[i + 1])
    <3>2. form.parts[i + 1] \in Parts
      BY <3>1, ElementOfSeq DEF WellMade, Parts
    <3>3. other[1] = Server!Delimiter /\ Len(other) = 6 + Len(form.parts[i + 1].payload)
          /\ Len(form.parts[i + 1].payload) \in Nat
      BY <3>2, PartEncoded, LenProperties DEF Parts
    <3>4. /\ z \in Nat \ {0} /\ at[i + 1 + 1] = z + Len(other) /\ at[i + 1 + 1] <= Len(body) + 1
          /\ \A k \in 1..Len(other) : body[z + k - 1] = other[k]
      BY <3>1 DEF Begins
    <3> HIDE DEF other, z, body
    <3> DEFINE m == Len(other)
               next == at[i + 1 + 1]
               p == Len(form.parts[i + 1].payload)
               b == Len(body)
    <3> HIDE DEF m, next, p, b
    <3>5. 1 \in 1..m /\ z + 1 - 1 = z /\ z <= b
      <4>1. m = 6 + p /\ p \in Nat /\ b \in Nat /\ z \in Nat \ {0} /\ next = z + m /\ next <= b + 1
        BY <1>3, <3>3, <3>4 DEF m, next, p, b
      <4> QED
        BY <4>1
    <3>6. body[z + 1 - 1] = other[1] /\ z <= Len(body)
      BY <3>4, <3>5 DEF m, b
    <3> QED
      BY <2>2, <3>3, <3>5, <3>6
  <2> QED
    BY <2>1, <2>2
<1> HIDE DEF cut, L, code, c, a, z, body, part, n
<1>8. a \in 1..Len(body) /\ a + 1 \in 1..Len(body) /\ a + 2 \in Nat \ {0} /\ z = a + (6 + L)
      /\ a + 2 <= z
  BY <1>3, <1>4, <1>6
<1>9. body[a] = Server!Delimiter /\ body[a + 1] = Server!Crlf
  <2>1. 1 \in 1..(6 + L) /\ 2 \in 1..(6 + L) /\ a + 1 - 1 = a /\ a + 2 - 1 = a + 1
    BY <1>4, <1>6
  <2> QED
    BY <1>4, <1>6, <2>1
<1>10. \A k \in 1..(3 + L) : body[a + 1 + k] = c[k]
  <2> TAKE k \in 1..(3 + L)
  <2>1. 2 + k \in 1..(6 + L) /\ a + (2 + k) - 1 = a + 1 + k
    BY <1>4, <1>6
  <2> QED
    BY <1>4, <1>6, <2>1
<1>11. body[a + 5 + L] = Server!Crlf
  <2>1. 6 + L \in 1..(6 + L) /\ a + (6 + L) - 1 = a + 5 + L
    BY <1>4, <1>6
  <2> QED
    BY <1>4, <1>6, <2>1
<1>12. \A k \in 1..(3 + L) : c[k] # Server!Delimiter
  <2> TAKE k \in 1..(3 + L)
  <2>1. CASE k \in 1..3
    <3>1. k = 1 \/ k = 2 \/ k = 3
      BY <2>1
    <3> QED
      BY <1>2, <1>5, <3>1, TokensDiffer
  <2>2. CASE k \notin 1..3
    <3>1. k - 3 \in 1..L /\ 3 + (k - 3) = k
      BY <1>4, <2>2
    <3>2. c[k] = part.payload[k - 3] /\ part.payload[k - 3] # Server!Delimiter
      BY <1>2, <1>5, <3>1 DEF L
    <3> QED
      BY <3>2
  <2> QED
    BY <2>1, <2>2
<1>13. \A j \in (a + 2)..(z - 1) : body[j] # Server!Delimiter
  <2> TAKE j \in (a + 2)..(z - 1)
  <2>1. CASE j = a + 5 + L
    BY <1>11, <2>1, TokensDiffer
  <2>2. CASE j # a + 5 + L
    <3> DEFINE k == j - (a + 1)
    <3>1. k \in 1..(3 + L) /\ a + 1 + k = j
      BY <1>4, <1>6, <1>8, <2>2
    <3> HIDE DEF k
    <3> QED
      BY <1>10, <1>12, <3>1
  <2> QED
    BY <2>1, <2>2
<1>14. ScanStart(body, a) = a
  <2>1. body \in Seq(Tokens) /\ body[a] = Server!Delimiter
    BY <1>3, <1>9
  <2>2. a \in Nat \ {0} /\ a \in a..Len(body)
    BY <1>3, <1>8
  <2>3. \A j \in a..(a - 1) : body[j] # Server!Delimiter
    BY <2>2
  <2>4. Server!IndexOf(body, <<Server!Delimiter>>, a) = a
    BY <2>1, <2>2, <2>3, FindsToken, Zenon
  <2> QED
    BY <2>4 DEF ScanStart
<1>15. ScanPart(body, a) = a + 2 /\ ~Server!IsAt(body, a + 1, Server!Dashes)
  BY <1>3, <1>8, <1>9, <1>14, TokensDiffer DEF ScanPart, Server!IsAt
<1>16. ASSUME cut
       PROVE  ScanNext(body, a) = 0
  <2>1. \A j \in (a + 2)..Len(body) : body[j] # Server!Delimiter
    <3>1. z - 1 = Len(body)
      BY <1>3, <1>7, <1>16
    <3> QED
      BY <1>13, <3>1
  <2> QED
    BY <1>3, <1>8, <1>15, <2>1, FindsNoToken DEF ScanNext
<1>17. ASSUME ~cut
       PROVE  ScanNext(body, a) = z
  <2>1. z \in (a + 2)..Len(body) /\ body[z] = Server!Delimiter
    BY <1>3, <1>7, <1>8, <1>17
  <2> DEFINE f == a + 2
  <2>2. f \in Nat \ {0} /\ z \in f..Len(body) /\ \A j \in f..(z - 1) : body[j] # Server!Delimiter
    BY <1>8, <1>13, <2>1
  <2>3. ScanNext(body, a) = Server!IndexOf(body, <<Server!Delimiter>>, f)
    BY <1>15 DEF ScanNext
  <2> HIDE DEF f
  <2> QED
    BY <1>3, <2>1, <2>2, <2>3, FindsToken
<1>18. ScanStops(body, a) <=> cut
  <2>1. a # 0 /\ z # 0
    BY <1>4, <1>6, <1>8
  <2> QED
    BY <1>14, <1>15, <1>16, <1>17, <2>1 DEF ScanStops
<1>19. Server!Chop(SubSeq(body, a + 2, z - 1)) = c
  <2> DEFINE s == SubSeq(body, a + 2, z - 1)
  <2>1. /\ s \in Seq(Tokens) /\ Len(s) = 4 + L
        /\ \A k \in 1..(4 + L) : s[k] = body[a + 1 + k]
    <3>1. \A j \in (a + 2)..(z - 1) : body[j] \in Tokens
      <4>1. (a + 2)..(z - 1) \subseteq 1..Len(body)
        BY <1>3, <1>6, <1>8
      <4> QED
        BY <1>3, <4>1, ElementOfSeq
    <3>2. a + 2 \in Int /\ z - 1 \in Int /\ a + 2 <= z - 1 /\ (z - 1) - (a + 2) + 1 = 4 + L
      BY <1>4, <1>6, <1>8
    <3>3. /\ s \in Seq(Tokens) /\ Len(s) = (z - 1) - (a + 2) + 1
          /\ \A k \in 1..((z - 1) - (a + 2) + 1) : s[k] = body[(a + 2) + k - 1]
      BY <3>1, <3>2, SubSeqProperties
    <3> HIDE DEF s
    <3>4. \A k \in 1..(4 + L) : (a + 2) + k - 1 = a + 1 + k
      BY <1>4, <1>6
    <3> QED
      BY <3>2, <3>3, <3>4
  <2> HIDE DEF s
  <2>2. Server!IsAt(s, Len(s), Server!Crlf)
    <3>1. 4 + L \in 1..(4 + L) /\ a + 1 + (4 + L) = a + 5 + L
      BY <1>4, <1>6
    <3>2. DOMAIN s = 1..(4 + L)
      BY <2>1, LenProperties
    <3> QED
      BY <1>11, <2>1, <3>1, <3>2 DEF Server!IsAt
  <2> DEFINE front == SubSeq(s, 1, Len(s) - 1)
  <2>3. /\ front \in Seq(Tokens) /\ Len(front) = 3 + L
        /\ \A k \in 1..(3 + L) : front[k] = s[k]
    <3>1. Len(s) - 1 = 3 + L /\ 1 \in Int /\ 3 + L \in Int /\ 1 <= 3 + L
          /\ (3 + L) - 1 + 1 = 3 + L
      BY <1>4, <2>1
    <3>2. \A j \in 1..(3 + L) : s[j] \in Tokens
      <4>1. 1..(3 + L) \subseteq 1..Len(s)
        BY <1>4, <2>1
      <4> QED
        BY <2>1, <4>1, ElementOfSeq
    <3>3. front = SubSeq(s, 1, 3 + L)
      BY <3>1
    <3> HIDE DEF front
    <3>4. /\ front \in Seq(Tokens) /\ Len(front) = (3 + L) - 1 + 1
          /\ \A k \in 1..((3 + L) - 1 + 1) : front[k] = s[1 + k - 1]
      BY <3>1, <3>2, <3>3, SubSeqProperties
    <3>5. \A k \in 1..(3 + L) : 1 + k - 1 = k
      OBVIOUS
    <3> QED
      BY <3>1, <3>4, <3>5
  <2>4. Server!Chop(s) = front
    BY <2>2 DEF Server!Chop, Server!Front
  <2> HIDE DEF front
  <2>5. \A k \in 1..Len(front) : front[k] = c[k]
    <3>1. \A k \in 1..(3 + L) : k \in 1..(4 + L)
      BY <1>4
    <3> QED
      BY <1>10, <2>1, <2>3, <3>1
  <2>6. front = c
    BY <1>5, <2>3, <2>5, SeqEqual
  <2> QED
    BY <2>4, <2>6 DEF s
<1>20. ASSUME ~cut
       PROVE  ScanFile(body, a) = IF IsFile(part) THEN FileOf(part) ELSE Server!NoFile
  <2>1. ScanFile(body, a) = Server!FileOfPart(c)
    BY <1>15, <1>17, <1>19, <1>20 DEF ScanFile
  <2>2. Server!FileOfPart(c) = IF IsFile(part) THEN FileOf(part) ELSE Server!NoFile
    BY <1>1, <1>2, PartIsRead DEF c
  <2> QED
    BY <2>1, <2>2
<1> QED
  BY <1>8, <1>17, <1>18, <1>20 DEF cut, a, z, body, part, n

\* At the end of a form the scanner stops.
LEMMA EndScanned ==
  ASSUME NEW form, WellMade(form), NEW at, Begins(form, at)
  PROVE  LET end == at[Len(form.parts) + 1] IN
         /\ end \in 1..(Len(Encode(form)) + 1)
         /\ ScanStops(Encode(form), end)
<1> DEFINE body == Encode(form)
           end == at[Len(form.parts) + 1]
<1>1. body \in Seq(Tokens) /\ Len(body) \in Nat /\ DOMAIN body = 1..Len(body)
      /\ form.cut \in BOOLEAN
  BY FormEncoded, LenProperties DEF WellMade
<1>2. /\ end \in Nat \ {0}
      /\ form.cut => Len(body) + 1 = end
      /\ ~form.cut => /\ Len(body) = end + 1
                      /\ body[end] = Server!Delimiter /\ body[end + 1] = Server!Dashes
  BY DEF Begins
<1> HIDE DEF body, end
<1> DEFINE b == Len(body)
<1> HIDE DEF b
<1>3. end \in 1..(b + 1) /\ (~form.cut => end \in end..b /\ end + 1 \in 1..b)
  <2>1. /\ b \in Nat /\ end \in Nat \ {0} /\ form.cut \in BOOLEAN
        /\ form.cut => b + 1 = end
        /\ ~form.cut => b = end + 1
    BY <1>1, <1>2 DEF b
  <2>2. CASE form.cut
    BY <2>1, <2>2
  <2>3. CASE ~form.cut
    BY <2>1, <2>3
  <2> QED
    BY <2>1, <2>2, <2>3
<1>4. CASE form.cut
  <2>1. \A j \in end..Len(body) : body[j] # Server!Delimiter
    BY <1>1, <1>2, <1>4
  <2>2. ScanStart(body, end) = 0
    BY <1>1, <1>2, <2>1, FindsNoToken DEF ScanStart
  <2> QED
    BY <1>3, <2>2 DEF ScanStops, body, end, b
<1>5. CASE ~form.cut
  <2>1. end \in end..Len(body) /\ end + 1 \in 1..Len(body)
    BY <1>3, <1>5 DEF b
  <2>2. ScanStart(body, end) = end
    <3>1. \A j \in end..(end - 1) : body[j] # Server!Delimiter
      BY <1>2
    <3> QED
      BY <1>1, <1>2, <1>5, <2>1, <3>1, FindsToken DEF ScanStart
  <2>3. Server!IsAt(body, end + 1, Server!Dashes)
    BY <1>1, <1>2, <1>5, <2>1 DEF Server!IsAt
  <2> QED
    BY <1>3, <2>2, <2>3 DEF ScanStops, body, end, b
<1> QED
  BY <1>1, <1>4, <1>5

\* What the scanner answers from the beginning of part i on: the first file part from
\* there, or nothing with a name.
FilesFrom(form, i) == {k \in FileParts(form) : k >= i}

ReadsFrom(form, i, file) ==
  /\ FilesFrom(form, i) = {} => file.name = Server!NoName
  /\ \A k \in FilesFrom(form, i) :
       (\A m \in FilesFrom(form, i) : k <= m) => file = FileOf(form.parts[k])

\* Which parts count as files.
LEMMA FilePartsAre ==
  ASSUME NEW form, WellMade(form), NEW i \in 1..Len(form.parts)
  PROVE  LET cut == i = Len(form.parts) /\ form.cut
             part == form.parts[i] IN
         /\ i \in FileParts(form) <=>
              ~cut /\ IsFile(part) /\ FileOf(part).name # Server!NoName
         /\ FileParts(form) \subseteq 1..Len(form.parts)
<1> DEFINE n == Len(form.parts)
           whole == IF form.cut THEN n - 1 ELSE n
<1>1. n \in Nat /\ form.cut \in BOOLEAN
  BY LenProperties DEF WellMade
<1>2. i \in 1..whole <=> ~(i = n /\ form.cut)
  <2>1. i \in 1..n
    OBVIOUS
  <2> HIDE DEF n
  <2>2. CASE form.cut
    BY <1>1, <2>1, <2>2
  <2>3. CASE ~form.cut
    BY <1>1, <2>1, <2>3
  <2> QED
    BY <1>1, <2>2, <2>3
<1>3. 1..whole \subseteq 1..n
  <2> HIDE DEF n
  <2> QED
    BY <1>1
<1> HIDE DEF whole
<1>4. FileParts(form) \subseteq 1..whole
  BY DEF FileParts, whole
<1>5. FileOf(form.parts[i]).name = Last(form.parts[i].header.filename)
  BY DEF FileOf
<1>6. i \in FileParts(form) <=>
        i \in 1..whole /\ IsFile(form.parts[i]) /\ FileOf(form.parts[i]).name # Server!NoName
  BY <1>5 DEF FileParts, whole, IsFile
<1> QED
  BY <1>2, <1>3, <1>4, <1>6

\* One turn of the scan: a file part is the answer, any other leaves it to the parts behind.
LEMMA PartReads ==
  ASSUME NEW form, WellMade(form), NEW at, Begins(form, at), NEW i \in 1..Len(form.parts),
         NEW scan, scan[at[i]] = ScanResult(scan, Encode(form), at[i]),
         ReadsFrom(form, i + 1, scan[at[i + 1]])
  PROVE  ReadsFrom(form, i, scan[at[i]])
<1> DEFINE n == Len(form.parts)
           cut == i = n /\ form.cut
           part == form.parts[i]
           body == Encode(form)
<1>1. n \in Nat /\ i \in Nat
  BY LenProperties DEF WellMade
<1>2. /\ i \in FileParts(form) <=> ~cut /\ IsFile(part) /\ FileOf(part).name # Server!NoName
      /\ FileParts(form) \subseteq 1..n
  BY FilePartsAre
<1>3. /\ ScanStops(body, at[i]) <=> cut
      /\ ~cut => /\ ScanNext(body, at[i]) = at[i + 1]
                 /\ ScanFile(body, at[i]) = IF IsFile(part) THEN FileOf(part) ELSE Server!NoFile
  BY PartScanned
<1>4. Server!NoFile.name = Server!NoName
  BY DEF Server!NoFile
<1> HIDE DEF n, cut, part, body
<1>5. FilesFrom(form, i) = IF i \in FileParts(form) THEN FilesFrom(form, i + 1) \cup {i}
                           ELSE FilesFrom(form, i + 1)
  BY <1>1, <1>2 DEF FilesFrom
<1>6. CASE cut
  <2>1. scan[at[i]] = Server!NoFile
    BY <1>3, <1>6 DEF ScanResult, body
  <2>2. FilesFrom(form, i) = {}
    <3>1. FilesFrom(form, i + 1) = {}
      BY <1>1, <1>2, <1>6 DEF FilesFrom, cut
    <3> QED
      BY <1>2, <1>5, <1>6, <3>1
  <2> QED
    BY <1>4, <2>1, <2>2 DEF ReadsFrom
<1>7. CASE i \in FileParts(form)
  <2>1. scan[at[i]] = FileOf(part)
    BY <1>2, <1>3, <1>7 DEF ScanResult, body
  <2>2. \A k \in FilesFrom(form, i) : (\A m \in FilesFrom(form, i) : k <= m) => k = i
    <3>1. \A k \in FilesFrom(form, i) : k \in Nat /\ k >= i
      BY <1>1, <1>2 DEF FilesFrom
    <3>2. i \in FilesFrom(form, i)
      BY <1>5, <1>7
    <3> QED
      BY <1>1, <3>1, <3>2
  <2> QED
    BY <1>5, <1>7, <2>1, <2>2 DEF ReadsFrom, part
<1>8. CASE ~cut /\ i \notin FileParts(form)
  <2>1. ScanFile(body, at[i]).name = Server!NoName
    BY <1>2, <1>3, <1>4, <1>8
  <2>2. scan[at[i]] = scan[at[i + 1]]
    BY <1>3, <1>8, <2>1 DEF ScanResult, body
  <2> QED
    BY <1>5, <1>8, <2>2 DEF ReadsFrom
<1> QED
  BY <1>6, <1>7, <1>8

\* The scan from its beginning, by induction on the parts that are left.
LEMMA FormReads ==
  ASSUME NEW form, WellMade(form)
  PROVE  ReadsFrom(form, 1, Server!parseMultipartFile(Encode(form)))
<1> DEFINE n == Len(form.parts)
           body == Encode(form)
<1>1. n \in Nat /\ body \in Seq(Tokens) /\ Len(body) \in Nat
  BY FormEncoded, LenProperties DEF WellMade
<1>2. PICK at : Begins(form, at)
  BY FormEncoded
<1>3. PICK scan : /\ Server!parseMultipartFile(body) = scan[1]
                  /\ \A c \in 1..(Len(body) + 1) : scan[c] = ScanResult(scan, body, c)
  BY <1>1, ScanObeys
<1> DEFINE Good == {m \in Nat : m <= n => ReadsFrom(form, (n + 1) - m, scan[at[(n + 1) - m]])}
<1>4. 0 \in Good
  <2>1. at[n + 1] \in 1..(Len(body) + 1) /\ ScanStops(body, at[n + 1])
    BY <1>2, EndScanned
  <2>2. scan[at[n + 1]] = Server!NoFile
    BY <1>3, <2>1 DEF ScanResult
  <2>3. FilesFrom(form, n + 1) = {}
    <3>1. FileParts(form) \subseteq 1..n
      <4>1. CASE n = 0
        <5>1. 1..(IF form.cut THEN n - 1 ELSE n) = {}
          BY <4>1
        <5> QED
          BY <5>1 DEF FileParts
      <4>2. CASE n # 0
        <5>1. 1 \in 1..n
          BY <1>1, <4>2
        <5> QED
          BY <5>1, FilePartsAre
      <4> QED
        BY <4>1, <4>2
    <3> HIDE DEF n
    <3> QED
      BY <1>1, <3>1 DEF FilesFrom
  <2>4. ReadsFrom(form, n + 1, scan[at[n + 1]])
    BY <2>2, <2>3 DEF ReadsFrom, Server!NoFile
  <2>5. (n + 1) - 0 = n + 1
    BY <1>1
  <2> HIDE DEF n
  <2> QED
    BY <2>4, <2>5
<1>5. ASSUME NEW m \in Nat, m \in Good
      PROVE  m + 1 \in Good
  <2>1. ASSUME m + 1 <= n
        PROVE  ReadsFrom(form, (n + 1) - (m + 1), scan[at[(n + 1) - (m + 1)]])
    <3> DEFINE i == (n + 1) - (m + 1)
    <3>1. i \in 1..n /\ i + 1 = (n + 1) - m /\ m <= n
      <4> HIDE DEF n
      <4> QED
        BY <1>1, <2>1
    <3>2. ReadsFrom(form, i + 1, scan[at[i + 1]])
      BY <1>5, <3>1
    <3> HIDE DEF i
    <3>3. at[i] \in 1..Len(body)
      BY <1>2, <3>1, PartScanned
    <3>4. scan[at[i]] = ScanResult(scan, body, at[i])
      <4>1. at[i] \in 1..(Len(body) + 1)
        BY <1>1, <3>3
      <4> QED
        BY <1>3, <4>1
    <3>5. ReadsFrom(form, i, scan[at[i]])
      BY <1>2, <3>1, <3>2, <3>4, PartReads
    <3> QED
      BY <3>5 DEF i
  <2> QED
    BY <2>1
<1>6. ReadsFrom(form, 1, scan[at[1]])
  <2>1. n \in Good
    <3> HIDE DEF Good, n
    <3> QED
      BY <1>1, <1>4, <1>5, Induction
  <2>2. (n + 1) - n = 1 /\ n <= n
    BY <1>1
  <2>3. n <= n => ReadsFrom(form, (n + 1) - n, scan[at[(n + 1) - n]])
    BY <2>1
  <2> HIDE DEF n
  <2> QED
    BY <2>2, <2>3
<1>7. at[1] = 1
  BY <1>2 DEF Begins
<1> QED
  BY <1>3, <1>6, <1>7

\* FormsAreRead: parseMultipartFile (rest/server/Service.cpp) finds in the encoding
\* of any form the first part that arrived whole, names "file" and gives a file name,
\* under that name and byte for byte, however many parts come before it and whatever
\* line ends and dashes the payloads hold; and in a form without such a part it finds
\* no file.
THEOREM FormsAreReadHolds == FormsAreRead
<1> SUFFICES ASSUME NEW form \in Forms, form.boundary
             PROVE  LET file == Server!parseMultipartFile(Encode(form)) IN
                    /\ file.name # Server!NoName <=> HasFile(form)
                    /\ HasFile(form) => file = [name |-> FileName(form), data |-> FileData(form)]
  BY DEF FormsAreRead
<1> DEFINE file == Server!parseMultipartFile(Encode(form))
<1>1. WellMade(form)
  BY SessionAssumption
<1>2. ReadsFrom(form, 1, file)
  BY <1>1, FormReads
<1> HIDE DEF file
<1>3. FileParts(form) \subseteq Nat /\ FilesFrom(form, 1) = FileParts(form)
  <2>1. \A k \in FileParts(form) : k \in Nat /\ k >= 1
    BY DEF FileParts
  <2> QED
    BY <2>1 DEF FilesFrom
<1>4. CASE FileParts(form) = {}
  BY <1>2, <1>3, <1>4 DEF ReadsFrom, HasFile, file
<1>5. CASE FileParts(form) # {}
  <2>1. PICK k \in FileParts(form) : \A m \in FileParts(form) : k <= m
    BY <1>3, <1>5, SmallestNumber
  <2>2. Min(FileParts(form)) = k
    BY <1>3, <2>1, ClientMin
  <2>3. file = FileOf(form.parts[k])
    BY <1>2, <1>3, <2>1 DEF ReadsFrom
  <2>4. file = [name |-> FileName(form), data |-> FileData(form)]
    BY <2>2, <2>3 DEF FileOf, FileName, FileData, FilePart
  <2>5. file.name # Server!NoName
    <3>1. Last(form.parts[k].header.filename) # Server!NoName
      BY <2>1 DEF FileParts
    <3> QED
      BY <2>3, <3>1 DEF FileOf
  <2> QED
    BY <1>5, <2>4, <2>5 DEF HasFile, file
<1> QED
  BY <1>4, <1>5

----------------------------------------------------------------------------
(* What the handlers of the server do. *)

\* What a path is, and a response on its way to the client.
PathNames == Seq(STRING \cup {EmptySegment})

ClientResponses == [status : Nat, body : Bodies]

\* The sockets: the client's calls come first, one for each upload follows.
LEMMA SocketsAre ==
  /\ \A c \in Calls : c \in Sockets /\ c \in Nat /\ c <= MaxCalls
  /\ \A n \in Nat : n < MaxUploads =>
       /\ MaxCalls + n + 1 \in Sockets
       /\ MaxCalls + n + 1 \notin Calls
<1>1. MaxCalls \in Nat /\ MaxUploads \in Nat
  BY RestAssumption, SessionAssumption
<1> QED
  BY ONLY <1>1 DEF Calls, Sockets

\* Who asks for a file gets it whole, under the last segment of the path, or an error.
LEMMA GetEffect ==
  ASSUME NEW c \in Sockets, NEW path, Server!IsMediaPath(path), path \in PathNames,
         Server!handleGetMedia(c, path)
  PROVE  /\ UNCHANGED <<files, mediaDir>>
         /\ \/ Server!sendResponse(c, 404, Server!Text("Not Found"))
            \/ /\ Last(path) \in DOMAIN files
               /\ Server!sendResponse(c, 200, files[Last(path)])
<1> DEFINE raw == SubSeq(path, 3, Len(path))
<1>1. Len(path) \in Nat /\ Len(path) >= 3
  <2>1. Len(path) >= 3
    BY Zenon DEF Server!IsMediaPath
  <2> QED
    BY ONLY <2>1, path \in PathNames DEF PathNames
<1>2. Len(raw) = Len(path) - 2 /\ raw[Len(raw)] = path[Len(path)]
  BY ONLY <1>1, path \in PathNames DEF PathNames
<1> HIDE DEF raw
<1>3. raw # <<>>
  <2>1. Len(<<>>) = 0
    BY EmptySeq
  <2> QED
    BY ONLY <1>1, <1>2, <2>1
<1>4. Server!safeFileName(raw) = Last(path)
  BY <1>2, <1>3 DEF Server!safeFileName, Server!Last, Last
<1> QED
  BY <1>4, Zenon DEF Server!handleGetMedia, raw

\* A request of the client is not an upload that succeeds: it leaves the files alone,
\* and an answer that is no error is the file it asked for.
LEMMA CallEffect ==
  ASSUME RestInv, DOMAIN responses = Sockets, NEW c \in Calls, ServerHandles(c),
         \A name \in DOMAIN files : files[name] \in Bodies
  PROVE  /\ c \in 1..Len(requests)
         /\ UNCHANGED <<files, diskFull>>
         /\ \E r \in ClientResponses :
              /\ responses' = [responses EXCEPT ![c] = <<r>>]
              /\ r.status < 400 => AskedFor(c) \in DOMAIN files /\ r.body = files[AskedFor(c)]
<1> DEFINE verb == requests[c].verb
           path == requests[c].path
           Answers(status, body) ==
             /\ Server!sendResponse(c, status, body)
             /\ UNCHANGED files
<1>1. c \in 1..Len(requests) /\ responses[c] = <<>> /\ c \in Sockets
  BY SocketsAre, RestAssumption DEF ServerHandles, RestInv, TypeOK, Calls
<1>2. verb \in Verbs /\ path \in PathNames
  <2>1. requests[c] \in Requests
    BY <1>1, ElementOfSeq DEF RestInv, TypeOK
  <2>2. ASSUME NEW use \in Uses
        PROVE  use.endpoint \in PathNames /\ <<EmptySegment>> \o use.endpoint \in PathNames
    <3>1. use.endpoint \in Seq(STRING)
      BY UsesAssumption
    <3>2. use.endpoint \in PathNames /\ <<EmptySegment>> \in PathNames
      BY <3>1 DEF PathNames
    <3>3. \A p, q \in PathNames : p \o q \in PathNames
      BY ConcatProperties DEF PathNames
    <3> QED
      BY <3>2, <3>3
  <2> QED
    BY <2>1, <2>2, UsesAssumption DEF Requests, Paths
<1>3. verb # "OPTIONS"
  BY <1>2 DEF Verbs
<1>4. Server!handleHttpRequest(c, verb, path, FALSE, <<>>)
  BY DEF ServerHandles
<1> HIDE DEF verb, path
<1>5. /\ UNCHANGED diskFull
      /\ \/ Server!handleUploadMedia(c, FALSE, <<>>)
         \/ Server!IsMediaPath(path) /\ Server!handleGetMedia(c, path)
         \/ Answers(404, Server!Text("Not Found"))
  BY <1>3, <1>4, Zenon DEF Server!handleHttpRequest
<1>6. Server!handleUploadMedia(c, FALSE, <<>>) => Answers(400, Server!Text("Missing multipart boundary"))
  BY DEF Server!handleUploadMedia
<1>7. \/ Answers(404, Server!Text("Not Found"))
      \/ Answers(400, Server!Text("Missing multipart boundary"))
      \/ Last(path) \in DOMAIN files /\ Answers(200, files[Last(path)])
  BY <1>1, <1>2, <1>5, <1>6, GetEffect
<1>8. ASSUME NEW status \in Nat, NEW body \in Bodies, Answers(status, body)
      PROVE  \E r \in ClientResponses :
               /\ r.status = status /\ r.body = body
               /\ responses' = [responses EXCEPT ![c] = <<r>>]
               /\ UNCHANGED files
  <2> DEFINE r == [status |-> status, body |-> body]
  <2>1. r \in ClientResponses
    BY DEF ClientResponses
  <2>2. Append(<<>>, r) = <<r>>
    BY DEF r
  <2>3. responses' = [responses EXCEPT ![c] = <<r>>]
    BY <1>1, <1>8, <2>2 DEF Server!sendResponse
  <2> QED
    BY <1>8, <2>1, <2>3
<1>9. AskedFor(c) = Last(path)
  BY DEF AskedFor, path
<1>10. Server!Text("Not Found") \in Bodies /\ Server!Text("Missing multipart boundary") \in Bodies
  BY SessionAssumption
<1> HIDE DEF Answers
<1>11. ASSUME NEW status \in Nat, NEW body \in Bodies, Answers(status, body),
              status < 400 => AskedFor(c) \in DOMAIN files /\ body = files[AskedFor(c)]
       PROVE  \E r \in ClientResponses :
                /\ responses' = [responses EXCEPT ![c] = <<r>>]
                /\ r.status < 400 => AskedFor(c) \in DOMAIN files /\ r.body = files[AskedFor(c)]
                /\ UNCHANGED files
  <2>1. PICK r \in ClientResponses :
          /\ r.status = status /\ r.body = body
          /\ responses' = [responses EXCEPT ![c] = <<r>>]
          /\ UNCHANGED files
    BY <1>8, <1>11
  <2> QED
    BY <1>11, <2>1
<1>12. \E status \in Nat, body \in Bodies :
         /\ Answers(status, body)
         /\ status < 400 => AskedFor(c) \in DOMAIN files /\ body = files[AskedFor(c)]
  <2>1. 404 \in Nat /\ 400 \in Nat /\ 200 \in Nat
    OBVIOUS
  <2>2. ASSUME NEW status \in Nat, status >= 400, NEW body \in Bodies, Answers(status, body)
        PROVE  \E s \in Nat, b \in Bodies :
                 Answers(s, b) /\ (s < 400 => AskedFor(c) \in DOMAIN files /\ b = files[AskedFor(c)])
    <3>1. ~(status < 400)
      BY <2>2
    <3> QED
      BY <2>2, <3>1
  <2>3. CASE Answers(404, Server!Text("Not Found")) \/ Answers(400, Server!Text("Missing multipart boundary"))
    <3>1. 404 \in Nat /\ 400 \in Nat /\ 404 >= 400 /\ 400 >= 400
      OBVIOUS
    <3>2. CASE Answers(404, Server!Text("Not Found"))
      <4>1. PICK body \in Bodies : Answers(404, body)
        BY <1>10, <3>2, Zenon
      <4> QED
        BY <2>2, <3>1, <4>1
    <3>3. CASE Answers(400, Server!Text("Missing multipart boundary"))
      <4>1. PICK body \in Bodies : Answers(400, body)
        BY <1>10, <3>3, Zenon
      <4> QED
        BY <2>2, <3>1, <4>1
    <3> QED
      BY <2>3, <3>2, <3>3
  <2>4. CASE Last(path) \in DOMAIN files /\ Answers(200, files[Last(path)])
    <3>1. files[Last(path)] \in Bodies /\ files[Last(path)] = files[AskedFor(c)]
      BY <1>9, <2>4
    <3> QED
      BY <1>9, <2>1, <2>4, <3>1
  <2> QED
    BY <1>7, <2>3, <2>4
<1> QED
  BY <1>1, <1>5, <1>11, <1>12

\* The record of an upload; NoForm is that of a browser that only asked.
NoForm == [parts |-> <<>>, boundary |-> FALSE, cut |-> FALSE]
UploadRecords == [form : Forms \cup {NoForm}, short : BOOLEAN, done : BOOLEAN]

Stores(form) ==   \* the file that an upload of form leaves
  /\ form.boundary
  /\ Server!parseMultipartFile(Encode(form)).name # Server!NoName
  /\ files' \in Server!Written(Server!parseMultipartFile(Encode(form)).name,
                               Server!parseMultipartFile(Encode(form)).data)

\* An upload is either refused, or stored and reported.
LEMMA UploadEffect ==
  ASSUME DOMAIN responses = Sockets, NEW form \in Forms, BrowserUploads(form),
         Len(uploads) \in Nat,
         responses[MaxCalls + Len(uploads) + 1] = <<>>
  PROVE  /\ UNCHANGED <<clientVars, diskFull>>
         /\ Len(uploads) < MaxUploads
         /\ \E r : responses' = [responses EXCEPT ![MaxCalls + Len(uploads) + 1] = <<r>>]
         /\ \E done \in BOOLEAN :
              /\ uploads' = Append(uploads, [form |-> form, short |-> diskFull, done |-> done])
              /\ done => Stores(form)
              /\ ~done => UNCHANGED files
<1> DEFINE socket == MaxCalls + Len(uploads) + 1
           Answers(status, body) == Server!sendResponse(socket, status, body)
<1>1. socket \in Sockets /\ Len(uploads) < MaxUploads
  <2>1. Len(uploads) < MaxUploads
    BY Zenon DEF BrowserUploads
  <2> QED
    BY <2>1, SocketsAre
<1>2. /\ UNCHANGED <<clientVars, diskFull>>
      /\ Server!handleUploadMedia(socket, form.boundary, Encode(form))
      /\ uploads' = Append(uploads, [form |-> form, short |-> diskFull,
                                     done |-> Head(responses'[socket]).status = 200])
  BY Zenon DEF BrowserUploads, Server!handleHttpRequest
<1> HIDE DEF socket
<1>3. ASSUME NEW status \in Nat, NEW body, Answers(status, body)
      PROVE  /\ responses' = [responses EXCEPT ![socket] = <<[status |-> status, body |-> body]>>]
             /\ Head(responses'[socket]).status = status
  <2> DEFINE r == [status |-> status, body |-> body]
  <2>1. Append(<<>>, r) = <<r>> /\ Head(<<r>>) = r /\ r.status = status
    OBVIOUS
  <2>2. responses' = [responses EXCEPT ![socket] = <<r>>]
    BY <1>1, <1>3, <2>1 DEF Server!sendResponse, socket
  <2> QED
    BY <1>1, <2>1, <2>2
<1> DEFINE file == Server!parseMultipartFile(Encode(form))
           Refuses(status, text) == Answers(status, Server!Text(text)) /\ UNCHANGED files
<1>4. \/ Refuses(400, "Missing multipart boundary")
      \/ Refuses(400, "Missing file field")
      \/ Refuses(500, "Failed to create media directory")
      \/ Refuses(500, "Failed to store uploaded file")
      \/ Answers(200, Server!Text("Uploaded")) /\ Stores(form)
  BY <1>2, Zenon DEF Server!handleUploadMedia, Stores
<1>5. ASSUME NEW status \in Nat, NEW body, Answers(status, body)
      PROVE  /\ \E r : responses' = [responses EXCEPT ![socket] = <<r>>]
             /\ \E done \in BOOLEAN :
                  /\ uploads' = Append(uploads, [form |-> form, short |-> diskFull, done |-> done])
                  /\ done <=> status = 200
  <2>1. PICK done \in BOOLEAN : done <=> status = 200
    OBVIOUS
  <2>2. Head(responses'[socket]).status = status
    BY <1>3, <1>5
  <2>3. (Head(responses'[socket]).status = 200) = done
    BY <2>1, <2>2
  <2>4. uploads' = Append(uploads, [form |-> form, short |-> diskFull, done |-> done])
    BY <1>2, <2>3
  <2> QED
    BY <1>3, <1>5, <2>1, <2>4
<1> HIDE DEF Answers
<1>6. \E status \in Nat : \E body :
        /\ Answers(status, body)
        /\ status = 200 => Stores(form)
        /\ status # 200 => UNCHANGED files
  <2> DEFINE Fits(status, body) ==
               /\ Answers(status, body)
               /\ status = 200 => Stores(form)
               /\ status # 200 => UNCHANGED files
  <2>1. ASSUME NEW text, Refuses(400, text)
        PROVE  \E body : Fits(400, body)
    <3>1. Fits(400, Server!Text(text))
      BY <2>1
    <3> QED
      BY <3>1
  <2>2. ASSUME NEW text, Refuses(500, text)
        PROVE  \E body : Fits(500, body)
    <3>1. Fits(500, Server!Text(text))
      BY <2>2
    <3> QED
      BY <3>1
  <2>3. ASSUME Answers(200, Server!Text("Uploaded")), Stores(form)
        PROVE  \E body : Fits(200, body)
    <3>1. Fits(200, Server!Text("Uploaded"))
      BY <2>3
    <3> QED
      BY <3>1, Zenon
  <2> HIDE DEF Refuses, Fits
  <2>4. \/ \E body : Fits(400, body)
        \/ \E body : Fits(500, body)
        \/ \E body : Fits(200, body)
    <3>1. CASE Refuses(400, "Missing multipart boundary")
      BY ONLY <2>1, <3>1
    <3>2. CASE Refuses(400, "Missing file field")
      BY ONLY <2>1, <3>2
    <3>3. CASE Refuses(500, "Failed to create media directory")
      BY ONLY <2>2, <3>3
    <3>4. CASE Refuses(500, "Failed to store uploaded file")
      BY ONLY <2>2, <3>4
    <3>5. CASE Answers(200, Server!Text("Uploaded")) /\ Stores(form)
      BY ONLY <2>3, <3>5
    <3> QED
      BY ONLY <1>4, <3>1, <3>2, <3>3, <3>4, <3>5
  <2>5. 400 \in Nat /\ 500 \in Nat /\ 200 \in Nat
    OBVIOUS
  <2>6. \E status \in Nat : \E body : Fits(status, body)
    BY <2>4, <2>5
  <2> QED
    BY <2>6 DEF Fits
<1>7. PICK status \in Nat : \E body :
        /\ Answers(status, body)
        /\ status = 200 => Stores(form)
        /\ status # 200 => UNCHANGED files
  BY <1>6
<1>8. PICK body :
        /\ Answers(status, body)
        /\ status = 200 => Stores(form)
        /\ status # 200 => UNCHANGED files
  BY <1>7
<1>9. PICK done \in BOOLEAN :
        /\ uploads' = Append(uploads, [form |-> form, short |-> diskFull, done |-> done])
        /\ done <=> status = 200
  BY <1>5, <1>8
<1>10. \E r : responses' = [responses EXCEPT ![socket] = <<r>>]
  BY <1>5, <1>8
<1> QED
  BY <1>1, <1>2, <1>8, <1>9, <1>10 DEF socket

----------------------------------------------------------------------------
(* The logs of the session. *)

\* Each socket carries one request: a call has had at most one response, and the
\* sockets of uploads to come have had none.
LogsOK ==
  /\ DOMAIN responses = Sockets
  /\ uploads \in Seq(UploadRecords) /\ Len(uploads) <= MaxUploads
  /\ diskFull \in BOOLEAN
  /\ \A c \in Calls : responses[c] = <<>> \/ \E r \in ClientResponses : responses[c] = <<r>>
  /\ \A n \in Nat : Len(uploads) <= n /\ n < MaxUploads => responses[MaxCalls + n + 1] = <<>>

ReportedHadFiles ==
  \A u \in 1..Len(uploads) :
    uploads[u].done => uploads[u].form \in Forms /\ HasFile(uploads[u].form)

LastDone(u, name) == u \in DoneAs(name) /\ \A v \in DoneAs(name) : v <= u

\* What is under a name is what the last upload reported under it left there.
FilesKept ==
  \A name \in DOMAIN files :
    /\ files[name] \in Bodies
    /\ \E u \in 1..Len(uploads) :
         /\ LastDone(u, name)
         /\ LeftBy(uploads[u], files[name])

\* A body was, at some time, what the server kept under the name call c asks for.
WasUploaded(c, body) ==
  \E u \in DoneAs(AskedFor(c)) : LeftBy(uploads[u], body)

ResponsesTrue ==
  \A c \in Calls : \A r \in ClientResponses : responses[c] = <<r>> =>
    /\ c \in 1..Len(requests)
    /\ r.status < 400 => WasUploaded(c, r.body)

SessionInv ==
  /\ RestInv
  /\ LogsOK
  /\ ReportedHadFiles
  /\ FilesKept
  /\ ResponsesTrue
  /\ DownloadsAreTrue

\* An upload that is recorded: under its name it is the last one, the others stay.
LEMMA DoneGrows ==
  ASSUME uploads \in Seq(UploadRecords), NEW up \in UploadRecords, uploads' = Append(uploads, up)
  PROVE  /\ uploads' \in Seq(UploadRecords) /\ Len(uploads') = Len(uploads) + 1
         /\ \A u \in 1..Len(uploads) : uploads'[u] = uploads[u]
         /\ uploads'[Len(uploads) + 1] = up
         /\ \A name :
              /\ \A u \in DoneAs(name) : u \in 1..Len(uploads) /\ u \in DoneAs(name)'
              /\ \A u \in DoneAs(name)' : u \in DoneAs(name) \/ u = Len(uploads) + 1
              /\ Len(uploads) + 1 \in DoneAs(name)' <=> (up.done /\ FileName(up.form) = name)
<1>1. /\ uploads' \in Seq(UploadRecords) /\ Len(uploads') = Len(uploads) + 1
      /\ \A u \in 1..Len(uploads) : uploads'[u] = uploads[u]
      /\ uploads'[Len(uploads) + 1] = up
      /\ Len(uploads) \in Nat
  BY AppendProperties
<1>2. 1..Len(uploads') = 1..Len(uploads) \cup {Len(uploads) + 1}
  BY <1>1
<1>3. \A name :
        DoneAs(name)' = {u \in 1..Len(uploads') : uploads'[u].done /\ FileName(uploads'[u].form) = name}
  BY DEF DoneAs
<1> QED
  BY <1>1, <1>2, <1>3 DEF DoneAs

\* What was uploaded stays uploaded, whatever is uploaded next.
LEMMA UploadedStays ==
  ASSUME uploads \in Seq(UploadRecords), NEW up \in UploadRecords, uploads' = Append(uploads, up),
         UNCHANGED requests, NEW c, NEW body, WasUploaded(c, body)
  PROVE  WasUploaded(c, body)'
<1>1. PICK name : name = AskedFor(c)
  OBVIOUS
<1>2. PICK u \in DoneAs(name) : LeftBy(uploads[u], body)
  BY <1>1 DEF WasUploaded
<1>3. u \in DoneAs(name)' /\ uploads'[u] = uploads[u]
  BY DoneGrows, <1>2
<1>4. name = AskedFor(c)'
  BY <1>1 DEF AskedFor
<1>5. u \in DoneAs(AskedFor(c))'
  BY <1>3, <1>4 DEF DoneAs
<1> QED
  BY <1>2, <1>3, <1>5 DEF WasUploaded

----------------------------------------------------------------------------
(* Every step keeps the invariant. *)

\* A beginning of a sequence is a prefix of it.
LEMMA BeginningIsPrefix ==
  ASSUME NEW S, NEW data \in Seq(S), NEW n \in 0..Len(data)
  PROVE  IsPrefix(SubSeq(data, 1, n), data)
<1> DEFINE start == SubSeq(data, 1, n)
<1>1. Len(data) \in Nat /\ n \in Nat /\ n <= Len(data) /\ \A i \in 1..n : data[i] \in S
  BY LenProperties, ElementOfSeq
<1>2. start \in Seq(S) /\ Len(start) = n /\ \A i \in 1..n : start[i] = data[i]
  <2>1. /\ start \in Seq(S)
        /\ Len(start) = IF 1 <= n THEN n - 1 + 1 ELSE 0
        /\ \A i \in 1..(n - 1 + 1) : start[i] = data[1 + i - 1]
    BY <1>1, SubSeqProperties
  <2> HIDE DEF start
  <2> QED
    BY <1>1, <2>1
<1> HIDE DEF start
<1>3. /\ SubSeq(start, 1, n) \in Seq(S)
      /\ Len(SubSeq(start, 1, n)) = n
      /\ \A i \in 1..n : SubSeq(start, 1, n)[i] = start[i]
  <2>1. \A i \in 1..n : start[i] \in S
    BY <1>1, <1>2
  <2>2. /\ SubSeq(start, 1, n) \in Seq(S)
        /\ Len(SubSeq(start, 1, n)) = IF 1 <= n THEN n - 1 + 1 ELSE 0
        /\ \A i \in 1..(n - 1 + 1) : SubSeq(start, 1, n)[i] = start[1 + i - 1]
    BY <1>1, <2>1, SubSeqProperties
  <2> QED
    BY <1>1, <2>2
<1>4. SubSeq(start, 1, n) = start
  BY <1>2, <1>3, SeqEqual
<1>5. SubSeq(data, 1, n) = start
  BY DEF start
<1> QED
  BY <1>1, <1>2, <1>4, <1>5 DEF IsPrefix

\* The file of a form is a sequence.
LEMMA DataTyped ==
  ASSUME NEW form \in Forms, HasFile(form)
  PROVE  FileData(form) \in Seq(Tokens)
<1>1. WellMade(form) /\ FileParts(form) # {}
  BY SessionAssumption DEF HasFile
<1>2. FileParts(form) \subseteq Nat /\ FileParts(form) \subseteq 1..Len(form.parts)
  BY <1>1, FilePartsAre, LenProperties DEF FileParts, WellMade
<1>3. PICK k \in FileParts(form) : \A m \in FileParts(form) : k <= m
  BY <1>1, <1>2, SmallestNumber
<1>4. Min(FileParts(form)) = k
  BY <1>2, <1>3, ClientMin
<1>5. form.parts[k] \in Parts
  <2>1. form.parts \in Seq(Parts)
    BY <1>1 DEF WellMade, Parts
  <2>2. k \in 1..Len(form.parts)
    BY <1>2
  <2> QED
    BY <2>1, <2>2, ElementOfSeq
<1>6. form.parts[k].payload \in Seq(Tokens)
  BY <1>5 DEF Parts
<1> QED
  BY <1>4, <1>6 DEF FileData, FilePart

\* A stored upload leaves its file, whole unless the disk was full, and touches no other.
LEMMA StoredFile ==
  ASSUME NEW form \in Forms, Stores(form)
  PROVE  /\ HasFile(form)
         /\ DOMAIN files' = DOMAIN files \cup {FileName(form)}
         /\ \A name \in DOMAIN files \ {FileName(form)} : files'[name] = files[name]
         /\ files'[FileName(form)] \in Bodies
         /\ \A up : up.form = form /\ up.short = diskFull => LeftBy(up, files'[FileName(form)])
<1> DEFINE file == Server!parseMultipartFile(Encode(form))
           name == FileName(form)
           data == FileData(form)
<1>1. HasFile(form) /\ file = [name |-> name, data |-> data]
  BY FormsAreReadHolds DEF FormsAreRead, Stores
<1>2. files' \in Server!Written(name, data)
  BY <1>1 DEF Stores
<1>3. data \in Bodies /\ \A n \in 0..Len(data) : SubSeq(data, 1, n) \in Bodies
  BY <1>1, SessionAssumption
<1> HIDE DEF file, name, data
<1>4. PICK stored \in (IF diskFull THEN {SubSeq(data, 1, n) : n \in 0..Len(data)} ELSE {data}) :
        files' = [n \in DOMAIN files \cup {name} |-> IF n = name THEN stored ELSE files[n]]
  BY <1>2 DEF Server!Written
<1>5. stored \in Bodies /\ IF diskFull THEN IsPrefix(stored, data) ELSE stored = data
  <2>1. \A n \in 0..Len(data) : IsPrefix(SubSeq(data, 1, n), data)
    BY <1>1, DataTyped, BeginningIsPrefix DEF data
  <2> QED
    BY <1>3, <1>4, <2>1
<1>6. /\ DOMAIN files' = DOMAIN files \cup {name}
      /\ \A n \in DOMAIN files \ {name} : files'[n] = files[n]
      /\ files'[name] = stored
  BY <1>4
<1> QED
  BY <1>1, <1>5, <1>6 DEF name, data, LeftBy

\* The logs after an upload or a question of a browser.
LEMMA BrowserKeepsLogs ==
  ASSUME LogsOK, NEW up \in UploadRecords, uploads' = Append(uploads, up),
         Len(uploads) < MaxUploads, UNCHANGED diskFull,
         NEW r, responses' = [responses EXCEPT ![MaxCalls + Len(uploads) + 1] = <<r>>]
  PROVE  LogsOK' /\ \A c \in Calls : responses'[c] = responses[c]
<1> DEFINE socket == MaxCalls + Len(uploads) + 1
<1>1. Len(uploads) \in Nat
  BY DEF LogsOK
<1>2. MaxCalls \in Nat /\ MaxUploads \in Nat
  BY RestAssumption, SessionAssumption
<1>3. DOMAIN responses' = Sockets /\ \A s \in Sockets \ {socket} : responses'[s] = responses[s]
  BY DEF LogsOK
<1>4. \A c \in Calls : c \in Sockets /\ c # socket
  BY <1>1, SocketsAre
<1>5. \A n \in Nat : Len(uploads) + 1 <= n /\ n < MaxUploads => responses'[MaxCalls + n + 1] = <<>>
  <2> SUFFICES ASSUME NEW n \in Nat, Len(uploads) + 1 <= n, n < MaxUploads
               PROVE  responses'[MaxCalls + n + 1] = <<>>
    OBVIOUS
  <2>1. MaxCalls + n + 1 \in Sockets /\ MaxCalls + n + 1 # socket
    <3>1. MaxCalls + n + 1 \in Sockets
      BY SocketsAre
    <3> QED
      BY ONLY <1>1, <1>2, <3>1, n \in Nat, Len(uploads) + 1 <= n
  <2>2. responses[MaxCalls + n + 1] = <<>>
    BY <1>1 DEF LogsOK
  <2> QED
    BY <1>3, <2>1, <2>2
<1>6. uploads' \in Seq(UploadRecords) /\ Len(uploads') = Len(uploads) + 1
  BY DoneGrows DEF LogsOK
<1>7. Len(uploads') <= MaxUploads
  BY <1>1, <1>2, <1>6
<1>8. \A c \in Calls : responses'[c] = responses[c]
  BY <1>3, <1>4
<1>9. \A c \in Calls : responses'[c] = <<>> \/ \E s \in ClientResponses : responses'[c] = <<s>>
  BY <1>8 DEF LogsOK
<1> QED
  BY <1>3, <1>5, <1>6, <1>7, <1>8, <1>9 DEF LogsOK

\* Answers and downloads stay true as uploads are made.
LEMMA BrowserKeepsTruth ==
  ASSUME SessionInv, NEW up \in UploadRecords, uploads' = Append(uploads, up),
         UNCHANGED clientVars, \A c \in Calls : responses'[c] = responses[c]
  PROVE  RestInv' /\ ResponsesTrue' /\ DownloadsAreTrue'
<1>1. UNCHANGED <<requests, completions>>
  BY DEF clientVars
<1>2. \A c, body : WasUploaded(c, body) => WasUploaded(c, body)'
  BY <1>1, UploadedStays DEF SessionInv, LogsOK
<1>3. ResponsesTrue'
  BY <1>1, <1>2 DEF SessionInv, ResponsesTrue
<1>4. DownloadsAreTrue'
  <2>1. ASSUME NEW c \in Calls, NEW i \in 1..Len(completions[c]), NEW body,
               body = completions[c][i].body, completions[c][i].ok
        PROVE  WasUploaded(c, body)'
    <3>1. WasUploaded(c, body)
      BY <2>1 DEF SessionInv, DownloadsAreTrue, WasUploaded
    <3> QED
      BY <1>2, <3>1
  <2>2. ASSUME NEW c \in Calls, NEW i \in 1..Len(completions[c]), completions[c][i].ok
        PROVE  \E u \in DoneAs(AskedFor(c))' :
                 LeftBy(uploads'[u], completions[c][i].body)
    <3>1. PICK body : body = completions[c][i].body
      OBVIOUS
    <3>2. WasUploaded(c, body)'
      BY <2>1, <2>2, <3>1
    <3> QED
      BY <3>1, <3>2 DEF WasUploaded
  <2> QED
    BY <1>1, <2>2 DEF DownloadsAreTrue
<1>5. RestInv'
  BY NextInv DEF SessionInv
<1> QED
  BY <1>3, <1>4, <1>5

\* An upload that is reported leaves its file as the last one under its name; one that
\* is not leaves no trace.
LEMMA UploadKeepsFiles ==
  ASSUME SessionInv, NEW up \in UploadRecords, uploads' = Append(uploads, up),
         up.done => up.form \in Forms /\ Stores(up.form) /\ up.short = diskFull,
         ~up.done => UNCHANGED files
  PROVE  FilesKept' /\ ReportedHadFiles'
<1>1. uploads \in Seq(UploadRecords) /\ Len(uploads) \in Nat
  BY DEF SessionInv, LogsOK
<1>2. /\ Len(uploads') = Len(uploads) + 1
      /\ \A u \in 1..Len(uploads) : uploads'[u] = uploads[u]
      /\ uploads'[Len(uploads) + 1] = up
  BY <1>1, DoneGrows
<1>3. \A name :
        /\ \A u \in DoneAs(name) : u \in 1..Len(uploads) /\ u \in DoneAs(name)'
        /\ \A u \in DoneAs(name)' : u \in DoneAs(name) \/ u = Len(uploads) + 1
        /\ Len(uploads) + 1 \in DoneAs(name)' <=> (up.done /\ FileName(up.form) = name)
  BY <1>1, DoneGrows
<1>4. up.done =>
        /\ up.form \in Forms /\ HasFile(up.form)
        /\ DOMAIN files' = DOMAIN files \cup {FileName(up.form)}
        /\ \A name \in DOMAIN files \ {FileName(up.form)} : files'[name] = files[name]
        /\ files'[FileName(up.form)] \in Bodies
        /\ LeftBy(up, files'[FileName(up.form)])
  BY StoredFile
<1>5. ReportedHadFiles'
  <2>1. 1..Len(uploads') = 1..Len(uploads) \cup {Len(uploads) + 1}
    BY <1>1, <1>2
  <2> QED
    BY <1>2, <1>4, <2>1 DEF SessionInv, ReportedHadFiles
<1>6. ASSUME NEW name \in DOMAIN files, files'[name] = files[name],
             ~up.done \/ FileName(up.form) # name
      PROVE  /\ files'[name] \in Bodies
             /\ \E u \in 1..Len(uploads') :
                  LastDone(u, name)' /\ LeftBy(uploads'[u], files'[name])
  <2>1. PICK u \in 1..Len(uploads) :
          LastDone(u, name) /\ LeftBy(uploads[u], files[name])
    BY DEF SessionInv, FilesKept
  <2>2. \A v : v \in DoneAs(name)' <=> v \in DoneAs(name)
    BY <1>3, <1>6, Zenon
  <2>3. u \in DoneAs(name) /\ \A v \in DoneAs(name) : v <= u
    BY <2>1 DEF LastDone
  <2>4. u \in DoneAs(name)' /\ \A v \in DoneAs(name)' : v <= u
    BY <2>2, <2>3, Zenon
  <2>5. LastDone(u, name)'
    BY <2>4 DEF LastDone
  <2>6. u \in 1..Len(uploads')
    BY <1>1, <1>2
  <2> QED
    BY <1>2, <1>6, <2>1, <2>5, <2>6 DEF SessionInv, FilesKept
<1>7. ASSUME NEW name, up.done, FileName(up.form) = name
      PROVE  /\ files'[name] \in Bodies
             /\ \E u \in 1..Len(uploads') :
                  LastDone(u, name)' /\ LeftBy(uploads'[u], files'[name])
  <2> DEFINE u == Len(uploads) + 1
  <2>1. u \in 1..Len(uploads') /\ uploads'[u] = up
    BY <1>1, <1>2
  <2>2. u \in DoneAs(name)' /\ \A v \in DoneAs(name)' : v <= u
    BY <1>1, <1>3, <1>7
  <2>3. PICK w : w = u
    OBVIOUS
  <2>4. LastDone(w, name)'
    BY <2>2, <2>3 DEF LastDone
  <2> QED
    BY <1>4, <1>7, <2>1, <2>3, <2>4
<1>8. FilesKept'
  <2> SUFFICES ASSUME NEW name \in DOMAIN files'
               PROVE  /\ files'[name] \in Bodies
                      /\ \E u \in 1..Len(uploads') :
                           /\ LastDone(u, name)'
                           /\ LeftBy(uploads'[u], files'[name])
    BY DEF FilesKept
  <2>1. CASE up.done /\ FileName(up.form) = name
    BY <1>7, <2>1
  <2>2. CASE ~(up.done /\ FileName(up.form) = name)
    <3>1. name \in DOMAIN files /\ files'[name] = files[name]
      BY <1>4, <2>2
    <3> QED
      BY <1>6, <2>2, <3>1
  <2> QED
    BY <2>1, <2>2
<1> QED
  BY <1>5, <1>8

\* A browser that uploads, and one that asks first.
LEMMA BrowserStep ==
  ASSUME SessionInv,
         (\E form \in Forms : BrowserUploads(form)) \/ BrowserAsks
  PROVE  SessionInv' /\ UNCHANGED clientVars
<1> DEFINE socket == MaxCalls + Len(uploads) + 1
<1>1. uploads \in Seq(UploadRecords) /\ Len(uploads) \in Nat /\ DOMAIN responses = Sockets
  BY DEF SessionInv, LogsOK
<1>2. ASSUME Len(uploads) < MaxUploads
      PROVE  responses[socket] = <<>>
  BY <1>1, <1>2 DEF SessionInv, LogsOK
<1>3. ASSUME NEW up \in UploadRecords, uploads' = Append(uploads, up), UNCHANGED <<clientVars, diskFull>>,
             Len(uploads) < MaxUploads,
             \E r : responses' = [responses EXCEPT ![socket] = <<r>>],
             up.done => up.form \in Forms /\ Stores(up.form) /\ up.short = diskFull,
             ~up.done => UNCHANGED files
      PROVE  SessionInv'
  <2>1. PICK r : responses' = [responses EXCEPT ![socket] = <<r>>]
    BY <1>3
  <2>2. LogsOK' /\ \A c \in Calls : responses'[c] = responses[c]
    BY <1>3, <2>1, BrowserKeepsLogs DEF SessionInv
  <2>3. RestInv' /\ ResponsesTrue' /\ DownloadsAreTrue'
    BY <1>3, <2>2, BrowserKeepsTruth
  <2>4. FilesKept' /\ ReportedHadFiles'
    BY <1>3, UploadKeepsFiles
  <2> QED
    BY <2>2, <2>3, <2>4 DEF SessionInv
<1>4. ASSUME NEW form \in Forms, BrowserUploads(form)
      PROVE  SessionInv' /\ UNCHANGED clientVars
  <2>1. Len(uploads) < MaxUploads
    BY <1>4, Zenon DEF BrowserUploads
  <2>2. PICK done \in BOOLEAN :
          /\ uploads' = Append(uploads, [form |-> form, short |-> diskFull, done |-> done])
          /\ done => Stores(form)
          /\ ~done => UNCHANGED files
    BY <1>1, <1>2, <1>4, <2>1, UploadEffect
  <2>3. /\ UNCHANGED <<clientVars, diskFull>>
        /\ \E r : responses' = [responses EXCEPT ![socket] = <<r>>]
    BY <1>1, <1>2, <1>4, <2>1, UploadEffect
  <2> DEFINE up == [form |-> form, short |-> diskFull, done |-> done]
  <2>4. up \in UploadRecords /\ up.done = done /\ up.form = form /\ up.short = diskFull
    BY DEF UploadRecords, SessionInv, LogsOK
  <2> HIDE DEF up
  <2>5. uploads' = Append(uploads, up)
    BY <2>2 DEF up
  <2> QED
    BY <1>3, <2>1, <2>2, <2>3, <2>4, <2>5
<1>5. ASSUME BrowserAsks
      PROVE  SessionInv' /\ UNCHANGED clientVars
  <2> DEFINE up == [form |-> NoForm, short |-> FALSE, done |-> FALSE]
  <2>1. /\ UNCHANGED <<clientVars, files, diskFull>>
        /\ Len(uploads) < MaxUploads
        /\ Server!sendResponse(socket, 204, <<>>)
        /\ uploads' = Append(uploads, up)
    BY <1>5, Zenon DEF BrowserAsks, Server!handleHttpRequest, NoForm
  <2>2. up \in UploadRecords /\ ~up.done
    BY DEF UploadRecords
  <2>3. \E r : responses' = [responses EXCEPT ![socket] = <<r>>]
    <3> DEFINE r == [status |-> 204, body |-> <<>>]
    <3>1. Append(<<>>, r) = <<r>>
      OBVIOUS
    <3>2. responses' = [responses EXCEPT ![socket] = <<r>>]
      BY <1>1, <1>2, <2>1, <3>1, SocketsAre DEF Server!sendResponse
    <3> QED
      BY <3>2
  <2> HIDE DEF up
  <2> QED
    BY <1>3, <2>1, <2>2, <2>3
<1> QED
  BY <1>4, <1>5

\* A step that changes only the service of the client leaves the other logs as they are.
LEMMA LogsStay ==
  ASSUME SessionInv, UNCHANGED <<serverState, uploads>>
  PROVE  /\ LogsOK' /\ ReportedHadFiles' /\ FilesKept'
         /\ \A name : DoneAs(name)' = DoneAs(name)
<1>1. UNCHANGED <<files, diskFull, responses, uploads>>
  BY DEF serverState
<1>2. \A name : DoneAs(name)' = DoneAs(name)
  BY <1>1 DEF DoneAs
<1>3. LogsOK' /\ ReportedHadFiles'
  BY <1>1 DEF SessionInv, LogsOK, ReportedHadFiles
<1>4. FilesKept'
  BY <1>1, <1>2 DEF SessionInv, FilesKept, LastDone
<1> QED
  BY <1>2, <1>3, <1>4

\* The application asks, and the requests made before are the ones they were.
LEMMA ClientStep ==
  ASSUME SessionInv, ClientActs
  PROVE  SessionInv' /\ [Next]_clientVars
<1>1. ApplicationStep /\ UNCHANGED <<serverState, uploads>>
  BY DEF ClientActs
<1>2. Next
  BY <1>1 DEF Next
<1>3. RestInv /\ RestInv'
  BY <1>2, NextInv DEF SessionInv
<1>4. /\ UNCHANGED completions /\ Len(requests) \in Nat /\ Len(requests') >= Len(requests)
      /\ \A c \in 1..Len(requests) : c \in 1..Len(requests') /\ requests'[c] = requests[c]
  <2>1. Len(requests) \in Nat
    BY <1>3 DEF RestInv, TypeOK
  <2>2. ASSUME NEW url \in ServerUrls, setServerUrl(url)
        PROVE  UNCHANGED <<completions, requests>>
    BY <2>2 DEF setServerUrl
  <2>3. ASSUME NEW use \in Uses, startRequest(use.verb, use.endpoint, use.pending)
        PROVE  /\ UNCHANGED completions /\ Len(requests') = Len(requests) + 1
               /\ \A c \in 1..Len(requests) : requests'[c] = requests[c]
    BY <1>3, <2>3, StartEffect DEF RestInv
  <2> QED
    BY <1>1, <2>1, <2>2, <2>3 DEF ApplicationStep
<1>5. ASSUME NEW c \in 1..Len(requests), NEW body, WasUploaded(c, body)
      PROVE  WasUploaded(c, body)'
  <2>1. AskedFor(c)' = AskedFor(c)
    BY <1>4 DEF AskedFor
  <2>2. DoneAs(AskedFor(c))' = DoneAs(AskedFor(c))
    BY <1>1, <2>1 DEF DoneAs
  <2> QED
    BY <1>1, <1>5, <2>2 DEF WasUploaded
<1>6. ResponsesTrue'
  BY <1>1, <1>4, <1>5 DEF SessionInv, ResponsesTrue, serverState
<1>7. DownloadsAreTrue'
  <2> SUFFICES ASSUME NEW c \in Calls, NEW i \in 1..Len(completions[c]), completions[c][i].ok
               PROVE  \E u \in DoneAs(AskedFor(c))' :
                        LeftBy(uploads'[u], completions[c][i].body)
    BY <1>4 DEF DownloadsAreTrue
  <2>1. c \in 1..Len(requests)
    <3>1. completions[c] # <<>>
      BY EmptySeq
    <3> QED
      BY <1>3, <1>4, <3>1, RestAssumption DEF RestInv, Calls
  <2>2. PICK body : body = completions[c][i].body
    OBVIOUS
  <2>3. WasUploaded(c, body)
    BY <2>2 DEF SessionInv, DownloadsAreTrue, WasUploaded
  <2>4. WasUploaded(c, body)'
    BY <1>5, <2>1, <2>3
  <2> QED
    BY <2>2, <2>4 DEF WasUploaded
<1> QED
  BY <1>1, <1>2, <1>3, <1>6, <1>7, LogsStay DEF SessionInv

\* A reply finishes: a callback that is told of a success is told the truth.
LEMMA ReplyStep ==
  ASSUME SessionInv, NEW c \in 1..Len(requests), NEW result \in Results, handleResponse(c, result),
         UNCHANGED <<serverState, uploads>>,
         ~result.error => WasUploaded(c, result.body)
  PROVE  SessionInv' /\ [Next]_clientVars
<1>1. Next
  BY DEF Next
<1>2. RestInv /\ RestInv'
  BY <1>1, NextInv DEF SessionInv
<1>3. UNCHANGED requests
  BY DEF handleResponse, clientVars
<1>4. \A d, body : WasUploaded(d, body) => WasUploaded(d, body)'
  <2> SUFFICES ASSUME NEW d, NEW body, WasUploaded(d, body)
               PROVE  WasUploaded(d, body)'
    OBVIOUS
  <2>1. DoneAs(AskedFor(d))' = DoneAs(AskedFor(d))
    BY <1>3 DEF DoneAs, AskedFor
  <2> QED
    BY <2>1 DEF WasUploaded
<1>5. ResponsesTrue'
  BY <1>3, <1>4 DEF SessionInv, ResponsesTrue, serverState
<1>6. ASSUME NEW d \in Calls, NEW i \in 1..Len(completions'[d]), completions'[d][i].ok
      PROVE  WasUploaded(d, completions'[d][i].body)
  <2>1. CASE completions'[d] = completions[d]
    BY <1>6, <2>1 DEF SessionInv, DownloadsAreTrue, WasUploaded
  <2>2. CASE completions'[d] # completions[d]
    <3>1. c \in DOMAIN m_pendingRequests
      BY <2>2 DEF handleResponse, clientVars
    <3> DEFINE outcome == Outcome(m_pendingRequests[c], result)
    <3>2. /\ c \in Calls /\ completions[c] = <<>>
          /\ completions' \in {completions, [completions EXCEPT ![c] = Append(@, outcome)]}
      BY <1>2, <3>1, ResponseEffect DEF RestInv
    <3>3. outcome.ok => ~result.error /\ outcome.body = result.body
      BY DEF Outcome, Success, Failure
    <3> HIDE DEF outcome
    <3>4. completions' = [completions EXCEPT ![c] = <<outcome>>]
      <4>1. Append(<<>>, outcome) = <<outcome>>
        OBVIOUS
      <4> QED
        BY <2>2, <3>2, <4>1
    <3>5. d = c /\ completions'[d] = <<outcome>>
      BY <1>2, <2>2, <3>2, <3>4 DEF RestInv, TypeOK
    <3>6. completions'[d][i] = outcome
      BY <1>6, <3>5
    <3> QED
      BY <1>6, <3>3, <3>5, <3>6
  <2> QED
    BY <2>1, <2>2
<1>7. DownloadsAreTrue'
  <2> SUFFICES ASSUME NEW d \in Calls, NEW i \in 1..Len(completions'[d]), completions'[d][i].ok
               PROVE  \E u \in DoneAs(AskedFor(d))' :
                        LeftBy(uploads'[u], completions'[d][i].body)
    BY DEF DownloadsAreTrue
  <2>1. PICK body : body = completions'[d][i].body
    OBVIOUS
  <2>2. WasUploaded(d, body)'
    BY <1>4, <1>6, <2>1
  <2> QED
    BY <2>1, <2>2 DEF WasUploaded
<1> QED
  BY <1>1, <1>2, <1>5, <1>7, LogsStay DEF SessionInv

\* The server answers a request of the client.
LEMMA ServerStep ==
  ASSUME SessionInv, NEW c \in Calls, ServerHandles(c)
  PROVE  SessionInv' /\ UNCHANGED clientVars
<1>1. UNCHANGED <<clientVars, uploads>>
  BY DEF ServerHandles
<1>2. UNCHANGED <<m_serverUrl, m_pendingRequests, requests, completions>>
  BY <1>1 DEF clientVars
<1>3. DOMAIN responses = Sockets /\ c \in Sockets
  BY SocketsAre DEF SessionInv, LogsOK
<1>4. \A name \in DOMAIN files : files[name] \in Bodies
  BY DEF SessionInv, FilesKept
<1>5. /\ c \in 1..Len(requests)
      /\ UNCHANGED <<files, diskFull>>
      /\ \E r \in ClientResponses :
           /\ responses' = [responses EXCEPT ![c] = <<r>>]
           /\ r.status < 400 => AskedFor(c) \in DOMAIN files /\ r.body = files[AskedFor(c)]
  BY <1>3, <1>4, CallEffect DEF SessionInv
<1>6. PICK r \in ClientResponses :
        /\ responses' = [responses EXCEPT ![c] = <<r>>]
        /\ r.status < 400 => AskedFor(c) \in DOMAIN files /\ r.body = files[AskedFor(c)]
  BY <1>5
<1>7. r.status < 400 => WasUploaded(c, r.body)
  <2> SUFFICES ASSUME r.status < 400 PROVE WasUploaded(c, r.body)
    OBVIOUS
  <2>1. PICK name : name = AskedFor(c)
    OBVIOUS
  <2>2. name \in DOMAIN files /\ r.body = files[name]
    BY <1>6, <2>1
  <2>3. PICK u \in 1..Len(uploads) :
          LastDone(u, name) /\ LeftBy(uploads[u], files[name])
    BY <2>2 DEF SessionInv, FilesKept
  <2> QED
    BY <2>1, <2>2, <2>3 DEF WasUploaded, LastDone
<1>8. /\ DOMAIN responses' = Sockets /\ responses'[c] = <<r>>
      /\ \A s \in Sockets \ {c} : responses'[s] = responses[s]
  BY <1>3, <1>6
<1>9. LogsOK'
  <2>1. \A n \in Nat : Len(uploads) <= n /\ n < MaxUploads => responses'[MaxCalls + n + 1] = <<>>
    <3> SUFFICES ASSUME NEW n \in Nat, Len(uploads) <= n, n < MaxUploads
                 PROVE  responses'[MaxCalls + n + 1] = <<>>
      OBVIOUS
    <3>1. MaxCalls + n + 1 \in Sockets /\ MaxCalls + n + 1 # c
      BY SocketsAre
    <3>2. responses[MaxCalls + n + 1] = <<>>
      BY DEF SessionInv, LogsOK
    <3> QED
      BY <1>8, <3>1, <3>2
  <2>2. \A d \in Calls : responses'[d] = <<>> \/ \E s \in ClientResponses : responses'[d] = <<s>>
    <3> SUFFICES ASSUME NEW d \in Calls
                 PROVE  responses'[d] = <<>> \/ \E s \in ClientResponses : responses'[d] = <<s>>
      OBVIOUS
    <3>1. CASE d = c
      BY <1>8, <3>1
    <3>2. CASE d # c
      BY <1>8, <3>2, SocketsAre DEF SessionInv, LogsOK
    <3> QED
      BY <3>1, <3>2
  <2> QED
    BY <1>1, <1>5, <1>8, <2>1, <2>2 DEF SessionInv, LogsOK
<1>10. \A d, body : WasUploaded(d, body) <=> WasUploaded(d, body)'
  <2> SUFFICES ASSUME NEW d, NEW body
               PROVE  WasUploaded(d, body) <=> WasUploaded(d, body)'
    OBVIOUS
  <2>1. DoneAs(AskedFor(d))' = DoneAs(AskedFor(d))
    BY <1>1, <1>2 DEF DoneAs, AskedFor
  <2> QED
    BY <1>1, <2>1 DEF WasUploaded
<1>11. ResponsesTrue'
  <2> SUFFICES ASSUME NEW d \in Calls, NEW s \in ClientResponses, responses'[d] = <<s>>
               PROVE  d \in 1..Len(requests) /\ (s.status < 400 => WasUploaded(d, s.body)')
    BY <1>2 DEF ResponsesTrue
  <2>1. CASE d = c
    <3>1. s = r
      BY <1>8, <2>1
    <3> QED
      BY <1>5, <1>7, <1>10, <2>1, <3>1
  <2>2. CASE d # c
    <3>1. responses[d] = <<s>>
      BY <1>8, <2>2, SocketsAre
    <3> QED
      BY <1>10, <3>1 DEF SessionInv, ResponsesTrue
  <2> QED
    BY <2>1, <2>2
<1>12. FilesKept' /\ ReportedHadFiles'
  <2>1. \A name : DoneAs(name)' = DoneAs(name)
    BY <1>1 DEF DoneAs
  <2> QED
    BY <1>1, <1>5, <2>1 DEF SessionInv, FilesKept, ReportedHadFiles, LastDone
<1>13. DownloadsAreTrue'
  <2>1. \A d : DoneAs(AskedFor(d))' = DoneAs(AskedFor(d))
    BY <1>1, <1>2 DEF DoneAs, AskedFor
  <2> QED
    BY <1>1, <1>2, <2>1 DEF SessionInv, DownloadsAreTrue
<1>14. RestInv'
  BY <1>1, NextInv DEF SessionInv
<1> QED
  BY <1>1, <1>9, <1>11, <1>12, <1>13, <1>14 DEF SessionInv

\* The response of the server arrives, or the network fails.
LEMMA NetworkStep ==
  ASSUME SessionInv, NEW c \in Calls, ResponseArrives(c) \/ NetworkFails(c)
  PROVE  SessionInv' /\ [Next]_clientVars
<1>1. c \in 1..Len(requests)
  BY RestAssumption DEF ResponseArrives, NetworkFails, Calls, SessionInv, RestInv, TypeOK
<1>2. ASSUME ResponseArrives(c)
      PROVE  SessionInv' /\ [Next]_clientVars
  <2>1. PICK r \in ClientResponses : responses[c] = <<r>>
    BY <1>2 DEF ResponseArrives, SessionInv, LogsOK
  <2>2. Head(responses[c]) = r
    BY <2>1
  <2> DEFINE result == Status(r)
  <2>3. /\ result \in Results /\ result.body = r.body
        /\ ~result.error => r.status < 400
    <3>1. r.status \in Nat /\ r.body \in Bodies
      BY DEF ClientResponses
    <3>2. (r.status >= 400) \in BOOLEAN /\ (~(r.status >= 400) => r.status < 400)
      BY <3>1
    <3>3. result \in Results
      BY <3>1, <3>2 DEF Status, Results
    <3>4. result.body = r.body /\ (~result.error => r.status < 400)
      BY <3>2 DEF Status
    <3> QED
      BY <3>3, <3>4
  <2>4. handleResponse(c, result) /\ UNCHANGED <<serverState, uploads>>
    BY <1>2, <2>2 DEF ResponseArrives
  <2>5. ~result.error => WasUploaded(c, result.body)
    BY <2>1, <2>3 DEF SessionInv, ResponsesTrue
  <2> HIDE DEF result
  <2> QED
    BY <1>1, <2>3, <2>4, <2>5, ReplyStep
<1>3. ASSUME NetworkFails(c)
      PROVE  SessionInv' /\ [Next]_clientVars
  <2> DEFINE result == [error |-> TRUE, body |-> NoBody]
  <2>1. result \in Results /\ result.error
    BY RestAssumption DEF Results
  <2>2. handleResponse(c, result) /\ UNCHANGED <<serverState, uploads>>
    BY <1>3 DEF NetworkFails
  <2> HIDE DEF result
  <2> QED
    BY <1>1, <2>1, <2>2, ReplyStep
<1> QED
  BY <1>2, <1>3

\* The file system fills up, or room is made.
LEMMA DiskStep ==
  ASSUME SessionInv, Server!diskChanges, UNCHANGED <<clientVars, uploads>>
  PROVE  SessionInv'
<1>1. UNCHANGED <<files, responses, requests, completions>> /\ diskFull' \in BOOLEAN
  BY DEF Server!diskChanges, clientVars
<1>2. \A name : DoneAs(name)' = DoneAs(name)
  BY DEF DoneAs
<1>3. \A d : DoneAs(AskedFor(d))' = DoneAs(AskedFor(d))
  BY <1>1 DEF DoneAs, AskedFor
<1>4. LogsOK' /\ ReportedHadFiles'
  BY <1>1 DEF SessionInv, LogsOK, ReportedHadFiles
<1>5. FilesKept'
  BY <1>1, <1>2 DEF SessionInv, FilesKept, LastDone
<1>6. ResponsesTrue' /\ DownloadsAreTrue'
  BY <1>1, <1>3 DEF SessionInv, ResponsesTrue, DownloadsAreTrue, WasUploaded
<1>7. RestInv'
  BY NextInv DEF SessionInv
<1> QED
  BY <1>4, <1>5, <1>6, <1>7 DEF SessionInv

\* Nothing has been uploaded, asked or answered.
LEMMA SessionInitInv == SessionInit => SessionInv
<1> SUFFICES ASSUME SessionInit PROVE SessionInv
  OBVIOUS
<1>1. /\ uploads = <<>> /\ DOMAIN files = {} /\ diskFull = FALSE
      /\ responses = [s \in Sockets |-> <<>>]
  BY DEF SessionInit, Server!Init
<1>2. uploads \in Seq(UploadRecords) /\ Len(uploads) = 0
  BY <1>1, EmptySeq
<1>3. RestInv /\ \A c \in Calls : completions[c] = <<>> /\ Len(completions[c]) = 0
  <2>1. Init
    BY DEF SessionInit
  <2> QED
    BY <2>1, InitInv, EmptySeq DEF Init
<1>4. LogsOK
  <2>1. /\ \A c \in Calls : responses[c] = <<>>
        /\ \A n \in Nat : n < MaxUploads => responses[MaxCalls + n + 1] = <<>>
    BY <1>1, SocketsAre
  <2>2. Len(uploads) <= MaxUploads
    <3>1. MaxUploads \in Nat
      BY SessionAssumption
    <3> QED
      BY ONLY <1>2, <3>1
  <2>3. DOMAIN responses = Sockets /\ diskFull \in BOOLEAN
    BY <1>1
  <2> QED
    BY <1>2, <2>1, <2>2, <2>3 DEF LogsOK
<1>5. ReportedHadFiles /\ FilesKept
  BY <1>1, <1>2 DEF ReportedHadFiles, FilesKept
<1>6. ResponsesTrue
  <2>1. \A c \in Calls : responses[c] = <<>>
    BY <1>1, SocketsAre
  <2>2. \A r \in ClientResponses : <<>> # <<r>>
    OBVIOUS
  <2> QED
    BY <2>1, <2>2 DEF ResponsesTrue
<1>7. DownloadsAreTrue
  BY <1>3 DEF DownloadsAreTrue
<1> QED
  BY <1>3, <1>4, <1>5, <1>6, <1>7 DEF SessionInv

\* Every step of the session keeps the invariant, and is one of the client's or leaves
\* the client alone.
LEMMA SessionNextInv ==
  ASSUME SessionInv, [SessionNext]_sessionVars
  PROVE  SessionInv' /\ [Next]_clientVars
<1>1. CASE UNCHANGED sessionVars
  <2>1. UNCHANGED <<clientVars, serverState, uploads>>
    BY <1>1 DEF sessionVars
  <2>2. UNCHANGED <<requests, completions, responses>>
    BY <2>1 DEF clientVars, serverState
  <2>3. \A d : DoneAs(AskedFor(d))' = DoneAs(AskedFor(d))
    BY <2>1, <2>2 DEF DoneAs, AskedFor
  <2>4. ResponsesTrue' /\ DownloadsAreTrue'
    BY <2>1, <2>2, <2>3 DEF SessionInv, ResponsesTrue, DownloadsAreTrue, WasUploaded
  <2> QED
    BY <2>1, <2>4, LogsStay, NextInv DEF SessionInv
<1>2. CASE ClientActs
  BY <1>2, ClientStep
<1>3. ASSUME NEW c \in Calls, ServerHandles(c)
      PROVE  SessionInv' /\ [Next]_clientVars
  BY <1>3, ServerStep
<1>4. ASSUME NEW c \in Calls, ResponseArrives(c) \/ NetworkFails(c)
      PROVE  SessionInv' /\ [Next]_clientVars
  BY <1>4, NetworkStep
<1>5. CASE (\E form \in Forms : BrowserUploads(form)) \/ BrowserAsks
  BY <1>5, BrowserStep
<1>6. CASE Server!diskChanges /\ UNCHANGED <<clientVars, uploads>>
  BY <1>6, DiskStep
<1> QED
  BY <1>1, <1>2, <1>3, <1>4, <1>5, <1>6 DEF SessionNext

----------------------------------------------------------------------------
(* The theorems. *)

\* The session keeps its invariant, and its steps are steps of the client.
LEMMA SessionInductive == SessionSpec => []SessionInv /\ [][Next]_clientVars
<1>1. SessionInv /\ [SessionNext]_sessionVars => SessionInv' /\ [Next]_clientVars
  BY SessionNextInv
<1> QED
  BY SessionInitInv, <1>1, PTL DEF SessionSpec

\* With this server behind it, uploads and a full disk included, the client behaves as
\* RestClient says, and so implements RequestLedger: each call with a callback is held
\* until handleResponse completes it, once.
THEOREM SessionImplementsLedger == SessionSpec => LedgerSpec
<1>1. SessionInit => Init
  BY DEF SessionInit
<1>2. SessionSpec => Spec
  BY <1>1, SessionInductive, PTL DEF SessionSpec, Spec
<1> QED
  BY <1>2, ImplementsLedger

\* The last upload reported under a name is unique.
LEMMA LastIsChosen ==
  ASSUME LogsOK, NEW name, NEW u, LastDone(u, name)
  PROVE  u = CHOOSE v \in DoneAs(name) : \A w \in DoneAs(name) : w <= v
<1>1. \A v \in DoneAs(name) : v \in Int
  BY DEF DoneAs
<1>2. u \in DoneAs(name) /\ \A w \in DoneAs(name) : w <= u
  BY DEF LastDone
<1>3. \A v \in DoneAs(name) : (\A w \in DoneAs(name) : w <= v) => v = u
  BY <1>1, <1>2
<1> QED
  BY <1>2, <1>3

\* The server reports an upload as done only when its form held a file, and what it
\* keeps under a name is the last one it reported there, or a beginning of it if the
\* disk was full, however uploads, refusals and failed writes come in between.
THEOREM ReportedIsKeptHolds == SessionSpec => []ReportedIsKept
<1>1. ASSUME SessionInv PROVE ReportedIsKept
  <2>1. ASSUME NEW name \in DOMAIN files
        PROVE  /\ DoneAs(name) # {}
               /\ LET last == CHOOSE u \in DoneAs(name) : \A v \in DoneAs(name) : v <= u
                  IN LeftBy(uploads[last], files[name])
    <3>1. PICK u \in 1..Len(uploads) :
            LastDone(u, name) /\ LeftBy(uploads[u], files[name])
      BY <1>1 DEF SessionInv, FilesKept
    <3>2. u = CHOOSE v \in DoneAs(name) : \A w \in DoneAs(name) : w <= v
      BY <1>1, <3>1, LastIsChosen DEF SessionInv
    <3> QED
      BY <3>1, <3>2 DEF LastDone
  <2> QED
    BY <1>1, <2>1 DEF ReportedIsKept, SessionInv, ReportedHadFiles
<1> QED
  BY <1>1, SessionInductive, PTL

\* A download that succeeds gives the application a file that was uploaded under the
\* name it asked for, or a beginning of it if the disk was full, though the file may
\* have been replaced, or the call been answered late, since.
THEOREM DownloadsAreTrueHolds == SessionSpec => []DownloadsAreTrue
<1>1. SessionInv => DownloadsAreTrue
  BY DEF SessionInv
<1> QED
  BY <1>1, SessionInductive, PTL

----------------------------------------------------------------------------
(* What browsers are told. *)

\* What the server tells the browser of an upload fits the form.
LEMMA UploadIsJudged ==
  ASSUME DOMAIN responses = Sockets, NEW form \in Forms, BrowserUploads(form),
         Len(uploads) \in Nat,
         responses[MaxCalls + Len(uploads) + 1] = <<>>
  PROVE  HasFile(form) <=> Head(responses'[MaxCalls + Len(uploads) + 1]).status \in {200, 500}
<1> DEFINE socket == MaxCalls + Len(uploads) + 1
           file == Server!parseMultipartFile(Encode(form))
           Answers(status, body) == Server!sendResponse(socket, status, body)
<1>1. socket \in Sockets
  <2>1. Len(uploads) < MaxUploads
    BY Zenon DEF BrowserUploads
  <2> QED
    BY <2>1, SocketsAre
<1>2. Server!handleUploadMedia(socket, form.boundary, Encode(form))
  BY Zenon DEF BrowserUploads, Server!handleHttpRequest
<1>3. ASSUME NEW status \in Nat, NEW body, Answers(status, body)
      PROVE  Head(responses'[socket]).status = status
  <2> DEFINE r == [status |-> status, body |-> body]
  <2>1. Append(<<>>, r) = <<r>> /\ Head(<<r>>) = r /\ r.status = status
    OBVIOUS
  <2>2. responses' = [responses EXCEPT ![socket] = <<r>>]
    BY <1>1, <1>3, <2>1 DEF Server!sendResponse
  <2> HIDE DEF r, socket
  <2> QED
    BY <1>1, <2>1, <2>2
<1>4. \/ Answers(400, Server!Text("Missing multipart boundary")) /\ ~form.boundary
      \/ Answers(400, Server!Text("Missing file field")) /\ form.boundary /\ file.name = Server!NoName
      \/ /\ form.boundary /\ file.name # Server!NoName
         /\ \/ Answers(500, Server!Text("Failed to create media directory"))
            \/ Answers(500, Server!Text("Failed to store uploaded file"))
            \/ Answers(200, Server!Text("Uploaded"))
  BY <1>2, Zenon DEF Server!handleUploadMedia
<1>5. form.boundary => (file.name # Server!NoName <=> HasFile(form))
  BY FormsAreReadHolds DEF FormsAreRead
<1>6. HasFile(form) => form.boundary
  BY DEF HasFile
<1>7. 400 \in Nat /\ 500 \in Nat /\ 200 \in Nat /\ 400 \notin {200, 500}
  OBVIOUS
<1> HIDE DEF file, Answers
<1>8. CASE HasFile(form)
  <2> DEFINE told == Head(responses'[socket]).status
             Made == \/ Answers(500, Server!Text("Failed to create media directory"))
                     \/ Answers(500, Server!Text("Failed to store uploaded file"))
  <2>1. Made \/ Answers(200, Server!Text("Uploaded"))
    BY ONLY <1>4, <1>5, <1>6, <1>8
  <2>2. \A body : Answers(500, body) => told = 500
    BY ONLY <1>3, <1>7
  <2>3. \A body : Answers(200, body) => told = 200
    BY ONLY <1>3, <1>7
  <2> HIDE DEF told
  <2>4. Made => told = 500
    BY ONLY <2>2, Zenon
  <2>5. Answers(200, Server!Text("Uploaded")) => told = 200
    BY ONLY <2>3, Zenon
  <2> HIDE DEF Made
  <2>6. told \in {200, 500}
    BY ONLY <2>1, <2>4, <2>5
  <2> QED
    BY <1>8, <2>6 DEF told, socket
<1>9. CASE ~HasFile(form)
  <2>1. \/ Answers(400, Server!Text("Missing multipart boundary"))
        \/ Answers(400, Server!Text("Missing file field"))
    BY ONLY <1>4, <1>5, <1>9
  <2>2. \A body : Answers(400, body) => Head(responses'[socket]).status = 400
    BY ONLY <1>3, <1>7
  <2>3. Head(responses'[socket]).status = 400
    BY ONLY <2>1, <2>2, Zenon
  <2> QED
    BY <1>7, <1>9, <2>3 DEF socket
<1> QED
  BY <1>8, <1>9

\* An upload is recorded with what its browser was told; what others were told stays.
LEMMA BrowserIsTold ==
  ASSUME SessionInv, (\E form \in Forms : BrowserUploads(form)) \/ BrowserAsks
  PROVE  LET n == Len(uploads) + 1 IN
         /\ Len(uploads') = n
         /\ HasFile(uploads'[n].form) <=> Head(responses'[MaxCalls + n]).status \in {200, 500}
         /\ \A u \in 1..Len(uploads) :
              uploads'[u] = uploads[u] /\ responses'[MaxCalls + u] = responses[MaxCalls + u]
<1> DEFINE socket == MaxCalls + Len(uploads) + 1
           m == Len(uploads)
           Told(up, r) ==
             /\ uploads' = Append(uploads, up)
             /\ responses' = [responses EXCEPT ![socket] = <<r>>]
             /\ HasFile(up.form) <=> Head(responses'[socket]).status \in {200, 500}
<1>1. uploads \in Seq(UploadRecords) /\ m \in Nat /\ m <= MaxUploads /\ DOMAIN responses = Sockets
  BY DEF SessionInv, LogsOK
<1>2. MaxCalls \in Nat /\ MaxUploads \in Nat
  BY RestAssumption, SessionAssumption
<1>3. m < MaxUploads
  BY Zenon DEF BrowserUploads, BrowserAsks
<1>4. responses[socket] = <<>> /\ socket \in Sockets
  BY <1>1, <1>3, SocketsAre DEF SessionInv, LogsOK
<1>5. ASSUME NEW up \in UploadRecords, uploads' = Append(uploads, up),
             NEW r, responses' = [responses EXCEPT ![socket] = <<r>>],
             HasFile(up.form) <=> Head(responses'[socket]).status \in {200, 500}
      PROVE  /\ Len(uploads') = m + 1
             /\ HasFile(uploads'[m + 1].form) <=> Head(responses'[MaxCalls + (m + 1)]).status \in {200, 500}
             /\ \A u \in 1..m :
                  uploads'[u] = uploads[u] /\ responses'[MaxCalls + u] = responses[MaxCalls + u]
  <2>1. /\ Len(uploads') = m + 1 /\ uploads'[m + 1] = up
        /\ \A u \in 1..m : uploads'[u] = uploads[u]
    BY <1>1, <1>5, DoneGrows
  <2>2. MaxCalls + (m + 1) = socket
    BY <1>1, <1>2
  <2>3. \A u \in 1..m : MaxCalls + u \in Sockets /\ MaxCalls + u # socket
    <3> HIDE DEF m, socket
    <3>1. \A u \in 1..m : MaxCalls + u \in Sockets /\ MaxCalls + u # MaxCalls + (m + 1)
      BY <1>1, <1>2 DEF Sockets
    <3> QED
      BY <2>2, <3>1
  <2> HIDE DEF m, socket
  <2>4. \A u \in 1..m : responses'[MaxCalls + u] = responses[MaxCalls + u]
    BY <1>1, <1>5, <2>3
  <2> QED
    BY <1>5, <2>1, <2>2, <2>4
<1>6. ASSUME NEW form \in Forms, BrowserUploads(form)
      PROVE  \E up \in UploadRecords : \E r : Told(up, r)
  <2>1. PICK done \in BOOLEAN :
          uploads' = Append(uploads, [form |-> form, short |-> diskFull, done |-> done])
    BY <1>1, <1>4, <1>6, UploadEffect
  <2>2. PICK r : responses' = [responses EXCEPT ![socket] = <<r>>]
    BY <1>1, <1>4, <1>6, UploadEffect
  <2>3. HasFile(form) <=> Head(responses'[socket]).status \in {200, 500}
    BY <1>1, <1>4, <1>6, UploadIsJudged
  <2> DEFINE up == [form |-> form, short |-> diskFull, done |-> done]
  <2>4. up \in UploadRecords /\ up.form = form
    BY DEF UploadRecords, SessionInv, LogsOK
  <2> HIDE DEF up
  <2>5. uploads' = Append(uploads, up)
    BY <2>1 DEF up
  <2>6. HasFile(up.form) <=> Head(responses'[socket]).status \in {200, 500}
    BY <2>3, <2>4
  <2>7. Told(up, r)
    BY <2>2, <2>5, <2>6
  <2> HIDE DEF Told
  <2> QED
    BY <2>4, <2>7, Zenon
<1>7. ASSUME BrowserAsks
      PROVE  \E up \in UploadRecords : \E r : Told(up, r)
  <2> DEFINE up == [form |-> NoForm, short |-> FALSE, done |-> FALSE]
             r == [status |-> 204, body |-> <<>>]
  <2>1. Server!sendResponse(socket, 204, <<>>) /\ uploads' = Append(uploads, up)
    BY <1>7, Zenon DEF BrowserAsks, Server!handleHttpRequest, NoForm
  <2>2. up \in UploadRecords /\ ~HasFile(up.form)
    BY DEF UploadRecords, HasFile, NoForm
  <2>3. Append(<<>>, r) = <<r>> /\ Head(<<r>>) = r /\ r.status \notin {200, 500}
    OBVIOUS
  <2>4. responses' = [responses EXCEPT ![socket] = <<r>>]
    BY <1>4, <2>1, <2>3 DEF Server!sendResponse
  <2> HIDE DEF up, r, socket
  <2>5. responses'[socket] = <<r>>
    BY <1>1, <1>4, <2>4
  <2>6. HasFile(up.form) <=> Head(responses'[socket]).status \in {200, 500}
    BY <2>2, <2>3, <2>5
  <2>7. Told(up, r)
    BY <2>1, <2>4, <2>6
  <2> HIDE DEF Told
  <2> QED
    BY <2>2, <2>7, Zenon
<1>8. PICK up \in UploadRecords : \E r : Told(up, r)
  <2> HIDE DEF Told
  <2> QED
    BY <1>6, <1>7, Zenon
<1>9. PICK r : Told(up, r)
  BY <1>8
<1> HIDE DEF socket
<1> QED
  BY <1>5, <1>9 DEF m

\* A step that is no browser's tells browsers nothing.
LEMMA OthersTellNothing ==
  ASSUME SessionInv, [SessionNext]_sessionVars,
         ~((\E form \in Forms : BrowserUploads(form)) \/ BrowserAsks)
  PROVE  UNCHANGED uploads /\ \A u \in 1..Len(uploads) : responses'[MaxCalls + u] = responses[MaxCalls + u]
<1>1. CASE \/ UNCHANGED sessionVars \/ ClientActs
           \/ \E c \in Calls : ResponseArrives(c) \/ NetworkFails(c)
           \/ Server!diskChanges /\ UNCHANGED <<clientVars, uploads>>
  BY <1>1 DEF sessionVars, serverState, ClientActs, ResponseArrives, NetworkFails, Server!diskChanges
<1>2. ASSUME NEW c \in Calls, ServerHandles(c)
      PROVE  UNCHANGED uploads /\ \A u \in 1..Len(uploads) : responses'[MaxCalls + u] = responses[MaxCalls + u]
  <2>1. DOMAIN responses = Sockets /\ Len(uploads) \in Nat
    BY DEF SessionInv, LogsOK
  <2>2. \A name \in DOMAIN files : files[name] \in Bodies
    BY DEF SessionInv, FilesKept
  <2>3. PICK r \in ClientResponses : responses' = [responses EXCEPT ![c] = <<r>>]
    BY <1>2, <2>1, <2>2, CallEffect DEF SessionInv
  <2>4. UNCHANGED uploads
    BY <1>2 DEF ServerHandles
  <2>5. \A u \in 1..Len(uploads) : MaxCalls + u \in Sockets /\ MaxCalls + u # c
    <3> DEFINE m == Len(uploads)
    <3>1. m \in Nat /\ m <= MaxUploads /\ MaxCalls \in Nat /\ MaxUploads \in Nat
      BY <2>1, RestAssumption, SessionAssumption DEF SessionInv, LogsOK
    <3> HIDE DEF m
    <3>2. \A u \in 1..m : MaxCalls + u \in Sockets /\ MaxCalls + u # c
      BY <3>1 DEF Sockets, Calls
    <3> QED
      BY <3>2 DEF m
  <2> QED
    BY <2>1, <2>3, <2>4, <2>5
<1> QED
  BY <1>1, <1>2 DEF SessionNext

\* A browser is told that its form is bad exactly when no part of it that arrived whole
\* names "file" and gives a file name, whatever else the form holds, however full the disk is and whatever others ask and upload
\* meanwhile (parseMultipartFile and handleUploadMedia, rest/server/Service.cpp).
THEOREM RefusalsAreRightHolds == SessionSpec => []RefusalsAreRight
<1>1. SessionInit => RefusalsAreRight
  <2> SUFFICES ASSUME SessionInit PROVE RefusalsAreRight
    OBVIOUS
  <2>1. Len(uploads) = 0
    BY EmptySeq DEF SessionInit
  <2> QED
    BY <2>1 DEF RefusalsAreRight
<1>2. SessionInv /\ RefusalsAreRight /\ [SessionNext]_sessionVars => RefusalsAreRight'
  <2> SUFFICES ASSUME SessionInv, RefusalsAreRight, [SessionNext]_sessionVars
               PROVE  RefusalsAreRight'
    OBVIOUS
  <2>1. CASE (\E form \in Forms : BrowserUploads(form)) \/ BrowserAsks
    <3> DEFINE m == Len(uploads)
    <3>1. /\ Len(uploads') = m + 1
          /\ HasFile(uploads'[m + 1].form) <=> Head(responses'[MaxCalls + (m + 1)]).status \in {200, 500}
          /\ \A u \in 1..m :
               uploads'[u] = uploads[u] /\ responses'[MaxCalls + u] = responses[MaxCalls + u]
      BY <2>1, BrowserIsTold
    <3>2. 1..(m + 1) = 1..m \cup {m + 1}
      <4>1. m \in Nat
        BY DEF SessionInv, LogsOK
      <4> HIDE DEF m
      <4> QED
        BY <4>1
    <3>3. \A u \in 1..m : HasFile(uploads[u].form) <=> Head(responses[MaxCalls + u]).status \in {200, 500}
      BY DEF RefusalsAreRight
    <3> HIDE DEF m
    <3>4. \A u \in 1..(m + 1) : HasFile(uploads'[u].form) <=> Head(responses'[MaxCalls + u]).status \in {200, 500}
      BY <3>1, <3>2, <3>3
    <3> QED
      BY <3>1, <3>4 DEF RefusalsAreRight
  <2>2. CASE ~((\E form \in Forms : BrowserUploads(form)) \/ BrowserAsks)
    <3>1. UNCHANGED uploads /\ \A u \in 1..Len(uploads) : responses'[MaxCalls + u] = responses[MaxCalls + u]
      BY <2>2, OthersTellNothing
    <3> QED
      BY <3>1 DEF RefusalsAreRight
  <2> QED
    BY <2>1, <2>2
<1> QED
  BY <1>1, <1>2, SessionInductive, PTL DEF SessionSpec
=============================================================================
