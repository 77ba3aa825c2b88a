----------------------------- MODULE RestClient -----------------------------
(***************************************************************************)
(* Rest::Client::Service (rest/client/Service.cpp): HTTP requests, each    *)
(* answered through a callback when the network reply finishes.            *)
(*                                                                         *)
(* A reply is known by the number of the call that made it.  A callback is *)
(* called last in handleResponse, the table already updated: what it does  *)
(* to the service is what the application does right after.                *)
(*                                                                         *)
(* A url is its host and whether a slash ends it; a path is the segments   *)
(* its slashes separate, so that a leading slash is an empty first one.    *)
(* A definition X_Y is X with the mistake Y, used by no specification.     *)
(***************************************************************************)
EXTENDS Naturals, Sequences, Functions

CONSTANTS
  ServerUrls,    \* urls of the server, [host, slash]
  DefaultUrl,    \* the one a service starts with
  Uses,          \* the calls the application makes, see UsesAssumption
  Bodies,        \* what a reply may carry
  ObjectBodies,  \* those that are the text of a JSON object
  NoBody,        \* the empty one
  MaxCalls       \* bound: requests made

Verbs == {"GET", "POST", "PUT", "DELETE"}

EmptySegment == ""   \* a path begins with one

\* hasCallback: the std::function is not empty.
PendingRequests == [isBinaryDownload : BOOLEAN, hasCallback : BOOLEAN]

\* An endpoint is a path, with or without a leading slash.
ASSUME UsesAssumption ==
  \A use \in Uses :
    /\ use.verb \in Verbs
    /\ use.endpoint \in Seq(STRING) /\ Len(use.endpoint) > 0
    /\ use.pending \in PendingRequests
    /\ use.pending.isBinaryDownload => use.verb = "GET"

ASSUME RestAssumption ==
  /\ DefaultUrl \in ServerUrls
  /\ NoBody \in Bodies
  /\ ObjectBodies \subseteq Bodies
  /\ MaxCalls \in Nat

VARIABLES
  m_serverUrl,
  m_pendingRequests,  \* reply -> what the application waits for
  requests,           \* the requests made, in order
  completions         \* for each call, the callbacks it has received, in order

clientVars == <<m_serverUrl, m_pendingRequests, requests, completions>>

Calls == 1..MaxCalls

Paths == {use.endpoint : use \in Uses} \cup {<<EmptySegment>> \o use.endpoint : use \in Uses}
Requests == [verb : Verbs, path : Paths, pending : PendingRequests]

Results == [error : BOOLEAN, body : Bodies]   \* of a finished reply
Success(body) == [ok |-> TRUE, body |-> body]
Failure == [ok |-> FALSE, body |-> NoBody]
Outcomes == {Success(body) : body \in Bodies} \cup {Failure}

Init ==
  /\ m_serverUrl = DefaultUrl
  /\ m_pendingRequests = [reply \in {} |-> Failure]
  /\ requests = <<>>
  /\ completions = [c \in Calls |-> <<>>]

----------------------------------------------------------------------------

setServerUrl(url) ==
  /\ m_serverUrl # url
  /\ m_serverUrl' = url
  /\ UNCHANGED <<m_pendingRequests, requests, completions>>

\* A slash is added when neither side has one, and none is taken when both have.
createRequest(endpoint) ==
  IF m_serverUrl.slash \/ Head(endpoint) # EmptySegment
  THEN <<EmptySegment>> \o endpoint ELSE endpoint

\* get, post, put, deleteResource and download, by startJsonRequest and
\* startBinaryRequest.
startRequest(verb, endpoint, pending) ==
  LET reply == Len(requests) + 1 IN
  /\ reply <= MaxCalls
  /\ requests' = Append(requests, [verb |-> verb, path |-> createRequest(endpoint), pending |-> pending])
  /\ m_pendingRequests' = [r \in DOMAIN m_pendingRequests \cup {reply} |->
                             IF r = reply THEN pending ELSE m_pendingRequests[r]]
  /\ UNCHANGED <<m_serverUrl, completions>>

\* Which callback an outcome goes to: dataCallback or responseCallback, if it is set.
RunsCallback_JsonOnly(pending, result) ==
  pending.hasCallback /\ (result.error => ~pending.isBinaryDownload)
RunsCallback(pending, result) == pending.hasCallback

Outcome_ErrorBody(pending, result) ==
  IF pending.isBinaryDownload \/ result.body \in ObjectBodies THEN Success(result.body) ELSE Failure

Outcome(pending, result) ==
  IF ~result.error /\ (pending.isBinaryDownload \/ result.body \in ObjectBodies)
  THEN Success(result.body) ELSE Failure

Take_Value(reply) == m_pendingRequests
Take(reply) == Restrict(m_pendingRequests, DOMAIN m_pendingRequests \ {reply})

\* The reply finishes.  One that is not pending is left alone.
handleResponse(reply, result) ==
  LET pending == m_pendingRequests[reply] IN
  \/ /\ reply \notin DOMAIN m_pendingRequests
     /\ UNCHANGED clientVars
  \/ /\ reply \in DOMAIN m_pendingRequests
     /\ m_pendingRequests' = Take(reply)
     /\ completions' = IF RunsCallback(pending, result)
                       THEN [completions EXCEPT ![reply] = Append(@, Outcome(pending, result))]
                       ELSE completions
     /\ UNCHANGED <<m_serverUrl, requests>>

ApplicationStep ==
  \/ \E url \in ServerUrls : setServerUrl(url)
  \/ \E use \in Uses : startRequest(use.verb, use.endpoint, use.pending)

Next ==
  \/ ApplicationStep
  \/ \E reply \in 1..Len(requests), result \in Results : handleResponse(reply, result)

Spec == Init /\ [][Next]_clientVars

----------------------------------------------------------------------------
(* Properties. *)

TypeOK ==
  /\ m_serverUrl \in ServerUrls
  /\ requests \in Seq(Requests) /\ Len(requests) <= MaxCalls
  /\ DOMAIN m_pendingRequests \subseteq 1..Len(requests)
  /\ \A r \in DOMAIN m_pendingRequests :
       /\ m_pendingRequests[r] = requests[r].pending
       /\ completions[r] = <<>>
  /\ completions \in [Calls -> Seq(Outcomes)]

Issued == {c \in 1..Len(requests) : requests[c].pending.hasCallback}
Outstanding == {c \in Calls : c \in DOMAIN m_pendingRequests /\ m_pendingRequests[c].hasCallback}

\* The REST client makes the promise the WebSocket client makes: a call is held
\* until its callback runs, and the callback runs once, when finished is emitted
\* again for a reply whose transfer timed out as its data arrived.
Ledger == INSTANCE RequestLedger WITH issued <- Issued, outstanding <- Outstanding

LedgerSpec == Ledger!Spec
=============================================================================
