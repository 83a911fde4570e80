-------------------------------- MODULE Consent --------------------------------
(***************************************************************************)
(* Privacy notices and the consent of users to them, on the PostgreSQL     *)
(* store: GET /privacy/consent asks three questions in parallel, and       *)
(* operators publish and users consent between the answers.                *)
(***************************************************************************)
EXTENDS Integers, FiniteSetsExt

CONSTANTS
    User,         \* authenticated accounts
    MaxVersion,   \* bound: the highest notice version
    Ask           \* GET requests; each is made once

Version == 1 .. MaxVersion
Question == {"current", "latest", "has"}
None == 0

VARIABLES
    notices,     \* published versions
    consents,    \* user -> versions consented to
    accepting,   \* user -> versions of POST requests past their first query
    asks,        \* GET request -> its user, the questions open, the answers
    \* History.
    moved        \* GET request -> what happened while it was open

consentVars == <<notices, consents, accepting, asks, moved>>

NotAsked == [user |-> "nobody", open |-> {}, answer |-> <<>>, due |-> FALSE]

Init ==
    /\ notices = {}
    /\ consents = [u \in User |-> {}]
    /\ accepting = [u \in User |-> {}]
    /\ asks = [g \in Ask |-> NotAsked]
    /\ moved = [g \in Ask |-> {}]

HighestOf(S) == IF S = {} THEN None ELSE Max(S)

\* For a mutant: any consent will do.
HasConsentedEver(u) == notices # {} /\ consents[u] # {}

\* A consent to the current version or a higher one; none without a notice.
HasConsentedToCurrentVersion(u) ==
    notices # {} /\ \E v \in consents[u] : v >= HighestOf(notices)

\* What the law asks of the user: the current notice, or one after it.
NeedsConsent(u) == HighestOf(consents[u]) < HighestOf(notices)

\* What happened to the requests of these users that are open.
Note(what, users) ==
    moved' = [g \in Ask |-> IF asks[g].open # {} /\ asks[g].user \in users
                            THEN moved[g] \cup {what} ELSE moved[g]]

\* An insert with a UNIQUE version: a version below the current one is accepted.
PublishNotice(v) ==
    /\ v \notin notices
    /\ notices' = notices \cup {v}
    /\ Note("published", User)
    /\ UNCHANGED <<consents, accepting, asks>>

\* POST /consent: the notice must exist; then an upsert.
PostConsent(u, v) ==
    /\ v \in notices
    /\ accepting' = [accepting EXCEPT ![u] = @ \cup {v}]
    /\ UNCHANGED <<notices, consents, asks, moved>>

RecordConsent(u, v) ==
    /\ v \in accepting[u]
    /\ accepting' = [accepting EXCEPT ![u] = @ \ {v}]
    /\ consents' = [consents EXCEPT ![u] = @ \cup {v}]
    /\ Note("consented", {u})
    /\ UNCHANGED <<notices, asks>>

\* GET /consent: three queries at once, each answered when it is.
GetConsent(g, u) ==
    /\ asks[g] = NotAsked
    /\ asks' = [asks EXCEPT ![g] = [user |-> u, open |-> Question,
                   answer |-> [x \in Question |-> None], due |-> FALSE]]
    /\ UNCHANGED <<notices, consents, accepting, moved>>

AnswerTo(x, u) ==
    CASE x = "current" -> HighestOf(notices)
      [] x = "latest" -> HighestOf(consents[u])
      [] x = "has" -> IF HasConsentedToCurrentVersion(u) THEN 1 ELSE None

\* The last answer sends the response; "due" is what is true by then.
Answer(g, x) ==
    /\ x \in asks[g].open
    /\ asks' = [asks EXCEPT ![g].open = @ \ {x},
                            ![g].answer[x] = AnswerTo(x, asks[g].user),
                            ![g].due = NeedsConsent(asks[g].user)]
    /\ UNCHANGED <<notices, consents, accepting, moved>>

Next ==
    \/ \E v \in Version : PublishNotice(v)
    \/ \E u \in User, v \in Version : PostConsent(u, v) \/ RecordConsent(u, v)
    \/ \E g \in Ask : \/ \E u \in User : GetConsent(g, u)
                      \/ \E x \in Question : Answer(g, x)

Spec == Init /\ [][Next]_consentVars

-----------------------------------------------------------------------------
(* Properties. *)

Answered(g) == asks[g].user # "nobody" /\ asks[g].open = {}

\* requires_re_consent of the response.
Required(g) == asks[g].answer["current"] # None /\ asks[g].answer["has"] = None

\* The three answers may contradict each other, but a response that is wrong
\* when it is sent has a reason: it spares a consent that is due only if a
\* notice was published while the request was open, and asks for one that is
\* not due only if that user consented meanwhile.
ConsentReplyHasCause ==
    \A g \in Ask : Answered(g) =>
        /\ ~Required(g) /\ asks[g].due => "published" \in moved[g]
        /\ Required(g) /\ ~asks[g].due => "consented" \in moved[g]
===============================================================================
