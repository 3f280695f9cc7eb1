------------------------------ MODULE Playground -------------------------------
(***************************************************************************)
(* The API playground, pages/PlaygroundPage.tsx over sendPlaygroundRequest *)
(* of lib/gateway.ts: a form, filled from the query string of the page's   *)
(* URL, and the requests it sends.  What answers after the page was left   *)
(* goes nowhere.                                                           *)
(***************************************************************************)
EXTENDS Integers, FiniteSets

CONSTANTS
    Methods,    \* METHODS
    WithBody,   \* POST and PUT
    Paths,
    Default,    \* the method and path of a page opened without a query string
    MaxSends    \* bound: requests sent from one page

PlaygroundAssumption ==
    /\ WithBody \subseteq Methods
    /\ Default \in Methods \X Paths
    /\ MaxSends \in Nat

Bodies == {"blank", "json", "broken"}
Forms == [target : Methods \X Paths, body : Bodies]

\* What is sent: number n, the target, and the body or none.
Requests == [n : 1..MaxSends, target : Methods \X Paths, body : {"none", "json"}]
Nothing == [n |-> 0]

VARIABLES
    shown,      \* the page is mounted
    link,       \* its query string: a target, or << >>
    form,       \* what the fields hold
    touched,    \* history: the user has changed method or path since the link
    sending,    \* the button is disabled
    pending,    \* the requests without an answer
    result,     \* the request whose answer is on the page, or Nothing
    bodyError,
    sent        \* history: the last request sent

playVars == <<shown, link, form, touched, sending, pending, result, bodyError, sent>>

Blank == [target |-> Default, body |-> "broken"]

Init ==
    /\ shown = FALSE /\ link = << >> /\ form = Blank /\ touched = FALSE
    /\ sending = FALSE /\ pending = {} /\ result = Nothing /\ bodyError = FALSE
    /\ sent = Nothing

-----------------------------------------------------------------------------
\* The page is opened, from the sidebar or by a Test button of the endpoints
\* page.  The body starts as an empty object.
OpenPage(to) ==
    /\ ~shown /\ shown' = TRUE
    /\ link' = to
    /\ form' = [target |-> IF to = << >> THEN Default ELSE to, body |-> "json"]
    /\ touched' = FALSE /\ sending' = FALSE /\ result' = Nothing /\ bodyError' = FALSE
    /\ UNCHANGED <<pending, sent>>

\* The page is left.
ClosePage ==
    /\ shown /\ shown' = FALSE
    /\ link' = << >> /\ form' = Blank /\ touched' = FALSE
    /\ sending' = FALSE /\ result' = Nothing /\ bodyError' = FALSE
    /\ pending' = {} /\ sent' = Nothing

\* Mutant: the form is filled when the page is opened only.
ResyncNever(to) == form.target

\* The effect of a new query string.
Resync(to) == IF to = << >> THEN form.target ELSE to

\* The query string changes under the open page: back, forward, the sidebar.
FollowLink(to) ==
    /\ shown /\ to # link
    /\ link' = to
    /\ form' = [form EXCEPT !.target = Resync(to)]
    /\ touched' = (touched /\ to = << >>)
    /\ UNCHANGED <<shown, sending, pending, result, bodyError, sent>>

\* The user edits the fields or presses an example.
Edit(f) ==
    /\ shown /\ f # form
    /\ form' = f
    /\ touched' = (touched \/ f.target # form.target)
    /\ UNCHANGED <<shown, link, sending, pending, result, bodyError, sent>>

ShowBody == form.target[1] \in WithBody

\* Mutant: the button stays enabled.
Enabled == TRUE

\* The button.
Ready == ~sending

\* What send() makes of the body field; "broken" is not sent at all.
BodyToSend == IF ShowBody /\ form.body = "json" THEN "json" ELSE "none"

\* send(): a broken body is reported, and the answer before it stays.
Reject ==
    /\ shown /\ Ready
    /\ ShowBody /\ form.body = "broken"
    /\ bodyError' = TRUE
    /\ UNCHANGED <<shown, link, form, touched, sending, pending, result, sent>>

Send ==
    /\ shown /\ Ready
    /\ ~(ShowBody /\ form.body = "broken")
    /\ sent.n < MaxSends
    /\ LET r == [n |-> sent.n + 1, target |-> form.target, body |-> BodyToSend]
       IN  /\ sent' = r
           /\ pending' = pending \cup {r}
    /\ bodyError' = FALSE /\ sending' = TRUE /\ result' = Nothing
    /\ UNCHANGED <<shown, link, form, touched>>

\* The answer of p, or its error, comes in.
Answer(p) ==
    /\ p \in pending
    /\ pending' = pending \ {p}
    /\ result' = p /\ sending' = FALSE
    /\ UNCHANGED <<shown, link, form, touched, bodyError, sent>>

Links == {<< >>} \cup (Methods \X Paths)

Next ==
    \/ \E to \in Links : OpenPage(to) \/ FollowLink(to)
    \/ ClosePage
    \/ \E f \in Forms : Edit(f)
    \/ Reject \/ Send
    \/ \E p \in pending : Answer(p)

Spec == Init /\ [][Next]_playVars

-----------------------------------------------------------------------------
\* The fields have their types.
TypeOK ==
    /\ shown \in BOOLEAN /\ touched \in BOOLEAN /\ sending \in BOOLEAN /\ bodyError \in BOOLEAN
    /\ link \in Links /\ form \in Forms
    /\ pending \subseteq Requests
    /\ result \in Requests \cup {Nothing} /\ sent \in Requests \cup {Nothing}

\* PlaygroundPage.tsx:71-75,189-198: the answer on the page is that of the last
\* request sent, whatever answers late, and while the page waits it waits for
\* that one alone.
AnswerIsOfLastSend ==
    /\ result # Nothing => result = sent /\ ~sending
    /\ pending = IF sending THEN {sent} ELSE {}

\* PlaygroundPage.tsx:37-42: until the user edits the target it is the one the
\* link named, also when the link changes under the open page.
FormFollowsLink == shown /\ link # << >> /\ ~touched => form.target = link

\* PlaygroundPage.tsx:44,54-66: a body is sent exactly with the methods that show
\* its field, and never a broken one.
BodiesFit ==
    \A p \in pending : p.body = "json" => p.target[1] \in WithBody

==============================================================================
