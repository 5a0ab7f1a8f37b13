--------------------------- MODULE SessionContract ---------------------------
(***************************************************************************)
(* What a session promises to the pages of one browser that sends its      *)
(* requests one after another, whatever identifiers, cookies and Redis     *)
(* keys are used to keep the promise:                                      *)
(*                                                                         *)
(*   - a page starts from what the previous page left,                     *)
(*   - what it edits is there for the next page, all of it or none,        *)
(*   - a read-only page leaves the contents alone,                         *)
(*   - after Session.Abandon the next page starts empty.                   *)
(*                                                                         *)
(* The session object of the COM server (module ClassicSession) is shown   *)
(* to implement this module.                                               *)
(***************************************************************************)
CONSTANTS
    Browsers,   \* the users of the site
    Values,     \* what a page can put into its session
    MayLapse,   \* may the contents time out between two pages?
    MayAbort    \* may a page stop half-way (its worker process dies)?

VARIABLES
    content,    \* content[b]: what the next page of b will find
    page        \* page[b]: the page of b that runs now, or Idle

cvars == <<content, page>>

Idle == [running |-> FALSE, view |-> {}, ro |-> FALSE, gone |-> FALSE]

Page == [running : BOOLEAN, view : SUBSET Values, ro : BOOLEAN, gone : BOOLEAN]

ContractTypeOK ==
    /\ content \in [Browsers -> SUBSET Values]
    /\ page \in [Browsers -> Page]

Init ==
    /\ content = [b \in Browsers |-> {}]
    /\ page = [b \in Browsers |-> Idle]

Begin(b) ==
    /\ ~page[b].running
    /\ page' = [page EXCEPT ![b] = [Idle EXCEPT !.running = TRUE, !.view = content[b]]]
    /\ UNCHANGED content

\* The script changes its view, Session.Readonly, or abandons the session.
Edit(b) ==
    /\ page[b].running
    /\ \E view \in SUBSET Values, ro \in BOOLEAN, gone \in BOOLEAN :
          /\ page[b].gone => gone
          /\ page' = [page EXCEPT ![b] = [running |-> TRUE, view |-> view,
                                          ro |-> ro, gone |-> gone]]
    /\ UNCHANGED content

\* The only way a page ends: the outcome is determined by what it did.
Outcome(b) ==
    IF page[b].gone THEN {} ELSE IF page[b].ro THEN content[b] ELSE page[b].view

End(b) ==
    /\ page[b].running
    /\ content' = [content EXCEPT ![b] = Outcome(b)]
    /\ page' = [page EXCEPT ![b] = Idle]

Lapse(b) ==
    /\ MayLapse
    /\ ~page[b].running
    /\ content' = [content EXCEPT ![b] = {}]
    /\ UNCHANGED page

\* Pages stop half-way, one whose save fails or all those of a worker process
\* that dies: the contents stay, unless the page had abandoned them and the
\* browser has already been told.
Abort ==
    /\ MayAbort
    /\ \E stopped \in SUBSET Browsers :
       \E ended \in SUBSET {b \in stopped : page[b].gone} :
          /\ page' = [b \in Browsers |-> IF b \in stopped THEN Idle ELSE page[b]]
          /\ content' = [b \in Browsers |-> IF b \in ended THEN {} ELSE content[b]]

Next ==
    \/ \E b \in Browsers : Begin(b) \/ Edit(b) \/ End(b) \/ Lapse(b)
    \/ Abort

Spec == Init /\ [][Next]_cvars
=============================================================================
