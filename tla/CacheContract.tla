---------------------------- MODULE CacheContract ----------------------------
(***************************************************************************)
(* What the application cache promises to the pages that share it.         *)
(*                                                                         *)
(*   - A page sees every key that was there when it began; keys that are   *)
(*     added while it loads may be missing.                                *)
(*   - What it edits takes effect when it ends, for all its keys at once;  *)
(*     the keys it does not edit keep what other pages made of them.       *)
(*   - A key that was removed comes back only when a page adds it: to      *)
(*     change a key that another page has removed has no effect.           *)
(*   - A key goes away by itself only when a page asked for that.          *)
(*                                                                         *)
(* The Application object of the COM server (module ClassicApplication) is *)
(* shown to implement this module.                                         *)
(***************************************************************************)
CONSTANTS
    Keys,     \* the names in the cache
    Values,   \* what can be stored under a name
    None,     \* no value
    Pages     \* the pages that use the cache

VARIABLES
    content,   \* content[k]: what is stored under k, or None
    lapsing,   \* the keys that will go away by themselves
    lapsed,    \* the keys that did, and that may still be changed
    page       \* page[p]: the view and the edits of a page

ccvars == <<content, lapsing, lapsed, page>>

Edits == {"keep", "add", "change", "remove"}

Unopened == [stage |-> "unopened", listed |-> {}, view |-> [k \in Keys |-> None],
             edits |-> [k \in Keys |-> "keep"], ask |-> {}]

Init ==
    /\ content = [k \in Keys |-> None]
    /\ lapsing = {}
    /\ lapsed = {}
    /\ page = [p \in Pages |-> Unopened]

Filled == {k \in Keys : content[k] # None}

Here(p) == {k \in Keys : page[p].view[k] # None}

Begin(p) ==
    /\ page[p].stage = "unopened"
    /\ \E keys \in SUBSET Keys :
          /\ Filled \subseteq keys
          /\ page' = [page EXCEPT ![p].stage = "begun", ![p].listed = keys]
    /\ UNCHANGED <<content, lapsing, lapsed>>

Open(p) ==
    /\ \/ page[p].stage = "begun"
       \/ page[p].stage = "unopened" /\ Filled = {}
    /\ page' = [page EXCEPT ![p].stage = "open",
                            ![p].listed = {},
                            ![p].view = [k \in Keys |-> IF k \in page[p].listed
                                                        THEN content[k] ELSE None]]
    /\ UNCHANGED <<content, lapsing, lapsed>>

Put(p, k, v) ==
    page' = [page EXCEPT ![p].view[k] = v,
                         ![p].edits[k] = IF k \notin Here(p) \/ @ = "add" THEN "add"
                                         ELSE "change"]

Remove(p, keys) ==
    page' = [page EXCEPT ![p].view = [k \in Keys |-> IF k \in keys THEN None ELSE @[k]],
                         ![p].edits = [k \in Keys |-> IF k \in keys THEN "remove" ELSE @[k]],
                         ![p].ask = @ \ keys]

Edit(p) ==
    /\ page[p].stage = "open"
    /\ \/ \E k \in Keys, v \in Values : Put(p, k, v)
       \/ \E keys \in SUBSET Here(p) : Remove(p, keys)
       \/ \E keys \in SUBSET Here(p) : page' = [page EXCEPT ![p].ask = keys]
    /\ UNCHANGED <<content, lapsing, lapsed>>

\* What the end of the page p makes of the key k.
Outcome(p, k) ==
    CASE page[p].edits[k] = "add" -> page[p].view[k]
      [] page[p].edits[k] = "remove" -> None
      [] page[p].edits[k] = "change" /\ (content[k] # None \/ k \in lapsed) -> page[p].view[k]
      [] OTHER -> content[k]

End(p) ==
    LET written == {k \in Keys : page[p].edits[k] # "keep"}
    IN /\ page[p].stage = "open"
       /\ content' = [k \in Keys |-> Outcome(p, k)]
       /\ lapsing' = {k \in (lapsing \ written) \cup page[p].ask : content'[k] # None}
       /\ lapsed' = {k \in lapsed \ written : content'[k] = None}
       /\ page' = [page EXCEPT ![p] = Unopened]

Lapse ==
    \E k \in lapsing :
       /\ content' = [content EXCEPT ![k] = None]
       /\ lapsing' = lapsing \ {k}
       /\ lapsed' = lapsed \cup {k}
       /\ UNCHANGED page

\* Changes of keys that have gone are not waited for for ever.
Forget ==
    /\ lapsed' \in SUBSET lapsed
    /\ UNCHANGED <<content, lapsing, page>>

\* The worker process of some pages dies: their edits are lost, all of them.
Abort ==
    /\ \E stopped \in SUBSET Pages :
          page' = [p \in Pages |-> IF p \in stopped THEN Unopened ELSE page[p]]
    /\ UNCHANGED <<content, lapsing, lapsed>>

Next ==
    \/ \E p \in Pages : Begin(p) \/ Open(p) \/ Edit(p) \/ End(p)
    \/ Lapse \/ Forget \/ Abort

Spec == Init /\ [][Next]_ccvars
=============================================================================
