-------------------------- MODULE FrontEndProperties ---------------------------
(***************************************************************************)
(* What makes the front end correct: its keys, its limits, and what a       *)
(* client that updates or pages through a collection can rely on.           *)
(***************************************************************************)
EXTENDS FrontEnd

(* What runs has a key file that parses behind it, no bucket is over its    *)
(* capacity, and requests are in flight only while the process runs.        *)
TypeOK ==
  /\ env \in Environments
  /\ up => file # Torn
  /\ ~up => page = None /\ \A c \in Client : request[c] = None
  /\ DOMAIN docs \subseteq Id /\ \A id \in DOMAIN docs : docs[id] \in Document
  /\ \A i \in DOMAIN bucket :
       bucket[i].tokens \in 0 .. LimitOf(i).capacity /\ bucket[i].lastRefill <= now

(* auth.js:29-51, through every restart: a key that a client was given      *)
(* stays valid until its revocation is asked, and once the revocation was   *)
(* answered it is never valid again.                                        *)
KeysAsAnswered ==
  up => \A k \in DOMAIN told : IsValid(k) <=> ~told[k]

(* rateLimit.js:15-43, whatever sweep drops: over any span of one run of    *)
(* the process, an identity is admitted at most a full bucket and what      *)
(* refills in that span.                                                    *)
RateBounded ==
  \A i \in DOMAIN history :
    LET at == history[i] IN
    \A m \in DOMAIN at : \A n \in m .. Len(at) :
      (n - m + 1) * Unit <= LimitOf(i).capacity + LimitOf(i).refill * (at[n] - at[m])

(* index.js:232-257: a document that no other update crossed between the    *)
(* read and the write of a PATCH is what its updates make of it one after   *)
(* the other; no field is lost and no deleted document comes back.          *)
UpdatesAreKept ==
  \A id \in Id \ crossed :
    /\ id \in DOMAIN docs <=> id \in DOMAIN merged
    /\ id \in DOMAIN docs => docs[id] = merged[id]

(* query.js:116-131 over colony.js:238-252: a client that follows the       *)
(* cursors to the end, with every cursor's document untouched till it was   *)
(* used, gets each document that was there and untouched all along exactly  *)
(* once if it matches and never if not, however the others come, go, move,  *)
(* and begin or cease to match.                                             *)
PagesExact ==
  page # None /\ page.state = "done" /\ page.firm =>
    \A id \in page.steady :
      page.times[id] = IF Matches(docs[id], env.query) THEN 1 ELSE 0
================================================================================
