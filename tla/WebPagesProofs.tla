----------------------------- MODULE WebPagesProofs -----------------------------
(***************************************************************************)
(* The pages of the web client, for any stations, accounts, records and    *)
(* bounds, each with the invariant that its calls, callbacks and timers    *)
(* keep: what a page shows as loading waits for an answer it will take,    *)
(* and what it shows is of what is selected on it.  The page of the        *)
(* sources, and what the pages keep together, are in WebClientProofs.      *)
(***************************************************************************)
EXTENDS StationSearch, AuditPage, KeysPage, AlertsPage, AccountsPage, Inbox, HistoryView,
        StationPages, SequenceTheorems, TLAPS

-----------------------------------------------------------------------------
(* The search of the top bar.                                              *)
Box == [term : Terms \cup {NoTerm}, request : Nat, open : BOOLEAN, loading : BOOLEAN,
        of : Terms \cup {NoTerm}]

(* A search under way has a request number that was given out; the one with*)
(* the number of the box is for the text that is in it, as long as the     *)
(* results are open.                                                       *)
SearchInv ==
    /\ box \in Box
    /\ hunts \subseteq [request : 0 .. box.request, term : Terms \cup {NoTerm}]
    /\ \A h \in hunts : box.open /\ CurrentHunt(h) => h.term = box.term
    /\ SearchWaits /\ ResultsAreOfTheTerm

LEMMA InitSearch == SearchInit => SearchInv
  BY DEF SearchInit, SearchInv, Box, SearchWaits, ResultsAreOfTheTerm

LEMMA NextSearch == SearchInv /\ [SearchNext]_searchVars => SearchInv'
<1> SUFFICES ASSUME SearchInv, [SearchNext]_searchVars PROVE SearchInv'
  OBVIOUS
<1> USE DEF SearchInv, SearchWaits, ResultsAreOfTheTerm, CurrentHunt
<1>1. CASE UNCHANGED searchVars BY <1>1 DEF searchVars
<1>2. ASSUME NEW t \in Terms \cup {NoTerm}, TypeTerm(t) PROVE SearchInv'
  <2>1. /\ box' = [term |-> t, request |-> box.request + 1, open |-> FALSE, loading |-> box.loading,
                   of |-> box.of]
        /\ hunts' = hunts
    BY <1>2 DEF TypeTerm, Box
  <2> QED BY <2>1 DEF Box
<1>3. CASE SubmitSearch
  <2>1. /\ box' = [term |-> box.term, request |-> box.request + 1, open |-> TRUE, loading |-> TRUE,
                   of |-> box.of]
        /\ hunts' = hunts \cup {[request |-> box.request + 1, term |-> box.term]}
    BY <1>3 DEF SubmitSearch, Hunt, Box
  <2>2. /\ box' \in Box /\ box'.request = box.request + 1 /\ box'.term = box.term /\ box'.loading
        /\ box.request \in Nat /\ box.term \in Terms \cup {NoTerm}
    BY <2>1 DEF Box
  <2>3. hunts' \subseteq [request : 0 .. box'.request, term : Terms \cup {NoTerm}] BY <2>1, <2>2
  <2>4. \A h \in hunts' : h.request = box'.request => h.term = box'.term BY <2>1, <2>2
  <2>5. \E h \in hunts' : h.request = box'.request
    <3> DEFINE new == [request |-> box.request + 1, term |-> box.term]
    <3>1. new \in hunts' /\ new.request = box'.request BY <2>1, <2>2
    <3> QED BY <3>1, Zenon
  <2> QED BY <2>2, <2>3, <2>4, <2>5
<1>4. CASE CloseResults
  <2>1. /\ box' = [term |-> box.term, request |-> box.request, open |-> FALSE, loading |-> box.loading,
                   of |-> box.of]
        /\ hunts' = hunts
    BY <1>4 DEF CloseResults, Box
  <2> QED BY <2>1 DEF Box
<1>5. ASSUME NEW h \in hunts, HuntEnds(h) PROVE SearchInv'
  <2>1. CASE CurrentHunt(h)
    <3>1. /\ box' = [term |-> box.term, request |-> box.request, open |-> box.open, loading |-> FALSE,
                     of |-> h.term]
          /\ hunts' = hunts \ {h}
      BY <1>5, <2>1 DEF HuntEnds, Box
    <3> QED BY <2>1, <3>1 DEF Box
  <2>2. CASE ~CurrentHunt(h) BY <1>5, <2>2 DEF HuntEnds
  <2> QED BY <2>1, <2>2
<1> QED BY <1>1, <1>2, <1>3, <1>4, <1>5 DEF SearchNext

-----------------------------------------------------------------------------
(* The page of the audit log.                                              *)
AuditOf == [sieve : Sieves, cursor : 0 .. MaxDepth]

AuditLog == [sieve : Sieves, cursors : Seq(0 .. MaxDepth), index : Nat, next : 0 .. MaxDepth,
        loading : BOOLEAN, error : BOOLEAN, of : AuditOf]

AuditReading == [of : AuditOf, active : BOOLEAN]

(* A page of the log that can be shown.                                    *)
IsALog(l) == l \in AuditLog /\ l.index \in 1 .. Len(l.cursors)

(* The reading that the page would take is of what the panel names, and so *)
(* are the events that were shown last, also while the user is not the     *)
(* Super Admin.                                                            *)
AuditInv ==
    /\ auditor \in BOOLEAN /\ IsALog(log)
    /\ readings \in SUBSET AuditReading
    /\ \A r \in readings : r.active => r.of = Subjects(log)
    /\ ~log.loading /\ ~log.error => log.of = Subjects(log)
    /\ AuditWaits

LEMMA SubjectsTyped == ASSUME NEW l, IsALog(l) PROVE Subjects(l) \in AuditOf
<1>1. /\ l.cursors \in Seq(0 .. MaxDepth) /\ l.index \in 1 .. Len(l.cursors) /\ l.sieve \in Sieves
      /\ Subjects(l) = [sieve |-> l.sieve, cursor |-> l.cursors[l.index]]
  BY DEF IsALog, AuditLog, Subjects
<1>2. l.cursors[l.index] \in 0 .. MaxDepth BY <1>1, ElementOfSeq
<1> QED BY <1>1, <1>2 DEF AuditOf

LEMMA InitAudit == AuditInit => AuditInv
<1> SUFFICES ASSUME AuditInit PROVE AuditInv OBVIOUS
<1>1. PICK s \in Sieves : log = [sieve |-> s, cursors |-> <<0>>, index |-> 1, next |-> 0, loading |-> TRUE,
                                 error |-> FALSE, of |-> [sieve |-> s, cursor |-> 0]]
  BY DEF AuditInit
<1>2. 0 \in 0 .. MaxDepth /\ <<0>> \in Seq(0 .. MaxDepth) BY AuditPageAssumption
<1>3. [sieve |-> s, cursor |-> 0] \in AuditOf BY <1>2 DEF AuditOf
<1>4. IsALog(log) /\ log.loading BY <1>1, <1>2, <1>3 DEF IsALog, AuditLog
<1>5. Subjects(log) \in AuditOf BY <1>4, SubjectsTyped
<1>6. \A r \in readings : r = [of |-> Subjects(log), active |-> TRUE] BY DEF AuditInit
<1>7. readings \in SUBSET AuditReading /\ \A r \in readings : r.of = Subjects(log)
  <2> SUFFICES ASSUME NEW r \in readings PROVE r \in AuditReading /\ r.of = Subjects(log) OBVIOUS
  <2>1. r = [of |-> Subjects(log), active |-> TRUE] BY <1>6
  <2> QED BY <1>5, <2>1 DEF AuditReading
<1>8. auditor => \E r \in readings : r.active
  <2> DEFINE r == [of |-> Subjects(log), active |-> TRUE]
  <2>1. auditor => r \in readings /\ r.active BY DEF AuditInit
  <2> QED BY <2>1, Zenon
<1> QED BY <1>4, <1>7, <1>8 DEF AuditInit, AuditInv, AuditWaits, TakesReading

(* What is asked for, by a page that shows l to the user who.              *)
LEMMA ReadsAre ==
    ASSUME readings \in SUBSET AuditReading, NEW l, IsALog(l), NEW who \in BOOLEAN, Reads(l, who)
    PROVE  /\ readings' \in SUBSET AuditReading
           /\ \A r \in readings' : r.active => who /\ r.of = Subjects(l)
           /\ who => \E r \in readings' : r.active
<1> DEFINE left == {[r EXCEPT !.active = FALSE] : r \in readings}
           new == [of |-> Subjects(l), active |-> TRUE]
<1>1. readings' = IF who THEN left \cup {new} ELSE left BY DEF Reads
<1>2. left \in SUBSET AuditReading /\ \A r \in left : ~r.active
  <2> SUFFICES ASSUME NEW r \in readings, NEW s, s = [r EXCEPT !.active = FALSE]
               PROVE  s \in AuditReading /\ ~s.active
    OBVIOUS
  <2>1. r \in AuditReading OBVIOUS
  <2>2. s = [of |-> r.of, active |-> FALSE] BY <2>1 DEF AuditReading
  <2> QED BY <2>1, <2>2 DEF AuditReading
<1>3. new \in AuditReading /\ new.of = Subjects(l) /\ new.active BY SubjectsTyped DEF AuditReading
<1> HIDE DEF left, new
<1> QED BY <1>1, <1>2, <1>3

(* A page of the log is asked for, or the same one anew.                   *)
LEMMA ShowsKeeps ==
    ASSUME AuditInv, NEW l, IsALog(l), l.loading, Shows(l)
    PROVE  AuditInv'
<1>1. readings \in SUBSET AuditReading /\ auditor \in BOOLEAN /\ Reads(l, auditor)
  BY DEF AuditInv, Shows
<1>2. Subjects(log)' = Subjects(l) /\ log' = l /\ auditor' = auditor BY DEF Shows, Subjects
<1>3. /\ readings' \in SUBSET AuditReading
      /\ \A r \in readings' : r.active => auditor /\ r.of = Subjects(l)
      /\ auditor => \E r \in readings' : r.active
  BY <1>1, ReadsAre
<1> QED BY <1>1, <1>2, <1>3 DEF AuditInv, AuditWaits, TakesReading, IsALog

LEMMA NextAudit == AuditInv /\ [AuditNext]_auditVars => AuditInv'
<1> SUFFICES ASSUME AuditInv, [AuditNext]_auditVars PROVE AuditInv'
  OBVIOUS
<1>t. IsALog(log) /\ log \in AuditLog BY DEF AuditInv, IsALog
<1>1. CASE UNCHANGED auditVars
  BY <1>1 DEF auditVars, AuditInv, AuditWaits, TakesReading, Subjects, IsALog
<1>2. ASSUME NEW r \in readings, AuditArrives(r) PROVE AuditInv'
  <2>1. readings' = readings \ {r} /\ auditor' = auditor BY <1>2 DEF AuditArrives
  <2>2. CASE ~TakesReading(r)
    <3>1. log' = log /\ Subjects(log)' = Subjects(log) BY <1>2, <2>2 DEF AuditArrives, Subjects
    <3> QED BY <2>1, <2>2, <3>1 DEF AuditInv, AuditWaits, TakesReading, IsALog
  <2>3. CASE TakesReading(r)
    <3>1. r.of = Subjects(log) /\ r.of \in AuditOf BY <2>3 DEF AuditInv, TakesReading, AuditReading
    <3>2. PICK next \in 0 .. MaxDepth, error \in BOOLEAN, of \in AuditOf :
            /\ log' = [sieve |-> log.sieve, cursors |-> log.cursors, index |-> log.index, next |-> next,
                       loading |-> FALSE, error |-> error, of |-> of]
            /\ ~error => of = r.of
      <4>1. CASE log' = [log EXCEPT !.loading = FALSE, !.error = TRUE]
        <5>1. log' = [sieve |-> log.sieve, cursors |-> log.cursors, index |-> log.index, next |-> log.next,
                      loading |-> FALSE, error |-> TRUE, of |-> log.of]
          BY <1>t, <4>1 DEF AuditLog
        <5>2. log.next \in 0 .. MaxDepth /\ log.of \in AuditOf BY <1>t DEF AuditLog
        <5> QED BY <5>1, <5>2
      <4>2. ASSUME NEW next \in NextCursors(r.of),
                   log' = [log EXCEPT !.loading = FALSE, !.error = FALSE, !.next = next, !.of = r.of]
            PROVE  log' = [sieve |-> log.sieve, cursors |-> log.cursors, index |-> log.index, next |-> next,
                           loading |-> FALSE, error |-> FALSE, of |-> r.of] /\ next \in 0 .. MaxDepth
        BY <1>t, <4>2 DEF AuditLog, NextCursors
      <4> QED BY <1>2, <2>3, <3>1, <4>1, <4>2 DEF AuditArrives
    <3>3. Subjects(log)' = Subjects(log) BY <3>2 DEF Subjects
    <3>4. IsALog(log)' /\ ~log'.loading
      BY <1>t, <3>2 DEF IsALog, AuditLog
    <3>5. ~log'.error => log'.of = Subjects(log)' BY <3>1, <3>2, <3>3
    <3> QED BY <2>1, <3>3, <3>4, <3>5 DEF AuditInv, AuditWaits
  <2> QED BY <2>2, <2>3
<1>3. CASE ApplyFilters
  <2>1. PICK s, l : s \in Sieves /\ l = [log EXCEPT !.sieve = s, !.cursors = <<0>>, !.index = 1, !.loading = TRUE]
                                /\ Shows(l)
    BY <1>3 DEF ApplyFilters
  <2>2. l = [sieve |-> s, cursors |-> <<0>>, index |-> 1, next |-> log.next, loading |-> TRUE,
             error |-> log.error, of |-> log.of] /\ s \in Sieves
    BY <1>t, <2>1 DEF AuditLog
  <2>3. <<0>> \in Seq(0 .. MaxDepth) /\ Len(<<0>>) = 1 BY AuditPageAssumption
  <2>4. IsALog(l) /\ l.loading BY <1>t, <2>2, <2>3 DEF IsALog, AuditLog
  <2> QED BY <2>1, <2>4, ShowsKeeps
<1>4. CASE RefreshLog
  <2>1. PICK l : l = [log EXCEPT !.loading = TRUE] /\ Shows(l) BY <1>4 DEF RefreshLog
  <2>2. l = [sieve |-> log.sieve, cursors |-> log.cursors, index |-> log.index, next |-> log.next,
             loading |-> TRUE, error |-> log.error, of |-> log.of]
    BY <1>t, <2>1 DEF AuditLog
  <2>3. IsALog(l) /\ l.loading BY <1>t, <2>2 DEF IsALog, AuditLog
  <2> QED BY <2>1, <2>3, ShowsKeeps
<1>5. CASE PreviousEvents
  <2>1. PICK l : l = [log EXCEPT !.index = @ - 1, !.loading = TRUE] /\ Shows(l) BY <1>5 DEF PreviousEvents
  <2>2. l = [sieve |-> log.sieve, cursors |-> log.cursors, index |-> log.index - 1, next |-> log.next,
             loading |-> TRUE, error |-> log.error, of |-> log.of]
    BY <1>t, <2>1 DEF AuditLog
  <2>3. log.index - 1 \in 1 .. Len(log.cursors) /\ log.index - 1 \in Nat
    BY <1>5, <1>t DEF PreviousEvents, IsALog, AuditLog
  <2>4. IsALog(l) /\ l.loading BY <1>t, <2>2, <2>3 DEF IsALog, AuditLog
  <2> QED BY <2>1, <2>4, ShowsKeeps
<1>6. CASE NextEvents
  <2> DEFINE c == Append(SubSeq(log.cursors, 1, log.index), log.next)
  <2>1. /\ log.cursors \in Seq(0 .. MaxDepth) /\ log.index \in 1 .. Len(log.cursors)
        /\ log.next \in 0 .. MaxDepth /\ log.index \in Nat
    BY <1>t DEF IsALog, AuditLog
  <2>2. /\ SubSeq(log.cursors, 1, log.index) \in Seq(0 .. MaxDepth)
        /\ Len(SubSeq(log.cursors, 1, log.index)) = log.index
    <3>1. \A i \in 1 .. log.index : log.cursors[i] \in 0 .. MaxDepth
      <4> SUFFICES ASSUME NEW i \in 1 .. log.index PROVE log.cursors[i] \in 0 .. MaxDepth OBVIOUS
      <4>1. i \in 1 .. Len(log.cursors) BY <2>1
      <4> QED BY <2>1, <4>1, ElementOfSeq
    <3>2. log.index \in Int /\ 1 <= log.index /\ log.index - 1 + 1 = log.index BY <2>1
    <3> QED BY <3>1, <3>2, SubSeqProperties
  <2>3. c \in Seq(0 .. MaxDepth) /\ Len(c) = log.index + 1 BY <2>1, <2>2, AppendProperties
  <2>4. PICK l : l = [log EXCEPT !.cursors = c, !.index = @ + 1, !.loading = TRUE] /\ Shows(l)
    BY <1>6, <1>t DEF NextEvents, AuditLog
  <2> HIDE DEF c
  <2>5. l = [sieve |-> log.sieve, cursors |-> c, index |-> log.index + 1, next |-> log.next,
             loading |-> TRUE, error |-> log.error, of |-> log.of]
    BY <1>t, <2>4 DEF AuditLog
  <2>6. IsALog(l) /\ l.loading BY <1>t, <2>1, <2>3, <2>5 DEF IsALog, AuditLog
  <2> QED BY <2>4, <2>6, ShowsKeeps
<1>7. CASE AuditorChanges
  <2>1. log' = log /\ Subjects(log)' = Subjects(log) /\ auditor' = ~auditor /\ auditor' \in BOOLEAN
    BY <1>7 DEF AuditorChanges, Subjects, AuditInv
  <2>2. Reads(log, auditor') BY <1>7, <2>1 DEF AuditorChanges
  <2>3. /\ readings' \in SUBSET AuditReading
        /\ \A r \in readings' : r.active => auditor' /\ r.of = Subjects(log)
        /\ auditor' => \E r \in readings' : r.active
    BY <1>t, <2>1, <2>2, ReadsAre DEF AuditInv
  <2> QED BY <2>1, <2>3 DEF AuditInv, AuditWaits, TakesReading, IsALog
<1> QED BY <1>1, <1>2, <1>3, <1>4, <1>5, <1>6, <1>7 DEF AuditNext

LEMMA AuditInvTells == AuditInv => AuditWaits /\ EventsAreOfThePage
  BY DEF AuditInv, EventsAreOfThePage, PanelShows

-----------------------------------------------------------------------------
(* The page of the API keys.                                               *)
Slip == [open : BOOLEAN, secret : Nat, acknowledged : BOOLEAN]

IsASheet(s) ==
    /\ s = [keys |-> s.keys, stations |-> s.stations, loading |-> s.loading, error |-> s.error]
    /\ s.loading \in BOOLEAN

IsAPost(p) ==
    /\ p = [what |-> p.what, key |-> p.key, at |-> p.at, secret |-> p.secret, found |-> p.found]
    /\ p.secret \in Nat

Issuing(P) == {p \in P : Issues(p)}

(* As long as keys are issued one at a time and the dialog stays with what *)
(* it asked for: a secret lies only in the open dialog, and while a key is *)
(* being issued there is none yet, and of a creation the dialog is open.   *)
OneKeyAtATime ==
    /\ \A p, q \in Issuing(posts) : p = q
    /\ Issuing(posts) # {} => slip.secret = 0
    /\ ~slip.open => slip.secret = 0 /\ \A p \in posts : p.what # "create"
    /\ ~lost

KeysInv ==
    /\ IsASheet(sheet) /\ slip \in Slip /\ issued \in Nat /\ lost \in BOOLEAN /\ crossed \in BOOLEAN
    /\ \A p \in posts : IsAPost(p)
    /\ KeysWait
    /\ ~crossed => OneKeyAtATime

LEMMA InitKeys == KeysInit => KeysInv
<1> SUFFICES ASSUME KeysInit PROVE KeysInv OBVIOUS
<1>1. IsASheet(sheet) /\ slip \in Slip /\ ~slip.open /\ slip.secret = 0
  BY DEF KeysInit, IsASheet, Slip, NoSlip
<1>2. PICK p : p = Post("load", "none") /\ posts = {p} BY DEF KeysInit
<1>3. IsAPost(p) /\ p.what = "load" BY <1>2 DEF Post, IsAPost
<1>4. KeysWait BY <1>2, <1>3 DEF KeysWait
<1>5. OneKeyAtATime BY <1>1, <1>2, <1>3 DEF OneKeyAtATime, Issuing, Issues, KeysInit
<1> QED BY <1>1, <1>2, <1>3, <1>4, <1>5 DEF KeysInv, KeysInit

LEMMA NextKeys == KeysInv /\ [KeysNext]_keyVars => KeysInv'
<1> SUFFICES ASSUME KeysInv, [KeysNext]_keyVars PROVE KeysInv'
  OBVIOUS
<1>t. IsASheet(sheet) /\ slip \in Slip /\ issued \in Nat BY DEF KeysInv
<1>1. CASE UNCHANGED keyVars
  BY <1>1 DEF keyVars, KeysInv, KeysWait, OneKeyAtATime, IsASheet, IsAPost, Issuing, Issues
<1>2. ASSUME NEW p \in posts, ServePost(p) PROVE KeysInv'
  <2>1. PICK q : /\ posts' = (posts \ {p}) \cup {q} /\ IsAPost(q) /\ q.what = p.what
                 /\ issued' \in Nat
    <3>0. IsAPost(p) BY DEF KeysInv
    <3>1. ASSUME NEW r, NEW n \in Nat, NEW f, r = [p EXCEPT !.secret = n, !.found = f]
          PROVE  /\ IsAPost([r EXCEPT !.at = "answered"])
                 /\ [r EXCEPT !.at = "answered"].what = p.what
      <4>1. PICK q : q = [r EXCEPT !.at = "answered"] OBVIOUS
      <4>2. q = [what |-> p.what, key |-> p.key, at |-> "answered", secret |-> n, found |-> f]
        BY <3>0, <3>1, <4>1 DEF IsAPost
      <4>3. IsAPost(q) /\ q.what = p.what BY <4>2 DEF IsAPost
      <4> QED BY <4>1, <4>3
    <3>2. ASSUME NEW r, NEW n \in Nat, NEW f, r = [p EXCEPT !.secret = n, !.found = f],
                 posts' = (posts \ {p}) \cup {[r EXCEPT !.at = "answered"]}, issued' \in Nat
          PROVE  \E q : /\ posts' = (posts \ {p}) \cup {q} /\ IsAPost(q) /\ q.what = p.what
                        /\ issued' \in Nat
      BY <3>1, <3>2, Zenon
    <3>3. p.secret \in Nat BY <3>0 DEF IsAPost
    <3>4. CASE /\ issued' = issued + 1
               /\ posts' = (posts \ {p}) \cup {[[p EXCEPT !.secret = issued + 1] EXCEPT !.at = "answered"]}
      <4>1. PICK r : r = [p EXCEPT !.secret = issued + 1] OBVIOUS
      <4>2. r = [p EXCEPT !.secret = issued + 1, !.found = p.found] BY <3>0, <4>1 DEF IsAPost
      <4>3. issued + 1 \in Nat BY <1>t
      <4>4. posts' = (posts \ {p}) \cup {[r EXCEPT !.at = "answered"]} BY <3>4, <4>1, Zenon
      <4> QED BY <3>2, <3>4, <4>2, <4>3, <4>4
    <3>5. CASE UNCHANGED issued /\ posts' = (posts \ {p}) \cup {[p EXCEPT !.at = "answered"]}
      <4>1. p = [p EXCEPT !.secret = p.secret, !.found = p.found] BY <3>0 DEF IsAPost
      <4> QED BY <1>t, <3>2, <3>3, <3>5, <4>1
    <3>6. ASSUME NEW f, UNCHANGED issued,
                 posts' = (posts \ {p}) \cup {[[p EXCEPT !.found = f] EXCEPT !.at = "answered"]}
          PROVE  \E q : /\ posts' = (posts \ {p}) \cup {q} /\ IsAPost(q) /\ q.what = p.what
                        /\ issued' \in Nat
      <4>1. PICK r : r = [p EXCEPT !.found = f] OBVIOUS
      <4>2. r = [p EXCEPT !.secret = p.secret, !.found = f] BY <3>0, <4>1 DEF IsAPost
      <4>3. posts' = (posts \ {p}) \cup {[r EXCEPT !.at = "answered"]} BY <3>6, <4>1, Zenon
      <4> QED BY <1>t, <3>2, <3>3, <3>6, <4>2, <4>3
    <3>7. CASE UNCHANGED issued /\ posts' = (posts \ {p}) \cup {[p EXCEPT !.at = "refused"]}
      <4>1. PICK q : q = [p EXCEPT !.at = "refused"] OBVIOUS
      <4>2. q = [what |-> p.what, key |-> p.key, at |-> "refused", secret |-> p.secret, found |-> p.found]
        BY <3>0, <4>1 DEF IsAPost
      <4>3. IsAPost(q) /\ q.what = p.what BY <3>3, <4>2 DEF IsAPost
      <4> QED BY <1>t, <3>7, <4>1, <4>3, Zenon
    <3> QED BY <1>2, <3>4, <3>5, <3>6, <3>7, Zenon DEF ServePost
  <2>2. UNCHANGED <<sheet, slip, lost, crossed>> BY <1>2 DEF ServePost
  <2>3. \A r \in posts' : IsAPost(r) BY <2>1 DEF KeysInv
  <2>4. KeysWait' BY <2>1, <2>2 DEF KeysInv, KeysWait
  <2>5. OneKeyAtATime => OneKeyAtATime'
    BY <2>1, <2>2 DEF OneKeyAtATime, Issuing, Issues
  <2> QED BY <2>1, <2>2, <2>3, <2>4, <2>5 DEF KeysInv, IsASheet
<1>3. ASSUME NEW p \in posts, KeysArrive(p) PROVE KeysInv'
  <2>1. UNCHANGED <<issued, slip, lost, crossed>> /\ posts' = posts \ {p} /\ p.what = "load" BY <1>3 DEF KeysArrive
  <2>2. IsASheet(sheet') /\ ~sheet'.loading BY <1>3, <1>t DEF KeysArrive, IsASheet
  <2>3. OneKeyAtATime => OneKeyAtATime' BY <2>1 DEF OneKeyAtATime, Issuing, Issues
  <2> QED BY <2>1, <2>2, <2>3 DEF KeysInv, KeysWait, IsASheet
<1>4. ASSUME NEW p \in posts, IssueArrives(p) PROVE KeysInv'
  <2>1. /\ UNCHANGED <<issued, crossed>> /\ posts' = posts \ {p} /\ p.what \in {"create", "rotate"}
        /\ slip' = [open |-> slip.open \/ p.what = "rotate", secret |-> p.secret, acknowledged |-> FALSE]
        /\ lost' = (lost \/ Unsaved) /\ p \in Issuing(posts)
    BY <1>4 DEF IssueArrives, Issues, Issuing
  <2>2. IsASheet(sheet') /\ sheet'.loading = sheet.loading BY <1>4, <1>t DEF IssueArrives, IsASheet
  <2>3. p.secret \in Nat /\ slip' \in Slip BY <1>t, <2>1 DEF KeysInv, IsAPost, Slip
  <2>4. KeysWait' BY <2>1, <2>2 DEF KeysInv, KeysWait
  <2>5. OneKeyAtATime => OneKeyAtATime'
    BY <2>1 DEF OneKeyAtATime, Issuing, Issues, Unsaved
  <2> QED BY <2>1, <2>2, <2>3, <2>4, <2>5 DEF KeysInv, IsASheet
<1>5. ASSUME NEW p \in posts, RevokeArrives(p) \/ ChangeRefused(p) PROVE KeysInv'
  <2>1. UNCHANGED <<issued, slip, lost, crossed>> /\ posts' = posts \ {p} /\ p.what # "load"
    BY <1>5 DEF RevokeArrives, ChangeRefused
  <2>2. IsASheet(sheet') /\ sheet'.loading = sheet.loading
    BY <1>5, <1>t DEF RevokeArrives, ChangeRefused, IsASheet
  <2>3. KeysWait' BY <2>1, <2>2 DEF KeysInv, KeysWait
  <2>4. OneKeyAtATime => OneKeyAtATime' BY <2>1 DEF OneKeyAtATime, Issuing, Issues
  <2> QED BY <2>1, <2>2, <2>3, <2>4 DEF KeysInv, IsASheet
<1>6. CASE RetryKeys
  <2>1. PICK q : q = Post("load", "none") /\ posts' = posts \cup {q} BY <1>6 DEF RetryKeys, Sent
  <2>2. IsAPost(q) /\ q.what = "load" BY <2>1 DEF Post, IsAPost
  <2>3. UNCHANGED <<issued, slip, lost, crossed>> BY <1>6 DEF RetryKeys
  <2>4. IsASheet(sheet') BY <1>6, <1>t DEF RetryKeys, IsASheet
  <2>5. KeysWait' BY <2>1, <2>2 DEF KeysWait
  <2>6. OneKeyAtATime => OneKeyAtATime' BY <2>1, <2>2, <2>3 DEF OneKeyAtATime, Issuing, Issues
  <2> QED BY <2>1, <2>2, <2>3, <2>4, <2>5, <2>6 DEF KeysInv, IsASheet
<1>7. CASE OpenCreateModal
  <2>1. UNCHANGED <<issued, sheet, posts, crossed>> /\ lost' = (lost \/ Unsaved) /\ ~slip.open
    BY <1>7 DEF OpenCreateModal
  <2>2. slip' = [open |-> TRUE, secret |-> 0, acknowledged |-> FALSE] BY <1>7 DEF OpenCreateModal, NoSlip
  <2>3. slip' \in Slip BY <2>2 DEF Slip
  <2>4. OneKeyAtATime => OneKeyAtATime' BY <2>1, <2>2 DEF OneKeyAtATime, Issuing, Issues, Unsaved
  <2> QED BY <2>1, <2>3, <2>4 DEF KeysInv, KeysWait, IsASheet, IsAPost
<1>8. CASE CloseCreateModal
  <2>1. /\ UNCHANGED <<issued, sheet, posts>> /\ lost' = (lost \/ Unsaved) /\ MayClose
        /\ crossed' = (crossed \/ \E p \in posts : p.what = "create")
    BY <1>8 DEF CloseCreateModal
  <2>2. slip' = [open |-> FALSE, secret |-> 0, acknowledged |-> FALSE] BY <1>8 DEF CloseCreateModal, NoSlip
  <2>3. slip' \in Slip BY <2>2 DEF Slip
  <2>4. ~crossed' => ~crossed /\ (OneKeyAtATime => OneKeyAtATime')
    BY <2>1, <2>2 DEF OneKeyAtATime, Issuing, Issues, Unsaved, MayClose
  <2> QED BY <2>1, <2>3, <2>4 DEF KeysInv, KeysWait, IsASheet, IsAPost
<1>9. CASE Acknowledge
  <2>1. UNCHANGED <<issued, sheet, posts, lost, crossed>> BY <1>9 DEF Acknowledge
  <2>2. slip' = [open |-> slip.open, secret |-> slip.secret, acknowledged |-> TRUE]
    BY <1>9, <1>t DEF Acknowledge, Slip
  <2>3. slip' \in Slip BY <1>t, <2>2 DEF Slip
  <2>4. OneKeyAtATime => OneKeyAtATime' BY <2>1, <2>2 DEF OneKeyAtATime, Issuing, Issues
  <2> QED BY <2>1, <2>3, <2>4 DEF KeysInv, KeysWait, IsASheet, IsAPost
<1>10. ASSUME NEW what \in {"create", "rotate", "revoke"}, NEW k, Asks(Post(what, k)),
              IsASheet(sheet'), sheet'.loading = sheet.loading,
              what = "create" => slip.open /\ slip.secret = 0,
              what = "rotate" => ~slip.open
       PROVE  KeysInv'
  <2>1. PICK p : p = Post(what, k) /\ Asks(p) BY <1>10
  <2>2. IsAPost(p) /\ p.what = what BY <2>1 DEF Post, IsAPost
  <2>3. /\ posts' = posts \cup {p} /\ UNCHANGED <<issued, slip, lost>>
        /\ crossed' = (crossed \/ (Issues(p) /\ \E q \in posts : Issues(q)))
    BY <2>1 DEF Asks, Sent
  <2>4. KeysWait' BY <1>10, <2>3 DEF KeysInv, KeysWait
  <2>5. ~crossed' => ~crossed /\ (OneKeyAtATime => OneKeyAtATime')
    BY <1>10, <2>2, <2>3 DEF OneKeyAtATime, Issuing, Issues
  <2> QED BY <1>10, <2>2, <2>3, <2>4, <2>5 DEF KeysInv
<1>11. CASE CreateKey
  <2>1. PICK k \in KeyIds : Asks(Post("create", k)) BY <1>11 DEF CreateKey
  <2>2. IsASheet(sheet') /\ sheet'.loading = sheet.loading BY <1>11, <1>t DEF CreateKey, IsASheet
  <2> QED BY <1>10, <1>11, <2>1, <2>2 DEF CreateKey
<1>12. ASSUME NEW k \in KeyIds, RotateKey(k) \/ RevokeKey(k) PROVE KeysInv'
  <2>1. sheet' = sheet /\ ~slip.open BY <1>12 DEF RotateKey, RevokeKey, Usable
  <2>2. Asks(Post("rotate", k)) \/ Asks(Post("revoke", k)) BY <1>12 DEF RotateKey, RevokeKey
  <2> QED BY <1>10, <1>t, <2>1, <2>2
<1> QED BY <1>1, <1>2, <1>3, <1>4, <1>5, <1>6, <1>7, <1>8, <1>9, <1>11, <1>12 DEF KeysNext

LEMMA KeysInvTells == KeysInv => KeysWait /\ SecretStaysUntilSaved
  BY DEF KeysInv, OneKeyAtATime, SecretStaysUntilSaved

-----------------------------------------------------------------------------
(* The page of the alerts.                                                 *)
IsAHail(h) == h = [what |-> h.what, of |-> h.of, active |-> h.active] /\ h.active \in BOOLEAN

IsABoard(b) ==
    /\ b = [loading |-> b.loading, of |-> b.of, failed |-> b.failed, crossed |-> b.crossed]
    /\ {b.loading, b.failed, b.crossed} \subseteq BOOLEAN

AreRules(r) ==
    /\ r = [of |-> r.of, added |-> r.added, canManage |-> r.canManage, form |-> r.form,
            failed |-> r.failed, late |-> r.late]
    /\ {r.canManage, r.form, r.failed, r.late} \subseteq BOOLEAN

AskedIs(p, s) == [post |-> p, screen |-> s]

HailAwaited(H, what) == \E h \in H : h.what = what /\ h.active

(* What the page would take is of what is selected.                        *)
HailsAreOf(H, p, s) ==
    /\ \A h \in H : IsAHail(h)
    /\ \A h \in H : h.active /\ h.what = "alerts" => h.of = AskedIs(p, s)
    /\ \A h \in H : h.active /\ h.what = "rules" => h.of = p

AlertsInv ==
    /\ IsABoard(board) /\ AreRules(rules) /\ HailsAreOf(hails, post, screen)
    /\ AlertsWait /\ AlertsAreOfTheFilters

LEMMA AskedNow == Asked = AskedIs(post, screen)
  BY DEF Asked, AskedIs

LEMMA HailIs ==
    ASSUME NEW what, NEW of
    PROVE  /\ IsAHail(Hail(what, of))
           /\ Hail(what, of).what = what /\ Hail(what, of).of = of /\ Hail(what, of).active
  BY DEF Hail, IsAHail

LEMMA LeavesAre ==
    ASSUME NEW H, \A h \in H : IsAHail(h), NEW K
    PROVE  /\ \A h \in Leaves(H, K) : IsAHail(h) /\ IF h.what \in K THEN ~h.active ELSE h \in H
           /\ \A h \in H : h.what \notin K => h \in Leaves(H, K)
           /\ \A h \in H : \E g \in Leaves(H, K) : g.what = h.what
<1>1. ASSUME NEW h \in H, NEW g, g = [h EXCEPT !.active = FALSE]
      PROVE  IsAHail(g) /\ ~g.active /\ g.what = h.what
  <2>1. g = [what |-> h.what, of |-> h.of, active |-> FALSE] BY <1>1 DEF IsAHail
  <2> QED BY <2>1 DEF IsAHail
<1> QED BY <1>1 DEF Leaves

LEMMA InitAlerts == AlertsInit => AlertsInv
<1> SUFFICES ASSUME AlertsInit PROVE AlertsInv OBVIOUS
<1>1. IsABoard(board) /\ AreRules(rules) /\ board.of = Asked /\ board.loading
  BY DEF AlertsInit, IsABoard, AreRules
<1>2. PICK h : h = Hail("alerts", Asked) /\ hails = {h} BY DEF AlertsInit
<1>3. IsAHail(h) /\ h.what = "alerts" /\ h.of = Asked /\ h.active BY <1>2, HailIs
<1>4. HailsAreOf(hails, post, screen) BY <1>2, <1>3, AskedNow DEF HailsAreOf
<1>5. AlertsWait BY <1>2, <1>3 DEF AlertsWait, Heeds, AlertsInit
<1>6. AlertsAreOfTheFilters BY <1>1, <1>2, <1>3 DEF AlertsAreOfTheFilters, AlertsInit
<1> QED BY <1>1, <1>4, <1>5, <1>6 DEF AlertsInv

(* A request that asks for nothing that the page selects.                  *)
LEMMA HailKeeps ==
    ASSUME AlertsInv, NEW h, IsAHail(h), h.what \notin {"alerts", "rules"}, hails' = hails \cup {h},
           UNCHANGED <<post, screen>>, board' = board \/ (h.what = "refresh" /\ board' = [board EXCEPT !.loading = TRUE]),
           rules' = rules, acting' = acting \/ h.what \in {"alert", "toggle", "create"}
    PROVE  AlertsInv'
<1>1. IsABoard(board)' /\ board'.of = board.of /\ board'.failed = board.failed /\ board'.crossed = board.crossed
      /\ (board'.loading => board.loading \/ h.what = "refresh")
  <2>1. CASE board' = board BY <2>1 DEF AlertsInv
  <2>2. CASE h.what = "refresh" /\ board' = [board EXCEPT !.loading = TRUE]
    <3>1. board' = [loading |-> TRUE, of |-> board.of, failed |-> board.failed, crossed |-> board.crossed]
      BY <2>2 DEF AlertsInv, IsABoard
    <3> QED BY <2>2, <3>1 DEF AlertsInv, IsABoard
  <2> QED BY <2>1, <2>2
<1>2. HailsAreOf(hails, post, screen)' BY DEF AlertsInv, HailsAreOf
<1>3. AlertsWait' BY <1>1 DEF AlertsInv, AlertsWait, Heeds
<1>4. AlertsAreOfTheFilters' BY <1>1 DEF AlertsInv, AlertsAreOfTheFilters, Asked
<1> QED BY <1>1, <1>2, <1>3, <1>4 DEF AlertsInv

(* Other filters or another station: the alerts are asked for anew.        *)
LEMMA SelectsKeeps ==
    ASSUME AlertsInv, NEW K, "alerts" \in K, K \subseteq {"alerts", "rules"},
           NEW a, a = Hail("alerts", AskedIs(post', screen')),
           NEW N, N = {a} \/ (post' # NoPost /\ N = {a, Hail("rules", post')}),
           hails' = Leaves(hails, K) \cup N,
           board' = board, acting' = acting, AreRules(rules'),
           "rules" \notin K => post' = post /\ rules' = rules,
           "rules" \in K /\ post' # NoPost => N = {a, Hail("rules", post')}
    PROVE  AlertsInv'
<1>1. PICK r : r = Hail("rules", post') OBVIOUS
<1>2. /\ IsAHail(a) /\ a.what = "alerts" /\ a.of = AskedIs(post', screen') /\ a.active
      /\ IsAHail(r) /\ r.what = "rules" /\ r.of = post' /\ r.active
  BY <1>1, HailIs
<1>3. \A h \in hails : IsAHail(h) BY DEF AlertsInv, HailsAreOf
<1>4. /\ \A h \in Leaves(hails, K) : IsAHail(h) /\ IF h.what \in K THEN ~h.active ELSE h \in hails
      /\ \A h \in hails : h.what \notin K => h \in Leaves(hails, K)
  BY <1>3, LeavesAre
<1>5. a \in N /\ N \subseteq {a, r} /\ a \in hails' BY <1>1
<1>6. HailsAreOf(hails, post, screen)' BY <1>2, <1>4, <1>5 DEF HailsAreOf, AlertsInv
<1>7. AlertsWait' BY <1>2, <1>4, <1>5 DEF AlertsInv, AlertsWait, Heeds
<1>8. AlertsAreOfTheFilters'
  <2>1. CASE "rules" \in K
    <3>1. post' # NoPost => r \in hails' BY <1>1, <2>1
    <3> QED BY <1>2, <1>5, <3>1 DEF AlertsAreOfTheFilters
  <2>2. CASE "rules" \notin K
    BY <1>2, <1>4, <1>5, <2>2 DEF AlertsInv, AlertsAreOfTheFilters
  <2> QED BY <2>1, <2>2
<1> QED BY <1>6, <1>7, <1>8 DEF AlertsInv

LEMMA NextAlerts == AlertsInv /\ [AlertsNext]_alertVars => AlertsInv'
<1> SUFFICES ASSUME AlertsInv, [AlertsNext]_alertVars PROVE AlertsInv'
  OBVIOUS
<1>t. IsABoard(board) /\ AreRules(rules) /\ HailsAreOf(hails, post, screen) BY DEF AlertsInv
<1>1. CASE UNCHANGED alertVars
  BY <1>1 DEF alertVars, AlertsInv, AlertsWait, AlertsAreOfTheFilters, HailsAreOf, Asked, Heeds
<1>2. ASSUME NEW s \in Screens, SelectScreen(s) PROVE AlertsInv'
  <2>1. [Asked EXCEPT !.screen = s] = AskedIs(post', screen') BY <1>2 DEF SelectScreen, Asked, AskedIs
  <2>2. PICK a : a = Hail("alerts", AskedIs(post', screen')) OBVIOUS
  <2>3. hails' = Leaves(hails, {"alerts"}) \cup {a} BY <1>2, <2>1, <2>2 DEF SelectScreen, Room
  <2>4. UNCHANGED <<post, board, rules, acting>> BY <1>2 DEF SelectScreen
  <2>5. PICK K : K = {"alerts"} OBVIOUS
  <2> QED BY <1>t, <2>2, <2>3, <2>4, <2>5, SelectsKeeps
<1>3. ASSUME NEW p, SelectPost(p) PROVE AlertsInv'
  <2>1. [Asked EXCEPT !.post = p] = AskedIs(post', screen') /\ post' = p
    BY <1>3 DEF SelectPost, Asked, AskedIs
  <2>2. PICK a : a = Hail("alerts", AskedIs(post', screen')) OBVIOUS
  <2>3. PICK N : N = IF p = NoPost THEN {a} ELSE {a, Hail("rules", p)} OBVIOUS
  <2>4. hails' = Leaves(hails, {"alerts", "rules"}) \cup N
    BY <1>3, <2>1, <2>2, <2>3 DEF SelectPost, Room
  <2>5. AreRules(rules')
    <3>1. CASE p = NoPost
      <4>1. rules' = [of |-> NoPost, added |-> {}, canManage |-> FALSE, form |-> FALSE, failed |-> FALSE,
                      late |-> FALSE]
        BY <1>3, <3>1 DEF SelectPost
      <4> QED BY <4>1 DEF AreRules
    <3>2. CASE p # NoPost
      <4>1. rules' = [of |-> rules.of, added |-> rules.added, canManage |-> rules.canManage,
                      form |-> rules.form, failed |-> FALSE, late |-> rules.late]
        BY <1>3, <1>t, <3>2 DEF SelectPost, AreRules
      <4> QED BY <1>t, <4>1 DEF AreRules
    <3> QED BY <3>1, <3>2
  <2>6. UNCHANGED <<screen, board, acting>> BY <1>3 DEF SelectPost
  <2>7. PICK K : K = {"alerts", "rules"} OBVIOUS
  <2> QED BY <2>1, <2>2, <2>3, <2>4, <2>5, <2>6, <2>7, SelectsKeeps
<1>4. ASSUME NEW h \in hails, AlertsArrive(h) PROVE AlertsInv'
  <2>1. UNCHANGED <<post, screen, rules, acting>> /\ hails' = hails \ {h} /\ h.what = "alerts"
    BY <1>4 DEF AlertsArrive
  <2>2. HailsAreOf(hails, post, screen)' /\ AreRules(rules)' BY <1>t, <2>1 DEF HailsAreOf
  <2>3. CASE ~h.active
    BY <1>4, <1>t, <2>1, <2>2, <2>3 DEF AlertsArrive, Heeds, AlertsInv, AlertsWait, AlertsAreOfTheFilters, Asked
  <2>4. CASE h.active
    <3>1. h.of = Asked BY <1>t, <2>1, <2>4, AskedNow DEF HailsAreOf
    <3>2. /\ IsABoard(board)' /\ ~board'.loading
          /\ board'.failed \/ (board'.of = h.of /\ ~board'.crossed)
      <4>1. CASE board' = [loading |-> FALSE, of |-> h.of, failed |-> FALSE, crossed |-> FALSE]
        BY <4>1 DEF IsABoard
      <4>2. CASE board' = [board EXCEPT !.loading = FALSE, !.failed = TRUE]
        <5>1. board' = [loading |-> FALSE, of |-> board.of, failed |-> TRUE, crossed |-> board.crossed]
          BY <1>t, <4>2 DEF IsABoard
        <5> QED BY <1>t, <5>1 DEF IsABoard
      <4> QED BY <1>4, <2>4, <4>1, <4>2 DEF AlertsArrive, Heeds
    <3>3. AlertsWait' BY <2>1, <3>2 DEF AlertsInv, AlertsWait
    <3>4. AlertsAreOfTheFilters' BY <2>1, <3>1, <3>2 DEF AlertsInv, AlertsAreOfTheFilters, Asked
    <3> QED BY <2>2, <3>2, <3>3, <3>4 DEF AlertsInv
  <2> QED BY <1>t, <2>3, <2>4 DEF HailsAreOf, IsAHail
<1>5. ASSUME NEW h \in hails, RefreshedArrive(h) PROVE AlertsInv'
  <2>1. UNCHANGED <<post, screen, rules, acting>> /\ hails' = hails \ {h} /\ h.what = "refresh"
    BY <1>5 DEF RefreshedArrive
  <2>2. HailsAreOf(hails, post, screen)' /\ AreRules(rules)' BY <1>t, <2>1 DEF HailsAreOf
  <2>3. /\ IsABoard(board)' /\ ~board'.loading
        /\ board'.failed \/ board'.crossed \/ board'.of = Asked
    <3>1. CASE board' = [loading |-> FALSE, of |-> h.of, failed |-> FALSE, crossed |-> h.of # Asked]
      BY <3>1 DEF IsABoard
    <3>2. CASE board' = [board EXCEPT !.loading = FALSE, !.failed = TRUE]
      <4>1. board' = [loading |-> FALSE, of |-> board.of, failed |-> TRUE, crossed |-> board.crossed]
        BY <1>t, <3>2 DEF IsABoard
      <4> QED BY <1>t, <4>1 DEF IsABoard
    <3> QED BY <1>5, <3>1, <3>2 DEF RefreshedArrive
  <2>4. AlertsWait' BY <2>1, <2>3 DEF AlertsInv, AlertsWait
  <2>5. AlertsAreOfTheFilters' BY <2>1, <2>3 DEF AlertsInv, AlertsAreOfTheFilters, Asked
  <2> QED BY <2>2, <2>3, <2>4, <2>5 DEF AlertsInv
<1>6. ASSUME NEW h \in hails, RulesArrive(h) PROVE AlertsInv'
  <2>1. UNCHANGED <<post, screen, board, acting>> /\ hails' = hails \ {h} /\ h.what = "rules"
    BY <1>6 DEF RulesArrive
  <2>2. HailsAreOf(hails, post, screen)' /\ IsABoard(board)' BY <1>t, <2>1 DEF HailsAreOf
  <2>3. AlertsWait' BY <2>1 DEF AlertsInv, AlertsWait, Heeds
  <2>4. CASE ~h.active
    BY <1>6, <1>t, <2>1, <2>2, <2>3, <2>4 DEF RulesArrive, Heeds, AlertsInv, AlertsAreOfTheFilters, Asked
  <2>5. CASE h.active
    <3>1. h.of = post BY <1>t, <2>1, <2>5 DEF HailsAreOf
    <3>2. AreRules(rules') /\ (rules'.failed \/ (rules'.of = h.of /\ rules'.added = {}))
      <4>1. ASSUME NEW can \in BOOLEAN,
                   rules' = [rules EXCEPT !.of = h.of, !.added = {}, !.canManage = can,
                                          !.failed = FALSE, !.late = FALSE]
            PROVE  AreRules(rules') /\ rules'.of = h.of /\ rules'.added = {}
        <5>1. rules' = [of |-> h.of, added |-> {}, canManage |-> can, form |-> rules.form,
                        failed |-> FALSE, late |-> FALSE]
          BY <1>t, <4>1 DEF AreRules
        <5> QED BY <1>t, <5>1 DEF AreRules
      <4>2. CASE rules' = [rules EXCEPT !.failed = TRUE]
        <5>1. rules' = [of |-> rules.of, added |-> rules.added, canManage |-> rules.canManage,
                        form |-> rules.form, failed |-> TRUE, late |-> rules.late]
          BY <1>t, <4>2 DEF AreRules
        <5> QED BY <1>t, <5>1 DEF AreRules
      <4> QED BY <1>6, <2>5, <4>1, <4>2 DEF RulesArrive, Heeds
    <3>3. AlertsAreOfTheFilters' BY <2>1, <3>1, <3>2 DEF AlertsInv, AlertsAreOfTheFilters, Asked
    <3> QED BY <2>2, <2>3, <3>2, <3>3 DEF AlertsInv
  <2> QED BY <1>t, <2>4, <2>5 DEF HailsAreOf, IsAHail
<1>7. ASSUME NEW h \in hails, ActionArrives(h) PROVE AlertsInv'
  <2>1. /\ UNCHANGED <<post, screen, board>> /\ hails' = hails \ {h} /\ acting' = "none"
        /\ h.what \in {"alert", "toggle", "create"}
    BY <1>7 DEF ActionArrives
  <2>2. HailsAreOf(hails, post, screen)' /\ IsABoard(board)' BY <1>t, <2>1 DEF HailsAreOf
  <2>3. AlertsWait' BY <2>1 DEF AlertsInv, AlertsWait, Heeds
  <2>4. /\ AreRules(rules') /\ rules'.of = rules.of /\ rules'.failed = rules.failed
        /\ (rules.late => rules'.late)
        /\ rules'.late \/ rules'.added \subseteq rules.added \cup {post}
    <3>1. CASE rules' = rules BY <1>t, <3>1
    <3>2. CASE rules' = [rules EXCEPT !.added = @ \cup {h.of}, !.form = FALSE, !.late = @ \/ h.of # post]
      <4>1. rules' = [of |-> rules.of, added |-> rules.added \cup {h.of}, canManage |-> rules.canManage,
                      form |-> FALSE, failed |-> rules.failed, late |-> (rules.late \/ h.of # post)]
        BY <1>t, <3>2 DEF AreRules
      <4> QED BY <1>t, <4>1 DEF AreRules
    <3> QED BY <1>7, <3>1, <3>2 DEF ActionArrives
  <2>5. AlertsAreOfTheFilters' BY <2>1, <2>4 DEF AlertsInv, AlertsAreOfTheFilters, Asked
  <2> QED BY <2>2, <2>3, <2>4, <2>5 DEF AlertsInv
<1>8. ASSUME NEW what \in {"refresh", "alert", "toggle", "create"}, NEW of,
             hails' = hails \cup {Hail(what, of)}, UNCHANGED <<post, screen, rules>>,
             what = "refresh" => acting' = acting /\ board' = [board EXCEPT !.loading = TRUE],
             what # "refresh" => board' = board
      PROVE  AlertsInv'
  <2>1. PICK h : h = Hail(what, of) OBVIOUS
  <2>2. IsAHail(h) /\ h.what = what BY <2>1, HailIs
  <2> QED BY <1>8, <2>1, <2>2, HailKeeps
<1>9. CASE RefreshAlerts BY <1>8, <1>9 DEF RefreshAlerts, Room
<1>10. CASE RunAction BY <1>8, <1>10 DEF RunAction, Acts, Room
<1>11. CASE ToggleRule BY <1>8, <1>11 DEF ToggleRule, Acts, Room
<1>12. CASE CreateRuleOf BY <1>8, <1>12 DEF CreateRuleOf, Acts, Room
<1>13. CASE OpenForm \/ CancelForm
  <2>1. UNCHANGED <<post, screen, board, acting, hails>> BY <1>13 DEF OpenForm, CancelForm
  <2>2. PICK opens \in BOOLEAN : rules' = [rules EXCEPT !.form = opens] BY <1>13 DEF OpenForm, CancelForm
  <2>3. rules' = [of |-> rules.of, added |-> rules.added, canManage |-> rules.canManage,
                  form |-> opens, failed |-> rules.failed, late |-> rules.late]
    BY <1>t, <2>2 DEF AreRules
  <2>4. AreRules(rules)' BY <1>t, <2>3 DEF AreRules
  <2>5. AlertsAreOfTheFilters' BY <2>1, <2>3 DEF AlertsInv, AlertsAreOfTheFilters, Asked
  <2> QED BY <2>1, <2>4, <2>5 DEF AlertsInv, AlertsWait, HailsAreOf, Heeds
<1> QED BY <1>1, <1>2, <1>3, <1>4, <1>5, <1>6, <1>7, <1>9, <1>10, <1>11, <1>12, <1>13 DEF AlertsNext

-----------------------------------------------------------------------------
(* The page of the accounts.                                               *)
IsATrip(t) ==
    /\ t = [what |-> t.what, who |-> t.who, set |-> t.set, confirmed |-> t.confirmed, active |-> t.active,
            at |-> t.at, answer |-> t.answer]
    /\ {t.confirmed, t.active} \subseteq BOOLEAN

IsADesk(d) ==
    /\ d = [items |-> d.items, next |-> d.next, history |-> d.history, page |-> d.page,
            loading |-> d.loading, failed |-> d.failed, of |-> d.of]
    /\ {d.loading, d.failed} \subseteq BOOLEAN

IsADrawer(d) == d = [open |-> d.open, who |-> d.who, seen |-> d.seen, role |-> d.role]

IsADialog(d) ==
    /\ d = [what |-> d.what, who |-> d.who, set |-> d.set, busy |-> d.busy] /\ d.busy \in BOOLEAN
    /\ d.what \in {"none", "status", "delete", "transfer", "role", "save"}

ShownPage(d) == d.history[d.page]

(* The list that the page would take is the one it shows the number of;    *)
(* only a change is confirmed, and a detail is of an account.              *)
TripsAre(T, p) ==
    \A t \in T : /\ IsATrip(t)
                 /\ t.active /\ t.what = "list" => t.who = p
                 /\ t.what = "detail" => t.who # 0
                 /\ t.confirmed => t.what \notin {"list", "detail"}

DeskIsFed(d, T) ==
    /\ d.loading => \E t \in T : t.what = "list" /\ t.active
    /\ ~d.failed /\ (\A t \in T : t.what = "list" => ~t.active) => d.of = ShownPage(d)

DialogIsFed(d, w, T) ==
    /\ d.busy => \E t \in T : t.confirmed
    /\ d.what = "save" => w.who # 0

AccountsInv ==
    /\ IsADesk(desk) /\ IsADrawer(drawer) /\ IsADialog(dialog)
    /\ TripsAre(trips, ShownPage(desk)) /\ DeskIsFed(desk, trips) /\ DialogIsFed(dialog, drawer, trips)

TripOf(what, who, set, c) == [Trip(what, who, set) EXCEPT !.confirmed = c]

LEMMA TripIs ==
    ASSUME NEW what, NEW who, NEW set, NEW c \in BOOLEAN, NEW t, t = TripOf(what, who, set, c)
    PROVE  IsATrip(t) /\ t.what = what /\ t.who = who /\ t.confirmed = c /\ t.active
<1>1. t = [what |-> what, who |-> who, set |-> set, confirmed |-> c, active |-> TRUE, at |-> "sent",
           answer |-> Vacant]
  BY DEF Trip, TripOf
<1>2. /\ t.what = what /\ t.who = who /\ t.set = set /\ t.confirmed = c /\ t.active /\ t.at = "sent"
      /\ t.answer = Vacant /\ t.active = TRUE
  BY <1>1
<1>3. t = [what |-> t.what, who |-> t.who, set |-> t.set, confirmed |-> t.confirmed, active |-> t.active,
           at |-> t.at, answer |-> t.answer]
  BY <1>1, <1>2
<1> QED BY <1>2, <1>3 DEF IsATrip

LEMMA PlainTrip ==
    ASSUME NEW what, NEW who, NEW set, NEW t, t = Trip(what, who, set)
    PROVE  IsATrip(t) /\ t.what = what /\ t.who = who /\ ~t.confirmed /\ t.active
<1>0. PICK c \in BOOLEAN : c = FALSE OBVIOUS
<1>1. PICK s : s = TripOf(what, who, set, c) OBVIOUS
<1>2. s = [what |-> what, who |-> who, set |-> set, confirmed |-> FALSE, active |-> TRUE, at |-> "sent",
           answer |-> Vacant]
  BY <1>0, <1>1 DEF Trip, TripOf
<1>3. s = t BY <1>2 DEF Trip
<1>4. IsATrip(s) /\ s.what = what /\ s.who = who /\ s.confirmed = c /\ s.active
  BY <1>1, TripIs
<1> QED BY <1>0, <1>3, <1>4

LEMMA NoDialogIs == IsADialog(NoDialog) /\ ~NoDialog.busy /\ NoDialog.what = "none"
  BY DEF NoDialog, IsADialog

LEMMA InitAccounts == AccountsInit => AccountsInv
<1> SUFFICES ASSUME AccountsInit PROVE AccountsInv OBVIOUS
<1>1. desk = [items |-> [u \in {} |-> Vacant], next |-> 0, history |-> <<0>>, page |-> 1, loading |-> TRUE,
              failed |-> FALSE, of |-> 0]
  BY DEF AccountsInit
<1>2. IsADesk(desk) /\ desk.loading /\ desk.of = 0 BY <1>1 DEF IsADesk
<1>3. ShownPage(desk) = 0 BY <1>1 DEF ShownPage
<1>4. PICK t : t = Trip("list", 0, "none") OBVIOUS
<1>5. trips = {t} BY <1>4 DEF AccountsInit
<1>6. IsATrip(t) /\ t.what = "list" /\ t.who = 0 /\ ~t.confirmed /\ t.active BY <1>4, PlainTrip
<1>7. IsADrawer(drawer) BY DEF AccountsInit, IsADrawer
<1>8. dialog = NoDialog BY DEF AccountsInit
<1>9. TripsAre(trips, ShownPage(desk)) BY <1>3, <1>5, <1>6 DEF TripsAre
<1>10. DeskIsFed(desk, trips) BY <1>5, <1>6 DEF DeskIsFed
<1>11. DialogIsFed(dialog, drawer, trips) BY <1>8, NoDialogIs DEF DialogIsFed
<1> QED BY <1>2, <1>7, <1>8, <1>9, <1>10, <1>11, NoDialogIs DEF AccountsInv

(* A list of the page that d shows is asked for.                           *)
LEMMA TurnKeeps ==
    ASSUME AccountsInv, NEW d, IsADesk(d), Turn(d)
    PROVE  AccountsInv'
<1> DEFINE left == {IF t.what = "list" THEN [t EXCEPT !.active = FALSE] ELSE t : t \in trips}
<1>1. PICK asked : asked = Trip("list", ShownPage(d), "none") OBVIOUS
<1>2. /\ desk' = d /\ UNCHANGED <<registry, viewer, drawer, dialog, credential>>
      /\ trips' = left \cup {asked}
  BY <1>1 DEF Turn, ShownPage
<1>3. IsATrip(asked) /\ asked.what = "list" /\ asked.who = ShownPage(d) /\ ~asked.confirmed /\ asked.active
  BY <1>1, PlainTrip
<1>4. ASSUME NEW t \in trips, NEW s, s = [t EXCEPT !.active = FALSE], t.what = "list"
      PROVE  IsATrip(s) /\ s.what = "list" /\ ~s.active /\ ~s.confirmed
  <2>1. IsATrip(t) /\ ~t.confirmed BY <1>4 DEF AccountsInv, TripsAre
  <2>2. s = [what |-> "list", who |-> t.who, set |-> t.set, confirmed |-> FALSE, active |-> FALSE, at |-> t.at,
             answer |-> t.answer]
    BY <1>4, <2>1 DEF IsATrip
  <2> QED BY <2>2 DEF IsATrip
<1>5. \A s \in left : IF s.what = "list" THEN IsATrip(s) /\ ~s.active /\ ~s.confirmed ELSE s \in trips
  BY <1>4
<1>6. \A t \in trips : t.what # "list" => t \in left OBVIOUS
<1> HIDE DEF left
<1>7. TripsAre(trips', ShownPage(d)) BY <1>2, <1>3, <1>5 DEF AccountsInv, TripsAre
<1>8. DeskIsFed(d, trips') BY <1>2, <1>3 DEF DeskIsFed
<1>9. \A t \in trips : t.confirmed => t \in trips'
  BY <1>2, <1>6 DEF AccountsInv, TripsAre
<1>10. DialogIsFed(dialog', drawer', trips') BY <1>2, <1>9 DEF AccountsInv, DialogIsFed
<1> QED BY <1>2, <1>7, <1>8, <1>10 DEF AccountsInv, ShownPage

(* Something else is asked for, or only the drawer or the dialog changes.  *)
LEMMA TripKeeps ==
    ASSUME AccountsInv, desk' = desk, IsADrawer(drawer'), IsADialog(dialog'),
           NEW T, trips' = trips \cup T,
           \A t \in T : /\ IsATrip(t) /\ t.what # "list" /\ (t.what = "detail" => t.who # 0)
                        /\ t.confirmed => t.what # "detail",
           dialog'.busy => dialog.busy \/ \E t \in T : t.confirmed,
           dialog'.what = "save" => drawer'.who # 0
    PROVE  AccountsInv'
<1>1. TripsAre(trips', ShownPage(desk)) BY DEF AccountsInv, TripsAre
<1>2. DeskIsFed(desk, trips') BY DEF AccountsInv, DeskIsFed
<1>3. DialogIsFed(dialog', drawer', trips') BY DEF AccountsInv, DialogIsFed
<1> QED BY <1>1, <1>2, <1>3 DEF AccountsInv, ShownPage

LEMMA ServeTripKeeps ==
    ASSUME AccountsInv, NEW t \in trips, ServeTrip(t)
    PROVE  AccountsInv'
<1>1. IsATrip(t) BY DEF AccountsInv, TripsAre
<1>2. UNCHANGED <<viewer, desk, drawer, dialog, credential>> BY DEF ServeTrip
<1>3. PICK q : /\ trips' = (trips \ {t}) \cup {q} /\ IsATrip(q) /\ q.what = t.what /\ q.who = t.who
               /\ q.confirmed = t.confirmed /\ q.active = t.active
  <2>1. ASSUME NEW q, NEW at, NEW a, q = [t EXCEPT !.at = at, !.answer = a]
        PROVE  /\ IsATrip(q) /\ q.what = t.what /\ q.who = t.who
               /\ q.confirmed = t.confirmed /\ q.active = t.active
    <3>1. q = [what |-> t.what, who |-> t.who, set |-> t.set, confirmed |-> t.confirmed, active |-> t.active,
               at |-> at, answer |-> a]
      BY <1>1, <2>1 DEF IsATrip
    <3> QED BY <1>1, <3>1 DEF IsATrip
  <2>2. [t EXCEPT !.at = "refused"] = [t EXCEPT !.at = "refused", !.answer = t.answer] BY <1>1 DEF IsATrip
  <2>3. \E at, a : trips' = (trips \ {t}) \cup {[t EXCEPT !.at = at, !.answer = a]}
    BY <2>2, ZenonT(60) DEF ServeTrip
  <2> QED BY <2>1, <2>3, Zenon
<1>4. TripsAre(trips', ShownPage(desk)) BY <1>3 DEF AccountsInv, TripsAre
<1>5. DeskIsFed(desk, trips') BY <1>3 DEF AccountsInv, DeskIsFed
<1>6. DialogIsFed(dialog, drawer, trips') BY <1>3 DEF AccountsInv, DialogIsFed
<1> QED BY <1>2, <1>4, <1>5, <1>6 DEF AccountsInv, ShownPage

LEMMA UsersArriveKeeps ==
    ASSUME AccountsInv, NEW t \in trips, UsersArrive(t)
    PROVE  AccountsInv'
<1>1. UNCHANGED <<registry, viewer, drawer, dialog, credential>> /\ trips' = trips \ {t} /\ t.what = "list"
  BY DEF UsersArrive
<1>2. TripsAre(trips', ShownPage(desk)) BY <1>1 DEF AccountsInv, TripsAre
<1>3. DialogIsFed(dialog', drawer', trips') BY <1>1 DEF AccountsInv, DialogIsFed, TripsAre
<1>4. CASE ~t.active
  <2>1. desk' = desk BY <1>4 DEF UsersArrive, Heard
  <2>2. DeskIsFed(desk, trips') BY <1>1, <1>4 DEF AccountsInv, DeskIsFed
  <2> QED BY <1>1, <1>2, <1>3, <2>1, <2>2 DEF AccountsInv, ShownPage
<1>5. CASE t.active
  <2>1. IsADesk(desk) /\ t.who = ShownPage(desk) BY <1>1, <1>5 DEF AccountsInv, TripsAre
  <2>2. ASSUME NEW items, NEW next, NEW failed \in BOOLEAN, NEW of, failed \/ of = t.who,
               desk' = [items |-> items, next |-> next, history |-> desk.history, page |-> desk.page,
                        loading |-> FALSE, failed |-> failed, of |-> of]
        PROVE  /\ IsADesk(desk') /\ ~desk'.loading /\ ShownPage(desk') = ShownPage(desk)
               /\ desk'.failed \/ desk'.of = t.who
    BY <2>2 DEF IsADesk, ShownPage
  <2>3. /\ IsADesk(desk') /\ ~desk'.loading /\ ShownPage(desk') = ShownPage(desk)
        /\ desk'.failed \/ desk'.of = t.who
    <3>1. CASE Refused(t)
      <4>1. desk' = [desk EXCEPT !.loading = FALSE, !.failed = TRUE] BY <1>5, <3>1 DEF UsersArrive, Heard
      <4>2. desk' = [items |-> desk.items, next |-> desk.next, history |-> desk.history, page |-> desk.page,
                     loading |-> FALSE, failed |-> TRUE, of |-> desk.of]
        BY <2>1, <4>1 DEF IsADesk
      <4> QED BY <2>2, <4>2
    <3>2. CASE ~Refused(t)
      <4>1. desk' = [desk EXCEPT !.loading = FALSE, !.failed = FALSE, !.of = t.who,
                                 !.items = t.answer.items, !.next = t.answer.next]
        BY <1>5, <3>2 DEF UsersArrive, Heard
      <4>2. desk' = [items |-> t.answer.items, next |-> t.answer.next, history |-> desk.history,
                     page |-> desk.page, loading |-> FALSE, failed |-> FALSE, of |-> t.who]
        BY <2>1, <4>1 DEF IsADesk
      <4> QED BY <2>2, <4>2
    <3> QED BY <3>1, <3>2
  <2>4. DeskIsFed(desk', trips') BY <2>1, <2>3 DEF DeskIsFed
  <2> QED BY <1>1, <1>2, <1>3, <2>3, <2>4 DEF AccountsInv, ShownPage
<1>6. t.active \in BOOLEAN BY DEF AccountsInv, TripsAre, IsATrip
<1> QED BY <1>4, <1>5, <1>6

LEMMA DetailArrivesKeeps ==
    ASSUME AccountsInv, NEW t \in trips, DetailArrives(t)
    PROVE  AccountsInv'
<1>1. UNCHANGED <<registry, viewer, desk, dialog, credential>> /\ trips' = trips \ {t} /\ t.what = "detail"
  BY DEF DetailArrives
<1>2. TripsAre(trips', ShownPage(desk)) BY <1>1 DEF AccountsInv, TripsAre
<1>3. DeskIsFed(desk, trips') BY <1>1 DEF AccountsInv, DeskIsFed
<1>4. t.who # 0 /\ ~t.confirmed BY <1>1 DEF AccountsInv, TripsAre, IsATrip
<1>5. IsADrawer(drawer') /\ (drawer'.who = drawer.who \/ drawer'.who = t.who)
  <2>1. CASE drawer' = drawer BY <2>1 DEF AccountsInv
  <2>2. CASE drawer' = [drawer EXCEPT !.who = t.who, !.seen = t.answer, !.role = t.answer.role]
    <3>1. drawer' = [open |-> drawer.open, who |-> t.who, seen |-> t.answer, role |-> t.answer.role]
      BY <2>2 DEF AccountsInv, IsADrawer
    <3> QED BY <3>1 DEF IsADrawer
  <2> QED BY <2>1, <2>2 DEF DetailArrives
<1>6. DialogIsFed(dialog, drawer', trips') BY <1>1, <1>4, <1>5 DEF AccountsInv, DialogIsFed
<1> QED BY <1>1, <1>2, <1>3, <1>5, <1>6 DEF AccountsInv, ShownPage

LEMMA ChangeArrivesKeeps ==
    ASSUME AccountsInv, NEW t \in trips, ChangeArrives(t)
    PROVE  AccountsInv'
<1>1. /\ trips' = trips \ {t} /\ t.what \notin {"list", "detail"}
  BY DEF ChangeArrives, Saved, StatusSaved, PasswordReset, Deleted, Transferred
<1>2. PICK items : desk' = desk \/ desk' = [desk EXCEPT !.items = items]
  BY DEF ChangeArrives, Saved, StatusSaved, PasswordReset, Deleted, Transferred, Replaced
<1>3. /\ IsADesk(desk') /\ ShownPage(desk') = ShownPage(desk) /\ desk'.loading = desk.loading
      /\ desk'.failed = desk.failed /\ desk'.of = desk.of
  <2>1. CASE desk' = desk BY <2>1 DEF AccountsInv
  <2>2. CASE desk' = [desk EXCEPT !.items = items]
    <3>1. desk' = [items |-> items, next |-> desk.next, history |-> desk.history, page |-> desk.page,
                   loading |-> desk.loading, failed |-> desk.failed, of |-> desk.of]
      BY <2>2 DEF AccountsInv, IsADesk
    <3> QED BY <3>1 DEF AccountsInv, IsADesk, ShownPage
  <2> QED BY <1>2, <2>1, <2>2
<1>4. IsADrawer(drawer') /\ drawer'.who = drawer.who
  <2>1. CASE drawer' = drawer BY <2>1 DEF AccountsInv
  <2>2. CASE drawer' = [drawer EXCEPT !.open = FALSE]
    <3>1. drawer' = [open |-> FALSE, who |-> drawer.who, seen |-> drawer.seen, role |-> drawer.role]
      BY <2>2 DEF AccountsInv, IsADrawer
    <3> QED BY <3>1 DEF IsADrawer
  <2> QED BY <2>1, <2>2 DEF ChangeArrives, Saved, StatusSaved, PasswordReset, Deleted, Transferred
<1>5. /\ IsADialog(dialog') /\ (dialog'.what = "save" => dialog.what = "save")
      /\ dialog'.busy => dialog.busy /\ ~t.confirmed
  <2>1. CASE dialog' = dialog /\ ~t.confirmed BY <2>1 DEF AccountsInv
  <2>2. CASE dialog' = NoDialog BY <2>2, NoDialogIs
  <2>3. CASE dialog' = [dialog EXCEPT !.busy = FALSE]
    <3>1. dialog' = [what |-> dialog.what, who |-> dialog.who, set |-> dialog.set, busy |-> FALSE]
      BY <2>3 DEF AccountsInv, IsADialog
    <3> QED BY <3>1 DEF AccountsInv, IsADialog
  <2> QED BY <2>1, <2>2, <2>3 DEF ChangeArrives, Settles
<1>6. TripsAre(trips', ShownPage(desk')) BY <1>1, <1>3 DEF AccountsInv, TripsAre
<1>7. DeskIsFed(desk', trips') BY <1>1, <1>3 DEF AccountsInv, DeskIsFed
<1>8. DialogIsFed(dialog', drawer', trips') BY <1>1, <1>4, <1>5 DEF AccountsInv, DialogIsFed
<1> QED BY <1>3, <1>4, <1>5, <1>6, <1>7, <1>8 DEF AccountsInv, ShownPage

(* persistUser: the request is of the account that is edited, or creates   *)
(* one.                                                                    *)
LEMMA PersistSends ==
    ASSUME NEW role, NEW c \in BOOLEAN, PersistUser(role, c)
    PROVE  \E t : /\ trips' = trips \cup {t} /\ IsATrip(t) /\ t.what \in {"role", "create"}
                  /\ drawer.who # 0 => t.confirmed = c
<1>1. CASE drawer.who # 0
  <2>1. PICK t : t = TripOf("role", drawer.who, role, c) OBVIOUS
  <2>2. trips' = trips \cup {t} BY <1>1, <2>1 DEF PersistUser, Sends, TripOf
  <2>3. IsATrip(t) /\ t.what = "role" /\ t.confirmed = c BY <2>1, TripIs
  <2> QED BY <2>2, <2>3
<1>2. CASE drawer.who = 0
  <2>1. PICK u \in People : Sends(Trip("create", u, role)) BY <1>2 DEF PersistUser
  <2>2. PICK t : t = Trip("create", u, role) OBVIOUS
  <2>3. trips' = trips \cup {t} BY <2>1, <2>2 DEF Sends
  <2>4. IsATrip(t) /\ t.what = "create" BY <2>2, PlainTrip
  <2> QED BY <1>2, <2>3, <2>4
<1> QED BY <1>1, <1>2

LEMMA NextAccounts == AccountsInv /\ [AccountsNext]_deskVars => AccountsInv'
<1> SUFFICES ASSUME AccountsInv, [AccountsNext]_deskVars PROVE AccountsInv'
  OBVIOUS
<1>t. IsADesk(desk) /\ IsADrawer(drawer) /\ IsADialog(dialog) BY DEF AccountsInv
<1>1. CASE UNCHANGED deskVars
  BY <1>1 DEF deskVars, AccountsInv, ShownPage
<1>2. CASE \E t \in trips : ServeTrip(t) \/ UsersArrive(t) \/ DetailArrives(t) \/ ChangeArrives(t)
  BY <1>2, ServeTripKeeps, UsersArriveKeeps, DetailArrivesKeeps, ChangeArrivesKeeps
<1>3. CASE FilterUsers
  <2>1. PICK d : d = [desk EXCEPT !.page = 1] /\ Turn(d) BY <1>3 DEF FilterUsers
  <2>2. d = [items |-> desk.items, next |-> desk.next, history |-> desk.history, page |-> 1,
             loading |-> desk.loading, failed |-> desk.failed, of |-> desk.of]
    BY <1>t, <2>1 DEF IsADesk
  <2>3. IsADesk(d) BY <1>t, <2>2 DEF IsADesk
  <2> QED BY <2>1, <2>3, TurnKeeps
<1>4. CASE PreviousUsers
  <2>1. PICK d : d = [desk EXCEPT !.page = @ - 1, !.loading = TRUE] /\ Turn(d) BY <1>4 DEF PreviousUsers
  <2>2. d = [items |-> desk.items, next |-> desk.next, history |-> desk.history, page |-> desk.page - 1,
             loading |-> TRUE, failed |-> desk.failed, of |-> desk.of]
    BY <1>t, <2>1 DEF IsADesk
  <2>3. IsADesk(d) BY <1>t, <2>2 DEF IsADesk
  <2> QED BY <2>1, <2>3, TurnKeeps
<1>5. CASE NextUsers
  <2>1. PICK d, h : /\ d = [desk EXCEPT !.page = @ + 1, !.loading = TRUE, !.history = h] /\ Turn(d)
    <3>1. PICK h : h = Append(SubSeq(desk.history, 1, desk.page), desk.next) OBVIOUS
    <3>2. Turn([desk EXCEPT !.page = @ + 1, !.loading = TRUE, !.history = h])
      BY <1>5, <3>1 DEF NextUsers
    <3> QED BY <3>2
  <2>2. d = [items |-> desk.items, next |-> desk.next, history |-> h, page |-> desk.page + 1,
             loading |-> TRUE, failed |-> desk.failed, of |-> desk.of]
    BY <1>t, <2>1 DEF IsADesk
  <2>3. IsADesk(d) BY <1>t, <2>2 DEF IsADesk
  <2> QED BY <2>1, <2>3, TurnKeeps
<1>6. ASSUME UNCHANGED <<desk, trips>>, IsADrawer(drawer'), IsADialog(dialog'), ~dialog'.busy,
             dialog'.what = "save" => drawer'.who # 0
      PROVE  AccountsInv'
  <2>1. PICK T : T = {} OBVIOUS
  <2>2. trips' = trips \cup T BY <1>6, <2>1
  <2> QED BY <1>6, <2>1, <2>2, TripKeeps
<1>7. ASSUME NEW what \in {"none", "status", "delete", "transfer", "role", "save"}, NEW u, NEW set,
             dialog' = [NoDialog EXCEPT !.what = what, !.who = u, !.set = set]
      PROVE  IsADialog(dialog') /\ ~dialog'.busy /\ dialog'.what = what
  <2>1. dialog' = [what |-> what, who |-> u, set |-> set, busy |-> FALSE] BY <1>7 DEF NoDialog
  <2>2. dialog'.what = what /\ dialog'.who = u /\ dialog'.set = set /\ dialog'.busy = FALSE BY <2>1
  <2> QED BY <1>7, <2>1, <2>2 DEF IsADialog
<1>8. ASSUME NEW u \in People, RowAction(u) PROVE AccountsInv'
  <2>1. PICK what, set : what \in {"status", "delete", "transfer"} /\ Opens(what, u, set)
    BY <1>8 DEF RowAction
  <2>2. UNCHANGED <<desk, drawer, trips>> BY <2>1 DEF Opens
  <2>3. dialog' = [NoDialog EXCEPT !.what = what, !.who = u, !.set = set] BY <2>1 DEF Opens
  <2>4. IsADialog(dialog') /\ ~dialog'.busy /\ dialog'.what = what BY <1>7, <2>1, <2>3
  <2>5. what \in {"status", "delete", "transfer"} BY <2>1
  <2> QED BY <1>t, <1>6, <2>2, <2>4, <2>5
<1>9. ASSUME NEW u \in People, ResetPassword(u) PROVE AccountsInv'
  <2>1. PICK t : t = Trip("reset", u, "none") OBVIOUS
  <2>2. IsATrip(t) /\ t.what = "reset" BY <2>1, PlainTrip
  <2>3. UNCHANGED <<desk, drawer, dialog>> /\ trips' = trips \cup {t}
    BY <1>9, <2>1 DEF ResetPassword, Sends
  <2>4. PICK T : T = {t} OBVIOUS
  <2> QED BY <1>t, <2>2, <2>3, <2>4, TripKeeps DEF AccountsInv, DialogIsFed
<1>10. ASSUME NEW u \in People, OpenEdit(u) PROVE AccountsInv'
  <2>1. PICK t : t = Trip("detail", u, "none") OBVIOUS
  <2>2. IsATrip(t) /\ t.what = "detail" /\ t.who = u /\ u # 0 /\ ~t.confirmed
    BY <2>1, PlainTrip, AccountsPageAssumption DEF People
  <2>3. UNCHANGED <<desk, dialog>> /\ trips' = trips \cup {t} /\ dialog = NoDialog
    BY <1>10, <2>1 DEF OpenEdit, Sends, Free
  <2>4. IsADrawer(drawer') BY <1>10 DEF OpenEdit, IsADrawer
  <2>5. PICK T : T = {t} OBVIOUS
  <2> QED BY <2>2, <2>3, <2>4, <2>5, TripKeeps, NoDialogIs
<1>11. ASSUME NEW role \in Roles, ChooseRole(role) PROVE AccountsInv'
  <2>1. UNCHANGED <<desk, trips>> /\ dialog = NoDialog BY <1>11 DEF ChooseRole
  <2>2. CASE drawer' = drawer /\ dialog' = [NoDialog EXCEPT !.what = "role", !.set = role]
    <3>1. dialog' = [what |-> "role", who |-> 0, set |-> role, busy |-> FALSE] BY <2>2 DEF NoDialog
    <3>2. IsADialog(dialog') /\ ~dialog'.busy /\ dialog'.what = "role" BY <3>1 DEF IsADialog
    <3> QED BY <1>t, <1>6, <2>1, <2>2, <3>2
  <2>3. CASE drawer' = [drawer EXCEPT !.role = role] /\ dialog' = dialog
    <3>1. drawer' = [open |-> drawer.open, who |-> drawer.who, seen |-> drawer.seen, role |-> role]
      BY <1>t, <2>3 DEF IsADrawer
    <3>2. IsADrawer(drawer') BY <3>1 DEF IsADrawer
    <3> QED BY <1>6, <2>1, <2>3, <3>2, NoDialogIs
  <2> QED BY <1>11, <2>2, <2>3 DEF ChooseRole
<1>12. CASE OpenCreate
  <2>1. UNCHANGED <<desk, trips, dialog>> /\ dialog = NoDialog BY <1>12 DEF OpenCreate, Free
  <2>2. IsADrawer(drawer') BY <1>12 DEF OpenCreate, IsADrawer
  <2> QED BY <1>6, <2>1, <2>2, NoDialogIs
<1>13. CASE CloseDrawer
  <2>1. UNCHANGED <<desk, trips, dialog>> /\ dialog = NoDialog BY <1>13 DEF CloseDrawer
  <2>2. drawer' = [open |-> FALSE, who |-> drawer.who, seen |-> drawer.seen, role |-> drawer.role]
    BY <1>13, <1>t DEF CloseDrawer, IsADrawer
  <2>3. IsADrawer(drawer') BY <2>2 DEF IsADrawer
  <2> QED BY <1>6, <2>1, <2>3, NoDialogIs
<1>14. CASE SaveUser
  <2>1. UNCHANGED <<desk, drawer>> /\ dialog = NoDialog BY <1>14 DEF SaveUser
  <2>2. CASE /\ drawer.who # 0 /\ trips' = trips
             /\ dialog' = [NoDialog EXCEPT !.what = "save", !.set = drawer.role]
    <3>1. dialog' = [what |-> "save", who |-> 0, set |-> drawer.role, busy |-> FALSE] BY <2>2 DEF NoDialog
    <3>2. IsADialog(dialog') /\ ~dialog'.busy BY <3>1 DEF IsADialog
    <3> QED BY <1>t, <1>6, <2>1, <2>2, <3>2
  <2>3. CASE PersistUser(drawer.role, FALSE) /\ dialog' = dialog
    <3>1. FALSE \in BOOLEAN OBVIOUS
    <3>2. PICK t : trips' = trips \cup {t} /\ IsATrip(t) /\ t.what \in {"role", "create"}
      BY <2>3, <3>1, PersistSends
    <3>3. PICK T : T = {t} OBVIOUS
    <3> QED BY <1>t, <2>1, <2>3, <3>2, <3>3, TripKeeps, NoDialogIs
  <2> QED BY <1>14, <2>2, <2>3 DEF SaveUser
<1>15. CASE CloseDialog
  <2>1. UNCHANGED <<desk, trips, drawer>> /\ dialog' = NoDialog BY <1>15 DEF CloseDialog
  <2> QED BY <1>t, <1>6, <2>1, NoDialogIs
<1>16. CASE ConfirmRole
  <2>1. UNCHANGED <<desk, trips>> /\ dialog' = NoDialog BY <1>16 DEF ConfirmRole
  <2>2. drawer' = [open |-> drawer.open, who |-> drawer.who, seen |-> drawer.seen, role |-> dialog.set]
    BY <1>16, <1>t DEF ConfirmRole, IsADrawer
  <2>3. IsADrawer(drawer') BY <2>2 DEF IsADrawer
  <2> QED BY <1>6, <2>1, <2>3, NoDialogIs
<1>17. CASE Confirm
  <2>1. UNCHANGED <<desk, drawer>> BY <1>17 DEF Confirm
  <2>2. dialog' = [what |-> dialog.what, who |-> dialog.who, set |-> dialog.set, busy |-> TRUE]
    BY <1>17, <1>t DEF Confirm, IsADialog
  <2>3. IsADialog(dialog') /\ dialog'.what = dialog.what BY <1>t, <2>2 DEF IsADialog
  <2>4. dialog.what \in {"status", "delete", "transfer", "save"} BY <1>17, <1>t DEF Confirm, IsADialog
  <2>5. \E t : trips' = trips \cup {t} /\ IsATrip(t) /\ t.what \notin {"list", "detail"} /\ t.confirmed
    <3>1. CASE dialog.what = "save"
      <4>1. PersistUser(dialog.set, TRUE) /\ drawer.who # 0 /\ TRUE \in BOOLEAN
        BY <1>17, <3>1 DEF Confirm, AccountsInv, DialogIsFed
      <4>2. PICK t : trips' = trips \cup {t} /\ IsATrip(t) /\ t.what \in {"role", "create"} /\ t.confirmed = TRUE
        BY <4>1, PersistSends
      <4> QED BY <4>2
    <3>2. CASE dialog.what # "save"
      <4>1. PICK c \in BOOLEAN : c = TRUE OBVIOUS
      <4>2. PICK t : t = TripOf(dialog.what, dialog.who, dialog.set, c) OBVIOUS
      <4>3. trips' = trips \cup {t} BY <1>17, <3>2, <4>1, <4>2 DEF Confirm, Sends, TripOf
      <4>4. IsATrip(t) /\ t.what = dialog.what /\ t.confirmed = c BY <4>2, TripIs
      <4> QED BY <2>4, <4>1, <4>3, <4>4
    <3> QED BY <3>1, <3>2
  <2>6. PICK t, T : /\ T = {t} /\ trips' = trips \cup T /\ IsATrip(t) /\ t.what \notin {"list", "detail"}
                    /\ t.confirmed
    BY <2>5
  <2>7. dialog'.what = "save" => drawer'.who # 0 BY <2>1, <2>3 DEF AccountsInv, DialogIsFed
  <2> QED BY <1>t, <2>1, <2>3, <2>6, <2>7, TripKeeps
<1>18. CASE CredentialSaved
  BY <1>18 DEF CredentialSaved, AccountsInv, ShownPage
<1> QED BY <1>1, <1>2, <1>3, <1>4, <1>5, <1>8, <1>9, <1>10, <1>11, <1>12, <1>13, <1>14, <1>15, <1>16,
           <1>17, <1>18
        DEF AccountsNext

LEMMA AccountsInvTells == AccountsInv => AccountsWait /\ RowsAreOfThePage
  BY DEF AccountsInv, DeskIsFed, DialogIsFed, AccountsWait, RowsAreOfThePage, Heard, ShownPage

-----------------------------------------------------------------------------
(* The notifications.                                                      *)
IsAMail(c) ==
    /\ c = [what |-> c.what, by |-> c.by, gen |-> c.gen, unread |-> c.unread, cursor |-> c.cursor, id |-> c.id,
            read |-> c.read, told |-> c.told, at |-> c.at, result |-> c.result]
    /\ c.what \in {"list", "more", "mark"} /\ c.by \in {"page", "menu"} /\ c.gen \in Nat
    /\ c.what = "more" => c.by = "page"

IsAnInbox(b) ==
    /\ b = [items |-> b.items, unread |-> b.unread, next |-> b.next, filter |-> b.filter, gen |-> b.gen,
            loading |-> b.loading, more |-> b.more, marking |-> b.marking, error |-> b.error]
    /\ b.gen \in Nat /\ b.loading \in BOOLEAN /\ b.more \in BOOLEAN

IsAMenu(m) ==
    /\ m = [items |-> m.items, unread |-> m.unread, gen |-> m.gen, loading |-> m.loading,
            marking |-> m.marking, error |-> m.error]
    /\ m.gen \in Nat /\ m.loading \in BOOLEAN

ItemsAre(items, n) == \A x \in items : x = [id |-> x.id, read |-> x.read, told |-> n]

(* No call of the page is of a later generation, and those of the present  *)
(* one were made after the last refusal that the page has heard of.        *)
PageCallsAre(C, gen, n) ==
    \A c \in C : c.by = "page" => c.gen <= gen /\ (c.gen = gen => c.told = n)

PageIsFed(b, C) ==
    /\ b.loading => \E c \in C : c.what = "list" /\ c.by = "page" /\ c.gen = b.gen
    /\ b.more => \E c \in C : c.what = "more"

MenuIsFed(m, C) == m.loading => \E c \in C : c.what = "list" /\ c.by = "menu" /\ c.gen = m.gen

InboxInv ==
    /\ IsAnInbox(inbox) /\ IsAMenu(menu) /\ absences \in Nat
    /\ \A c \in mails : IsAMail(c)
    /\ PageCallsAre(mails, inbox.gen, absences)
    /\ ItemsAre(inbox.items, absences)
    /\ PageIsFed(inbox, mails) /\ MenuIsFed(menu, mails)

LEMMA InitInbox == InboxInit => InboxInv
<1> SUFFICES ASSUME InboxInit PROVE InboxInv OBVIOUS
<1>1. IsAnInbox(inbox) /\ inbox.gen = 1 /\ inbox.items = {} /\ ~inbox.more
  BY DEF InboxInit, IsAnInbox
<1>2. IsAMenu(menu) /\ menu.gen = 1 BY DEF InboxInit, IsAMenu
<1>3. absences = 0 BY DEF InboxInit
<1>4. ASSUME NEW by \in {"page", "menu"}, NEW c,
             c = [what |-> "list", by |-> by, gen |-> 1, unread |-> FALSE, cursor |-> 0, id |-> 0,
                  read |-> FALSE, told |-> 0, at |-> "sent", result |-> Nothing]
      PROVE  IsAMail(c) /\ c.what = "list" /\ c.by = by /\ c.gen = 1 /\ c.told = 0
  BY <1>4 DEF IsAMail
<1>5. PICK p, m : /\ mails = {p, m}
                  /\ IsAMail(p) /\ p.what = "list" /\ p.by = "page" /\ p.gen = 1 /\ p.told = 0
                  /\ IsAMail(m) /\ m.what = "list" /\ m.by = "menu" /\ m.gen = 1
  <2> DEFINE first(by) == [what |-> "list", by |-> by, gen |-> 1, unread |-> FALSE, cursor |-> 0, id |-> 0,
                          read |-> FALSE, told |-> 0, at |-> "sent", result |-> Nothing]
  <2>1. mails = {first(by) : by \in {"page", "menu"}} BY DEF InboxInit
  <2>2. PICK p, m : p = first("page") /\ m = first("menu") OBVIOUS
  <2>3. IsAMail(p) /\ p.what = "list" /\ p.by = "page" /\ p.gen = 1 /\ p.told = 0 BY <1>4, <2>2
  <2>4. IsAMail(m) /\ m.what = "list" /\ m.by = "menu" /\ m.gen = 1 BY <1>4, <2>2
  <2> HIDE DEF first
  <2>5. mails = {p, m} BY <2>1, <2>2
  <2> QED BY <2>3, <2>4, <2>5
<1>6. PageCallsAre(mails, inbox.gen, absences) BY <1>1, <1>3, <1>5 DEF PageCallsAre
<1>7. ItemsAre(inbox.items, absences) BY <1>1 DEF ItemsAre
<1>8. PageIsFed(inbox, mails) /\ MenuIsFed(menu, mails) BY <1>1, <1>2, <1>5 DEF PageIsFed, MenuIsFed
<1> QED BY <1>1, <1>2, <1>3, <1>5, <1>6, <1>7, <1>8 DEF InboxInv

-----------------------------------------------------------------------------
LEMMA FinallyIs ==
    ASSUME NEW b, IsAnInbox(b), NEW c, c.what \in {"list", "more", "mark"}, NEW f, f = Finally(b, c)
    PROVE  /\ IsAnInbox(f) /\ f.gen = b.gen /\ f.items = b.items
           /\ f.loading => b.loading /\ ~(c.what = "list" /\ c.gen = b.gen)
           /\ f.more => b.more /\ c.what # "more"
<1>1. CASE f = b /\ c.what = "list" /\ c.gen # b.gen BY <1>1
<1>2. CASE c.what = "list" /\ f = [b EXCEPT !.loading = FALSE]
  <2>1. f = [items |-> b.items, unread |-> b.unread, next |-> b.next, filter |-> b.filter, gen |-> b.gen,
             loading |-> FALSE, more |-> b.more, marking |-> b.marking, error |-> b.error]
    BY <1>2 DEF IsAnInbox
  <2> QED BY <1>2, <2>1 DEF IsAnInbox
<1>3. CASE c.what = "more" /\ f = [b EXCEPT !.more = FALSE]
  <2>1. f = [items |-> b.items, unread |-> b.unread, next |-> b.next, filter |-> b.filter, gen |-> b.gen,
             loading |-> b.loading, more |-> FALSE, marking |-> b.marking, error |-> b.error]
    BY <1>3 DEF IsAnInbox
  <2> QED BY <1>3, <2>1 DEF IsAnInbox
<1>4. CASE c.what = "mark" /\ f = [b EXCEPT !.marking = 0]
  <2>1. f = [items |-> b.items, unread |-> b.unread, next |-> b.next, filter |-> b.filter, gen |-> b.gen,
             loading |-> b.loading, more |-> b.more, marking |-> 0, error |-> b.error]
    BY <1>4 DEF IsAnInbox
  <2> QED BY <1>4, <2>1 DEF IsAnInbox
<1> QED BY <1>1, <1>2, <1>3, <1>4 DEF Finally

LEMMA MarkedIs ==
    ASSUME NEW items, NEW n, ItemsAre(items, n), NEW r PROVE ItemsAre(Marked(items, r), n)
<1>1. ASSUME NEW x \in items, NEW y, y = [x EXCEPT !.read = r.read]
      PROVE  y = [id |-> y.id, read |-> y.read, told |-> n]
  <2>1. x = [id |-> x.id, read |-> x.read, told |-> n] BY DEF ItemsAre
  <2>2. y = [id |-> x.id, read |-> r.read, told |-> n] BY <1>1, <2>1
  <2> QED BY <2>2
<1> QED BY <1>1 DEF ItemsAre, Marked

Filled(b, items, unread, next) == [b EXCEPT !.items = items, !.unread = unread, !.next = next]

LEMMA TookIs ==
    ASSUME NEW b, IsAnInbox(b), NEW n, ItemsAre(b.items, n), NEW c, c.told = n,
           c.what \in {"list", "more", "mark"}, NEW f, f = Took(b, c)
    PROVE  /\ IsAnInbox(f) /\ f.gen = b.gen /\ f.loading = b.loading /\ f.more = b.more
           /\ ItemsAre(f.items, n)
<1>1. ItemsAre(Told(c.result.items, c), n)
  <2>1. ASSUME NEW x \in c.result.items, NEW y, y = [id |-> x.id, read |-> x.read, told |-> c.told]
        PROVE  y = [id |-> y.id, read |-> y.read, told |-> n]
    BY <2>1
  <2> QED BY <2>1 DEF ItemsAre, Told
<1>2. ASSUME NEW items, ItemsAre(items, n), NEW unread, NEW next,
             f = Filled(b, items, unread, next)
      PROVE  /\ IsAnInbox(f) /\ f.gen = b.gen /\ f.loading = b.loading /\ f.more = b.more
             /\ ItemsAre(f.items, n)
  <2>1. f = [items |-> items, unread |-> unread, next |-> next, filter |-> b.filter, gen |-> b.gen,
             loading |-> b.loading, more |-> b.more, marking |-> b.marking, error |-> b.error]
    BY <1>2 DEF IsAnInbox, Filled
  <2>2. f.items = items BY <2>1
  <2> QED BY <1>2, <2>1, <2>2 DEF IsAnInbox
<1>3. CASE c.what = "list"
  <2>1. f = Filled(b, Told(c.result.items, c), c.result.unread, c.result.next) BY <1>3 DEF Took, Filled
  <2> QED BY <1>1, <1>2, <2>1
<1>4. CASE c.what = "more"
  <2>1. PICK items : items = AppendNotificationItems(b.items, Told(c.result.items, c)) OBVIOUS
  <2>2. ItemsAre(items, n) BY <1>1, <2>1 DEF ItemsAre, AppendNotificationItems
  <2>3. f = Filled(b, items, c.result.unread, c.result.next) BY <1>4, <2>1 DEF Took, Filled
  <2> QED BY <1>2, <2>2, <2>3
<1>5. CASE c.what = "mark"
  <2>1. PICK items : items = IF b.filter /\ c.result.read THEN {x \in b.items : x.id # c.result.id}
                             ELSE Marked(b.items, c.result)
    OBVIOUS
  <2>2. ItemsAre(items, n) BY <2>1, MarkedIs DEF ItemsAre
  <2>3. f = [b EXCEPT !.items = items, !.unread = Adjusted(@, c.result)] BY <1>5, <2>1 DEF Took
  <2>4. f = Filled(b, items, Adjusted(b.unread, c.result), b.next) BY <2>3 DEF IsAnInbox, Filled
  <2> QED BY <1>2, <2>2, <2>4
<1> QED BY <1>3, <1>4, <1>5

(* What the page has after it hears the answer to a call, or that there is *)
(* none: it forgets everything when it hears a refusal, and no call that   *)
(* was made before counts any more.                                        *)
LEMMA PageHearsIs ==
    ASSUME InboxInv, NEW c \in mails, NEW result, result = c.result \/ result = Failed, PageHears(c, result)
    PROVE  /\ c.by = "page" /\ menu' = menu /\ IsAnInbox(inbox') /\ absences' \in Nat
           /\ ItemsAre(inbox'.items, absences')
           /\ inbox'.loading => inbox.loading /\ ~(c.what = "list" /\ c.gen = inbox.gen)
           /\ inbox'.more => inbox.more /\ c.what # "more"
           /\ \/ inbox'.gen = inbox.gen /\ absences' = absences
              \/ inbox'.gen = inbox.gen + 1 /\ ~inbox'.loading
<1>1. IsAnInbox(inbox) /\ IsAMail(c) /\ c.by = "page" /\ absences \in Nat /\ ItemsAre(inbox.items, absences)
  BY DEF InboxInv, PageHears
<1>2. c.what \in {"list", "more", "mark"} BY <1>1 DEF IsAMail
<1>3. menu' = menu BY DEF PageHears
<1>4. ASSUME NEW b, IsAnInbox(b), b.gen = inbox.gen, b.loading = inbox.loading, b.more = inbox.more,
             ItemsAre(b.items, absences), inbox' = Finally(b, c), absences' = absences
      PROVE  /\ IsAnInbox(inbox') /\ absences' \in Nat
             /\ ItemsAre(inbox'.items, absences')
             /\ inbox'.loading => inbox.loading /\ ~(c.what = "list" /\ c.gen = inbox.gen)
             /\ inbox'.more => inbox.more /\ c.what # "more"
             /\ inbox'.gen = inbox.gen /\ absences' = absences
  <2>1. /\ IsAnInbox(inbox') /\ inbox'.gen = b.gen /\ inbox'.items = b.items
        /\ inbox'.loading => b.loading /\ ~(c.what = "list" /\ c.gen = b.gen)
        /\ inbox'.more => b.more /\ c.what # "more"
    BY <1>2, <1>4, FinallyIs
  <2> QED BY <1>1, <1>4, <2>1
<1>e. ASSUME NEW e, e = [inbox EXCEPT !.error = TRUE]
      PROVE  /\ IsAnInbox(e) /\ e.gen = inbox.gen /\ e.loading = inbox.loading /\ e.more = inbox.more
             /\ e.items = inbox.items
  <2>1. e = [items |-> inbox.items, unread |-> inbox.unread, next |-> inbox.next, filter |-> inbox.filter,
             gen |-> inbox.gen, loading |-> inbox.loading, more |-> inbox.more, marking |-> inbox.marking,
             error |-> TRUE]
    BY <1>1, <1>e DEF IsAnInbox
  <2> QED BY <1>1, <2>1 DEF IsAnInbox
<1>5. CASE c.gen # inbox.gen
  <2>1. inbox' = Finally(inbox, c) /\ absences' = absences BY <1>5 DEF PageHears
  <2> QED BY <1>1, <1>3, <1>4, <2>1
<1>6. CASE c.gen = inbox.gen /\ result.out = "failed"
  <2>1. PICK e : e = [inbox EXCEPT !.error = TRUE] OBVIOUS
  <2>2. inbox' = Finally(e, c) /\ absences' = absences BY <1>6, <2>1 DEF PageHears
  <2> QED BY <1>1, <1>3, <1>4, <1>e, <2>1, <2>2
<1>7. CASE c.gen = inbox.gen /\ result.out = "refused"
  <2>1. PICK e : e = [inbox EXCEPT !.error = TRUE] OBVIOUS
  <2>2. PICK p : p = PurgeAccess(e) OBVIOUS
  <2>3. inbox' = Finally(p, c) /\ absences' = absences + 1 BY <1>7, <2>1, <2>2 DEF PageHears
  <2>e. IsAnInbox(e) BY <1>e, <2>1
  <2>4. p = [items |-> {}, unread |-> 0, next |-> 0, filter |-> e.filter, gen |-> e.gen + 1, loading |-> FALSE,
             more |-> FALSE, marking |-> 0, error |-> e.error]
    BY <2>e, <2>2 DEF PurgeAccess, IsAnInbox
  <2>5. IsAnInbox(p) /\ p.gen = inbox.gen + 1 /\ ~p.loading /\ ~p.more /\ p.items = {}
    BY <1>e, <1>1, <2>1, <2>4 DEF IsAnInbox
  <2>f. PICK f : f = Finally(p, c) OBVIOUS
  <2>g. IsAnInbox(p) BY <2>5
  <2>h. /\ IsAnInbox(f) /\ f.gen = p.gen /\ f.items = p.items
        /\ f.loading => p.loading /\ ~(c.what = "list" /\ c.gen = p.gen)
        /\ f.more => p.more /\ c.what # "more"
    BY <1>2, <2>f, <2>g, FinallyIs
  <2>6. /\ IsAnInbox(inbox') /\ inbox'.gen = p.gen /\ inbox'.items = p.items
        /\ inbox'.loading => p.loading /\ ~(c.what = "list" /\ c.gen = p.gen)
        /\ inbox'.more => p.more /\ c.what # "more"
    BY <2>3, <2>f, <2>h
  <2>7. inbox'.loading \in BOOLEAN /\ inbox'.more \in BOOLEAN BY <2>6 DEF IsAnInbox
  <2> QED BY <1>1, <1>3, <2>3, <2>5, <2>6, <2>7 DEF ItemsAre
<1>8. CASE c.gen = inbox.gen /\ result.out \notin {"failed", "refused"}
  <2>1. PICK t : t = Took(inbox, c) OBVIOUS
  <2>2. c.told = absences BY <1>1, <1>8 DEF InboxInv, PageCallsAre
  <2>3. /\ IsAnInbox(t) /\ t.gen = inbox.gen /\ t.loading = inbox.loading /\ t.more = inbox.more
        /\ ItemsAre(t.items, absences)
    BY <1>1, <1>2, <2>1, <2>2, TookIs
  <2>4. inbox' = Finally(t, c) /\ absences' = absences BY <1>8, <2>1 DEF PageHears
  <2> QED BY <1>1, <1>3, <1>4, <2>3, <2>4
<1> QED BY <1>5, <1>6, <1>7, <1>8

LEMMA MenuHearsIs ==
    ASSUME InboxInv, NEW c \in mails, NEW result, MenuHears(c, result)
    PROVE  /\ c.by = "menu" /\ UNCHANGED <<inbox, absences>> /\ IsAMenu(menu') /\ menu'.gen = menu.gen
           /\ menu'.loading => menu.loading /\ ~(c.what = "list" /\ c.gen = menu.gen)
<1>1. IsAMenu(menu) /\ IsAMail(c) BY DEF InboxInv
<1>2. c.by = "menu" /\ UNCHANGED <<inbox, absences>> BY DEF MenuHears
<1>3. ASSUME NEW items, NEW unread, NEW loading \in BOOLEAN, NEW marking, NEW error,
             menu' = [items |-> items, unread |-> unread, gen |-> menu.gen, loading |-> loading,
                      marking |-> marking, error |-> error],
             loading => menu.loading /\ ~(c.what = "list" /\ c.gen = menu.gen)
      PROVE  /\ IsAMenu(menu') /\ menu'.gen = menu.gen
             /\ menu'.loading => menu.loading /\ ~(c.what = "list" /\ c.gen = menu.gen)
  BY <1>1, <1>3 DEF IsAMenu
<1>4. CASE c.what = "mark"
  <2>1. CASE menu' = [menu EXCEPT !.error = TRUE, !.marking = 0]
    <3>1. menu' = [items |-> menu.items, unread |-> menu.unread, gen |-> menu.gen, loading |-> menu.loading,
                   marking |-> 0, error |-> TRUE]
      BY <1>1, <2>1 DEF IsAMenu
    <3> QED BY <1>1, <1>2, <1>4, <3>1 DEF IsAMenu
  <2>2. CASE menu' = [menu EXCEPT !.items = Marked(@, result), !.marking = 0,
                                  !.unread = IF @ = 0 THEN 0 ELSE @ - 1]
    <3>1. menu' = [items |-> Marked(menu.items, result), unread |-> IF menu.unread = 0 THEN 0 ELSE menu.unread - 1,
                   gen |-> menu.gen, loading |-> menu.loading, marking |-> 0, error |-> menu.error]
      BY <1>1, <2>2 DEF IsAMenu
    <3> QED BY <1>1, <1>2, <1>4, <3>1 DEF IsAMenu
  <2> QED BY <1>4, <2>1, <2>2 DEF MenuHears
<1>5. CASE c.what # "mark" /\ c.gen # menu.gen
  <2>1. menu' = menu BY <1>5 DEF MenuHears
  <2> QED BY <1>1, <1>2, <1>5, <2>1
<1>6. CASE c.what # "mark" /\ c.gen = menu.gen
  <2>1. CASE menu' = [menu EXCEPT !.items = {}, !.unread = 0, !.error = TRUE, !.loading = FALSE]
    <3>1. menu' = [items |-> {}, unread |-> 0, gen |-> menu.gen, loading |-> FALSE,
                   marking |-> menu.marking, error |-> TRUE]
      BY <1>1, <2>1 DEF IsAMenu
    <3> QED BY <1>1, <1>2, <3>1 DEF IsAMenu
  <2>2. CASE menu' = [menu EXCEPT !.items = Told(result.items, c), !.unread = result.unread, !.loading = FALSE]
    <3>1. menu' = [items |-> Told(result.items, c), unread |-> result.unread, gen |-> menu.gen,
                   loading |-> FALSE, marking |-> menu.marking, error |-> menu.error]
      BY <1>1, <2>2 DEF IsAMenu
    <3> QED BY <1>1, <1>2, <3>1 DEF IsAMenu
  <2> QED BY <1>6, <2>1, <2>2 DEF MenuHears
<1> QED BY <1>4, <1>5, <1>6

LEMMA OfIs ==
    ASSUME NEW what, NEW by, NEW gen, NEW unread, NEW cursor, NEW id, NEW read,
           NEW c, c = Of(what, by, gen, unread, cursor, id, read)
    PROVE  /\ c.what = what /\ c.by = by /\ c.gen = gen /\ c.told = absences
           /\ /\ what \in {"list", "more", "mark"} /\ by \in {"page", "menu"} /\ gen \in Nat
              /\ what = "more" => by = "page"
              => IsAMail(c)
<1>1. /\ c = [what |-> what, by |-> by, gen |-> gen, unread |-> unread, cursor |-> cursor, id |-> id,
              read |-> read, told |-> absences, at |-> "sent", result |-> Nothing]
  BY DEF Of
<1>2. c.what = what /\ c.by = by /\ c.gen = gen /\ c.told = absences /\ c.unread = unread /\ c.cursor = cursor
      /\ c.id = id /\ c.read = read /\ c.at = "sent" /\ c.result = Nothing
  BY <1>1
<1> QED BY <1>1, <1>2 DEF IsAMail

(* A call of the page is made, and one of the menu.                        *)
LEMMA PageCallsKeeps ==
    ASSUME InboxInv, NEW c, IsAMail(c), c.by = "page", c.gen = inbox'.gen, c.told = absences,
           mails' = mails \cup {c}, UNCHANGED <<menu, absences>>,
           IsAnInbox(inbox'), inbox'.gen = inbox.gen \/ (inbox'.gen = inbox.gen + 1 /\ c.what = "list"),
           inbox'.loading => (inbox.loading /\ inbox'.gen = inbox.gen) \/ c.what = "list",
           inbox'.more => inbox.more \/ c.what = "more",
           inbox'.items \subseteq inbox.items
    PROVE  InboxInv'
<1>1. inbox.gen \in Nat BY DEF InboxInv, IsAnInbox
<1>2. PageCallsAre(mails', inbox'.gen, absences)
  <2> SUFFICES ASSUME NEW d \in mails, d.by = "page"
               PROVE  d.gen <= inbox'.gen /\ (d.gen = inbox'.gen => d.told = absences)
    BY DEF PageCallsAre, IsAMail
  <2>1. d.gen \in Nat /\ d.gen <= inbox.gen /\ (d.gen = inbox.gen => d.told = absences)
    BY DEF InboxInv, PageCallsAre, IsAMail
  <2> QED BY <1>1, <2>1
<1>3. ItemsAre(inbox'.items, absences) BY DEF InboxInv, ItemsAre
<1>4. PageIsFed(inbox', mails') BY DEF InboxInv, PageIsFed
<1>5. MenuIsFed(menu', mails') BY DEF InboxInv, MenuIsFed
<1> QED BY <1>2, <1>3, <1>4, <1>5 DEF InboxInv

LEMMA MenuCallsKeeps ==
    ASSUME InboxInv, NEW c, IsAMail(c), c.by = "menu",
           mails' = mails \cup {c}, UNCHANGED <<inbox, absences>>, IsAMenu(menu'),
           menu'.loading => \/ menu.loading /\ menu'.gen = menu.gen
                            \/ c.what = "list" /\ c.gen = menu'.gen
    PROVE  InboxInv'
<1>1. PageCallsAre(mails', inbox.gen, absences) BY DEF InboxInv, PageCallsAre
<1>2. PageIsFed(inbox, mails') BY DEF InboxInv, PageIsFed
<1>3. MenuIsFed(menu', mails') BY DEF InboxInv, MenuIsFed
<1> QED BY <1>1, <1>2, <1>3 DEF InboxInv

LEMMA NextInbox == InboxInv /\ [InboxNext]_inboxVars => InboxInv'
<1> SUFFICES ASSUME InboxInv, [InboxNext]_inboxVars PROVE InboxInv'
  OBVIOUS
<1>t. IsAnInbox(inbox) /\ IsAMenu(menu) /\ inbox.gen \in Nat /\ menu.gen \in Nat
  BY DEF InboxInv, IsAnInbox, IsAMenu
<1>1. CASE UNCHANGED <<inbox, menu, mails, absences>>
  BY <1>1 DEF InboxInv
<1>2. ASSUME NEW c \in mails, Serve(c) PROVE InboxInv'
  <2>1. UNCHANGED <<inbox, menu, absences>> BY <1>2 DEF Serve
  <2>2. IsAMail(c) BY DEF InboxInv
  <2>3. PICK r : mails' = (mails \ {c}) \cup {[c EXCEPT !.at = "answered", !.result = r]} BY <1>2 DEF Serve
  <2>4. PICK d : d = [c EXCEPT !.at = "answered", !.result = r] OBVIOUS
  <2>5. d = [what |-> c.what, by |-> c.by, gen |-> c.gen, unread |-> c.unread, cursor |-> c.cursor, id |-> c.id,
             read |-> c.read, told |-> c.told, at |-> "answered", result |-> r]
    BY <2>2, <2>4 DEF IsAMail
  <2>6. IsAMail(d) /\ d.what = c.what /\ d.by = c.by /\ d.gen = c.gen /\ d.told = c.told
    BY <2>2, <2>5 DEF IsAMail
  <2>7. mails' = (mails \ {c}) \cup {d} BY <2>3, <2>4
  <2>8. PageCallsAre(mails', inbox.gen, absences) BY <2>6, <2>7 DEF InboxInv, PageCallsAre
  <2>9. PageIsFed(inbox, mails') BY <2>6, <2>7 DEF InboxInv, PageIsFed
  <2>10. MenuIsFed(menu, mails') BY <2>6, <2>7 DEF InboxInv, MenuIsFed
  <2> QED BY <2>1, <2>6, <2>7, <2>8, <2>9, <2>10 DEF InboxInv
<1>3. ASSUME NEW c \in mails, Hear(c) PROVE InboxInv'
  <2>1. mails' = mails \ {c} /\ IsAMail(c) BY <1>3 DEF Hear, InboxInv
  <2>2. ASSUME NEW result, result = c.result \/ result = Failed, PageHears(c, result) PROVE InboxInv'
    <3>1. /\ c.by = "page" /\ menu' = menu /\ IsAnInbox(inbox') /\ absences' \in Nat
          /\ ItemsAre(inbox'.items, absences')
          /\ inbox'.loading => inbox.loading /\ ~(c.what = "list" /\ c.gen = inbox.gen)
          /\ inbox'.more => inbox.more /\ c.what # "more"
          /\ \/ inbox'.gen = inbox.gen /\ absences' = absences
             \/ inbox'.gen = inbox.gen + 1 /\ ~inbox'.loading
      BY <2>2, PageHearsIs
    <3>2. PageCallsAre(mails', inbox'.gen, absences')
      <4> SUFFICES ASSUME NEW d \in mails, d.by = "page"
                   PROVE  d.gen <= inbox'.gen /\ (d.gen = inbox'.gen => d.told = absences')
        BY <2>1 DEF PageCallsAre
      <4>1. d.gen \in Nat /\ d.gen <= inbox.gen /\ (d.gen = inbox.gen => d.told = absences)
        BY DEF InboxInv, PageCallsAre, IsAMail
      <4> QED BY <1>t, <3>1, <4>1
    <3>3. PageIsFed(inbox', mails')
      <4>1. CASE inbox'.gen = inbox.gen BY <2>1, <3>1, <4>1 DEF InboxInv, PageIsFed
      <4>2. CASE inbox'.gen # inbox.gen
        <5>1. ~inbox'.loading BY <3>1, <4>2
        <5> QED BY <2>1, <3>1, <5>1 DEF InboxInv, PageIsFed
      <4> QED BY <4>1, <4>2
    <3>4. MenuIsFed(menu', mails') BY <2>1, <3>1 DEF InboxInv, MenuIsFed
    <3> QED BY <2>1, <3>1, <3>2, <3>3, <3>4 DEF InboxInv
  <2>3. ASSUME NEW result, MenuHears(c, result) PROVE InboxInv'
    <3>1. /\ c.by = "menu" /\ UNCHANGED <<inbox, absences>> /\ IsAMenu(menu') /\ menu'.gen = menu.gen
          /\ menu'.loading => menu.loading /\ ~(c.what = "list" /\ c.gen = menu.gen)
      BY <2>3, MenuHearsIs
    <3>2. PageCallsAre(mails', inbox.gen, absences) BY <2>1 DEF InboxInv, PageCallsAre
    <3>3. PageIsFed(inbox, mails') BY <2>1, <3>1 DEF InboxInv, PageIsFed, IsAMail
    <3>4. MenuIsFed(menu', mails') BY <2>1, <3>1 DEF InboxInv, MenuIsFed
    <3> QED BY <2>1, <3>1, <3>2, <3>3, <3>4 DEF InboxInv
  <2> QED BY <1>3, <2>2, <2>3 DEF Hear
<1>4. CASE Notified \/ AccessChanges
  BY <1>1, <1>4 DEF Notified, AccessChanges
<1>5. ASSUME NEW filter \in BOOLEAN, Load(filter) PROVE InboxInv'
  <2>f. PICK f, t : f = FALSE /\ t = TRUE OBVIOUS
  <2>1. PICK c : c = Of("list", "page", inbox.gen + 1, filter, 0, 0, f) OBVIOUS
  <2>2. mails' = mails \cup {c} /\ UNCHANGED <<menu, absences>> BY <1>5, <2>f, <2>1 DEF Load
  <2>3. inbox.gen + 1 \in Nat BY <1>t
  <2>4. IsAMail(c) /\ c.what = "list" /\ c.by = "page" /\ c.gen = inbox.gen + 1 /\ c.told = absences
    BY <2>1, <2>3, OfIs
  <2>5. inbox' = [items |-> IF filter = inbox.filter THEN inbox.items ELSE {}, unread |-> inbox.unread,
                  next |-> IF filter = inbox.filter THEN inbox.next ELSE 0, filter |-> filter,
                  gen |-> inbox.gen + 1, loading |-> TRUE, more |-> FALSE, marking |-> inbox.marking,
                  error |-> FALSE]
    BY <1>5, <1>t DEF Load, IsAnInbox
  <2>6. IsAnInbox(inbox') /\ inbox'.gen = inbox.gen + 1 /\ ~inbox'.more /\ inbox'.items \subseteq inbox.items
    BY <2>3, <2>5 DEF IsAnInbox
  <2> QED BY <2>2, <2>4, <2>6, PageCallsKeeps
<1>6. CASE LoadMore
  <2>f. PICK f, t : f = FALSE /\ t = TRUE OBVIOUS
  <2>1. PICK c : c = Of("more", "page", inbox.gen, inbox.filter, inbox.next, 0, f) OBVIOUS
  <2>2. mails' = mails \cup {c} /\ UNCHANGED <<menu, absences>> BY <1>6, <2>f, <2>1 DEF LoadMore
  <2>4. IsAMail(c) /\ c.what = "more" /\ c.by = "page" /\ c.gen = inbox.gen /\ c.told = absences
    BY <1>t, <2>1, OfIs
  <2>5. inbox' = [items |-> inbox.items, unread |-> inbox.unread,
                  next |-> inbox.next, filter |-> inbox.filter,
                  gen |-> inbox.gen, loading |-> inbox.loading, more |-> TRUE, marking |-> inbox.marking,
                  error |-> FALSE]
    BY <1>6, <1>t DEF LoadMore, IsAnInbox
  <2>6. IsAnInbox(inbox') /\ inbox'.gen = inbox.gen /\ inbox'.loading = inbox.loading
        /\ inbox'.items \subseteq inbox.items
    BY <1>t, <2>5 DEF IsAnInbox
  <2> QED BY <2>2, <2>4, <2>6, PageCallsKeeps
<1>7. ASSUME NEW item, ToggleRead(item) PROVE InboxInv'
  <2>f. PICK f, t : f = FALSE /\ t = ~item.read OBVIOUS
  <2>1. PICK c : c = Of("mark", "page", inbox.gen, f, 0, item.id, t) OBVIOUS
  <2>2. mails' = mails \cup {c} /\ UNCHANGED <<menu, absences>> BY <1>7, <2>f, <2>1 DEF ToggleRead
  <2>4. IsAMail(c) /\ c.what = "mark" /\ c.by = "page" /\ c.gen = inbox.gen /\ c.told = absences
    BY <1>t, <2>1, OfIs
  <2>5. inbox' = [items |-> inbox.items, unread |-> inbox.unread,
                  next |-> inbox.next, filter |-> inbox.filter,
                  gen |-> inbox.gen, loading |-> inbox.loading, more |-> inbox.more, marking |-> item.id,
                  error |-> FALSE]
    BY <1>7, <1>t DEF ToggleRead, IsAnInbox
  <2>6. IsAnInbox(inbox') /\ inbox'.gen = inbox.gen /\ inbox'.loading = inbox.loading
        /\ inbox'.more = inbox.more /\ inbox'.items \subseteq inbox.items
    BY <1>t, <2>5 DEF IsAnInbox
  <2> QED BY <2>2, <2>4, <2>6, PageCallsKeeps
<1>8. CASE LoadMenu
  <2>f. PICK f, t : f = FALSE /\ t = TRUE OBVIOUS
  <2>1. PICK c : c = Of("list", "menu", menu.gen + 1, f, 0, 0, f) OBVIOUS
  <2>2. mails' = mails \cup {c} /\ UNCHANGED <<inbox, absences>> BY <1>8, <2>f, <2>1 DEF LoadMenu
  <2>3. menu.gen + 1 \in Nat BY <1>t
  <2>4. IsAMail(c) /\ c.what = "list" /\ c.by = "menu" /\ c.gen = menu.gen + 1
    BY <2>1, <2>3, OfIs
  <2>5. menu' = [items |-> menu.items, unread |-> menu.unread, gen |-> menu.gen + 1, loading |-> TRUE,
                 marking |-> menu.marking, error |-> FALSE]
    BY <1>8, <1>t DEF LoadMenu, IsAMenu
  <2>6. IsAMenu(menu') /\ menu'.gen = menu.gen + 1 BY <2>3, <2>5 DEF IsAMenu
  <2> QED BY <2>2, <2>4, <2>6, MenuCallsKeeps
<1>9. ASSUME NEW item, MarkAsRead(item) PROVE InboxInv'
  <2>f. PICK f, t : f = FALSE /\ t = TRUE OBVIOUS
  <2>1. PICK c : c = Of("mark", "menu", menu.gen, f, 0, item.id, t) OBVIOUS
  <2>2. mails' = mails \cup {c} /\ UNCHANGED <<inbox, absences>> BY <1>9, <2>f, <2>1 DEF MarkAsRead
  <2>4. IsAMail(c) /\ c.what = "mark" /\ c.by = "menu"
    BY <1>t, <2>1, OfIs
  <2>5. menu' = [items |-> menu.items, unread |-> menu.unread, gen |-> menu.gen, loading |-> menu.loading,
                 marking |-> item.id, error |-> FALSE]
    BY <1>9, <1>t DEF MarkAsRead, IsAMenu
  <2>6. IsAMenu(menu') /\ menu'.gen = menu.gen /\ menu'.loading = menu.loading BY <1>t, <2>5 DEF IsAMenu
  <2> QED BY <2>2, <2>4, <2>6, MenuCallsKeeps
<1> QED BY <1>1, <1>2, <1>3, <1>4, <1>5, <1>6, <1>7, <1>8, <1>9 DEF InboxNext, inboxVars

LEMMA InboxInvTells == InboxInv => InboxWaits /\ InboxForgotten
<1> SUFFICES ASSUME InboxInv PROVE InboxWaits /\ InboxForgotten OBVIOUS
<1>1. InboxWaits BY DEF InboxInv, PageIsFed, MenuIsFed, InboxWaits
<1>2. ASSUME NEW x \in inbox.items PROVE x.told = absences
  <2>1. x = [id |-> x.id, read |-> x.read, told |-> absences] BY DEF InboxInv, ItemsAre
  <2> QED BY <2>1
<1> QED BY <1>1, <1>2 DEF InboxForgotten

-----------------------------------------------------------------------------
(* The pages of a history.                                                 *)

(* A record of st, whose answers were asked for with its query and after n *)
(* refusals.                                                               *)
Fits(r, st, n) ==
    /\ r \in Records /\ r.station = st
    /\ \A a \in {r.data, r.good} : a # Void => a \in SoilHistories /\ a.station = st /\ a.query = r.query /\ a.told = n

LEMMA RecordIs ==
    ASSUME NEW st \in Plotted, NEW q \in Queries, NEW d \in SoilHistories \cup {Void}, NEW p \in BOOLEAN,
           NEW f \in BOOLEAN, NEW t \in BOOLEAN, NEW g \in SoilHistories \cup {Void},
           NEW r, r = Record(st, q, d, p, f, t, g)
    PROVE  /\ r \in Records /\ r.station = st /\ r.query = q /\ r.data = d /\ r.pending = p /\ r.good = g
  BY DEF Record, Records

(* A failure keeps what was asked for with the same query, if it is        *)
(* transient, and nothing otherwise.                                       *)
LEMMA FailureIs ==
    ASSUME NEW st \in Plotted, NEW q \in Queries, NEW n, NEW prior, prior = Void \/ Fits(prior, st, n),
           NEW transient \in BOOLEAN, NEW r, r = Failure(prior, st, q, transient)
    PROVE  /\ Fits(r, st, n) /\ r.query = q /\ ~r.pending
           /\ ~transient => r.data = Void /\ r.good = Void
<1>1. CASE Retains(prior, q, transient)
  <2>1. /\ transient /\ Fits(prior, st, n) /\ prior.good # Void /\ prior.good.query = q /\ prior.query = q
    BY <1>1 DEF Retains
  <2>2. prior.good \in SoilHistories /\ prior.good.station = st /\ prior.good.told = n
    BY <2>1 DEF Fits
  <2>3. PICK g : g = prior.good OBVIOUS
  <2>4. r = Record(st, q, g, FALSE, TRUE, TRUE, g) BY <1>1, <2>3 DEF Failure
  <2>5. r = [station |-> st, query |-> q, data |-> g, pending |-> FALSE, failed |-> TRUE,
             retained |-> TRUE, good |-> g]
    BY <2>4 DEF Record
  <2>6. r \in Records BY <2>2, <2>3, <2>5 DEF Records
  <2>7. r.station = st /\ r.query = q /\ r.data = g /\ r.good = g /\ r.pending = FALSE BY <2>5
  <2>8. Fits(r, st, n) BY <2>1, <2>2, <2>3, <2>6, <2>7 DEF Fits
  <2> QED BY <2>1, <2>7, <2>8
<1>2. CASE ~Retains(prior, q, transient)
  <2>1. r = [station |-> st, query |-> q, data |-> Void, pending |-> FALSE, failed |-> TRUE,
             retained |-> FALSE, good |-> Void]
    BY <1>2 DEF Failure, Record
  <2>2. r \in Records BY <2>1 DEF Records
  <2> QED BY <2>1, <2>2 DEF Fits
<1> QED BY <1>1, <1>2

LEMMA PendingIs ==
    ASSUME NEW st \in Plotted, NEW q \in Queries, NEW n, NEW prior, prior = Void \/ Fits(prior, st, n),
           NEW r, r = Pending(prior, st, q)
    PROVE  Fits(r, st, n) /\ r.query = q
<1>0. PICK t \in BOOLEAN : t = TRUE OBVIOUS
<1>1. PICK f : f = Failure(prior, st, q, t) OBVIOUS
<1>2. Fits(f, st, n) /\ f.query = q BY <1>1, FailureIs
<1>3. r = [f EXCEPT !.failed = FALSE, !.pending = TRUE] BY <1>0, <1>1 DEF Pending
<1>4. /\ r = [station |-> f.station, query |-> f.query, data |-> f.data, pending |-> TRUE, failed |-> FALSE,
              retained |-> f.retained, good |-> f.good]
      /\ f.station \in Plotted /\ f.query \in Queries /\ f.retained \in BOOLEAN
      /\ f.data \in SoilHistories \cup {Void} /\ f.good \in SoilHistories \cup {Void}
  BY <1>2, <1>3 DEF Fits, Records
<1>5. r \in Records BY <1>4 DEF Records
<1>6. r.station = f.station /\ r.query = f.query /\ r.data = f.data /\ r.good = f.good BY <1>4
<1> QED BY <1>2, <1>5, <1>6 DEF Fits

LEMMA EndedIs ==
    ASSUME NEW st \in Plotted, NEW q \in Queries, NEW n \in Nat, NEW prior, prior = Void \/ Fits(prior, st, n),
           NEW end \in Endings, NEW r, r = Ended(prior, st, q, n, end)
    PROVE  /\ Fits(r, st, n) /\ r.query = q /\ ~r.pending
           /\ end = "refused" => r.data = Void /\ r.good = Void
<1>1. CASE end \in {"points", "empty"}
  <2>1. PICK points \in BOOLEAN : points = (end = "points") OBVIOUS
  <2>2. PICK a : a = [station |-> st, query |-> q, told |-> n, points |-> points] OBVIOUS
  <2>3. a \in SoilHistories /\ a.station = st /\ a.query = q /\ a.told = n BY <2>2 DEF SoilHistories
  <2>4. PICK g : g = IF a.points THEN a ELSE Void OBVIOUS
  <2>5. r = [station |-> st, query |-> q, data |-> a, pending |-> FALSE, failed |-> FALSE,
             retained |-> FALSE, good |-> g]
    BY <1>1, <2>1, <2>2, <2>4 DEF Ended, Success, Answer, Record
  <2>6. g \in SoilHistories \cup {Void} /\ (g # Void => g = a) BY <2>3, <2>4
  <2>7. r \in Records BY <2>3, <2>5, <2>6 DEF Records
  <2> QED BY <1>1, <2>3, <2>5, <2>6, <2>7 DEF Fits
<1>2. CASE end \in {"other station", "refused", "error"}
  <2>1. PICK t \in BOOLEAN : t = FALSE OBVIOUS
  <2>2. r = Failure(prior, st, q, t) BY <1>2, <2>1 DEF Ended
  <2> QED BY <2>1, <2>2, FailureIs
<1>3. CASE end = "transient"
  <2>1. PICK t \in BOOLEAN : t = TRUE OBVIOUS
  <2>2. r = Failure(prior, st, q, t) BY <1>3, <2>1 DEF Ended
  <2>3. Fits(r, st, n) /\ r.query = q /\ ~r.pending BY <2>2, FailureIs
  <2> QED BY <1>3, <2>3
<1> QED BY <1>1, <1>2, <1>3 DEF Endings

-----------------------------------------------------------------------------
(* The report.                                                             *)
IsARead(r) ==
    /\ r = [fence |-> r.fence, subject |-> r.subject, reload |-> r.reload, told |-> r.told, active |-> r.active]
    /\ r.active \in BOOLEAN

ReportInv ==
    /\ denials \in [Plotted -> Nat]
    /\ subject \in [station : Plotted \cup {Void}, query : Metrics]
    /\ round.reload \in Nat /\ round.fence \in Nat
    /\ \A r \in reads :
         /\ IsARead(r)
         /\ r.active => /\ subject.station # Void /\ r.fence = round.fence /\ r.subject = subject
                        /\ r.reload = round.reload /\ r.told = denials[subject.station]
    /\ report # Void =>
         /\ report \in Reports /\ report.subject.station \in Plotted
         /\ report.record.query = report.subject
         /\ Fits(report.record, report.subject.station, denials[report.subject.station])
    /\ ReportLoading => \E r \in reads : r.active

ReportIdle == report = Void /\ reads = {} /\ subject.station = Void

LEMMA InitReport == ViewInit => ReportInv /\ ReportIdle
<1> SUFFICES ASSUME ViewInit PROVE ReportInv /\ ReportIdle OBVIOUS
<1>1. PICK m \in Metrics : subject = [station |-> Void, query |-> m] BY DEF ViewInit
<1>2. subject \in [station : Plotted \cup {Void}, query : Metrics] /\ subject.station = Void BY <1>1
<1>3. denials \in [Plotted -> Nat] BY DEF ViewInit
<1>4. ReportIdle BY <1>2 DEF ReportIdle, ViewInit
<1>5. round.reload \in Nat /\ round.fence \in Nat BY DEF ViewInit
<1> QED BY <1>2, <1>3, <1>4, <1>5 DEF ReportInv, ReportIdle, ReportLoading

LEMMA SubjectKeeps ==
    ASSUME ReportInv, NEW s \in [station : Plotted \cup {Void}, query : Metrics], NEW loading, NEW k \in Nat,
           Subject(s, loading, k)
    PROVE  ReportInv'
<1> DEFINE left == {[r EXCEPT !.active = FALSE] : r \in reads}
<1>1. PICK new : new = Read(round.fence + 1, s, k, denials[s.station]) OBVIOUS
<1>2. /\ subject' = s /\ round' = [reload |-> k, fence |-> round.fence + 1, loading |-> loading]
      /\ reads' = left \cup IF s.station = Void THEN {} ELSE {new}
      /\ report' = Void \/ report' = report
      /\ denials' = denials
  BY <1>1 DEF Subject
<1>3. ASSUME NEW r \in reads, NEW t, t = [r EXCEPT !.active = FALSE] PROVE IsARead(t) /\ ~t.active
  <2>1. IsARead(r) BY DEF ReportInv
  <2>2. t = [fence |-> r.fence, subject |-> r.subject, reload |-> r.reload, told |-> r.told, active |-> FALSE]
    BY <1>3, <2>1 DEF IsARead
  <2> QED BY <2>2 DEF IsARead
<1>4. \A t \in left : IsARead(t) /\ ~t.active BY <1>3
<1>5. /\ new = [fence |-> round.fence + 1, subject |-> s, reload |-> k, told |-> denials[s.station],
                active |-> TRUE]
  BY <1>1 DEF Read
<1>6. /\ IsARead(new) /\ new.active /\ new.fence = round.fence + 1 /\ new.subject = s /\ new.reload = k
      /\ new.told = denials[s.station]
  BY <1>5 DEF IsARead
<1>7. round'.reload = k /\ round'.fence = round.fence + 1 /\ round'.fence \in Nat BY <1>2 DEF ReportInv
<1> HIDE DEF left
<1>8. \A t \in reads' :
         /\ IsARead(t)
         /\ t.active => /\ s.station # Void /\ t.fence = round'.fence /\ t.subject = s
                        /\ t.reload = k /\ t.told = denials[s.station]
  BY <1>2, <1>4, <1>6, <1>7
<1>9. s.station # Void => \E t \in reads' : t.active BY <1>2, <1>6
<1>10. report' # Void =>
         /\ report' \in Reports /\ report'.subject.station \in Plotted
         /\ report'.record.query = report'.subject
         /\ Fits(report'.record, report'.subject.station, denials[report'.subject.station])
  BY <1>2 DEF ReportInv
<1> QED BY <1>2, <1>7, <1>8, <1>9, <1>10 DEF ReportInv, ReportLoading

LEMMA ReportArrivesKeeps ==
    ASSUME ReportInv, NEW r \in reads, NEW end \in Endings, ReportArrives(r, end)
    PROVE  ReportInv'
<1>1. reads' = reads \ {r} /\ UNCHANGED <<subject, round>> BY DEF ReportArrives
<1>2. CASE ~CurrentRead(r)
  <2>1. UNCHANGED <<report, denials>> BY <1>2 DEF ReportArrives
  <2>2. ReportLoading' = ReportLoading BY <1>1, <2>1 DEF ReportLoading, CurrentReport
  <2>3. ~r.active BY <1>2 DEF CurrentRead, ReportInv
  <2> QED BY <1>1, <2>1, <2>2, <2>3 DEF ReportInv
<1>3. CASE CurrentRead(r)
  <2>1. /\ IsARead(r) /\ r.active = TRUE /\ subject.station # Void /\ r.fence = round.fence /\ r.subject = subject
        /\ r.reload = round.reload /\ r.told = denials[subject.station]
    BY <1>3 DEF ReportInv, CurrentRead, IsARead
  <2>2. /\ subject.station \in Plotted /\ subject \in Queries /\ denials \in [Plotted -> Nat]
        /\ round.reload \in Nat
    BY <2>1 DEF ReportInv, Queries
  <2>3. PICK st \in Plotted, n \in Nat : st = subject.station /\ n = denials[st] BY <2>2
  <2>4. PICK prior : prior = IF report # Void /\ report.record.query = r.subject THEN report.record ELSE Void
    OBVIOUS
  <2>5. prior = Void \/ Fits(prior, st, n)
    <3>1. CASE report # Void /\ report.record.query = r.subject
      BY <2>1, <2>3, <2>4, <3>1 DEF ReportInv
    <3> QED BY <2>4, <3>1
  <2>6. PICK e : e = Ended(prior, st, subject, n, end) OBVIOUS
  <2>7. /\ Fits(e, st, n) /\ e.query = subject /\ ~e.pending
        /\ end = "refused" => e.data = Void /\ e.good = Void
    BY <2>2, <2>5, <2>6, EndedIs
  <2>8. /\ report' = [subject |-> subject, reload |-> round.reload, record |-> e]
        /\ Hears(st, end)
    BY <1>3, <2>1, <2>3, <2>4, <2>6 DEF ReportArrives
  <2>9. e \in Records BY <2>7 DEF Fits
  <2>10. report' \in Reports BY <2>2, <2>8, <2>9 DEF Reports
  <2>11. e # Void /\ report' # Void BY <2>9, <2>10, VoidIsNoObject
  <2>12. /\ denials' \in [Plotted -> Nat] /\ denials'[st] \in Nat
         /\ end # "refused" => denials'[st] = n
    BY <2>2, <2>3, <2>8 DEF Hears
  <2>13. Fits(e, st, denials'[st])
    <3>1. CASE end = "refused" BY <2>7, <3>1 DEF Fits
    <3>2. CASE end # "refused" BY <2>7, <2>12, <3>2
    <3> QED BY <3>1, <3>2
  <2>14. ASSUME NEW t \in reads' PROVE IsARead(t) /\ ~t.active
    <3>1. t \in reads /\ t # r /\ IsARead(t) BY <1>1 DEF ReportInv
    <3>2. ASSUME t.active PROVE FALSE
      <4>1. /\ t.fence = round.fence /\ t.subject = subject /\ t.active = TRUE
            /\ t.reload = round.reload /\ t.told = denials[subject.station]
        BY <3>1, <3>2 DEF ReportInv, IsARead
      <4>2. t = r BY <2>1, <3>1, <4>1 DEF IsARead
      <4> QED BY <3>1, <4>2
    <3> QED BY <3>1, <3>2
  <2>15. report'.subject = subject /\ report'.record = e /\ report'.reload = round.reload BY <2>8
  <2>16. ~ReportLoading' BY <1>1, <2>11, <2>15 DEF ReportLoading, CurrentReport
  <2> QED BY <1>1, <2>2, <2>3, <2>7, <2>10, <2>12, <2>13, <2>14, <2>15, <2>16 DEF ReportInv
<1> QED BY <1>2, <1>3

LEMMA NextReport == ReportInv /\ (ReportNext \/ UNCHANGED <<reportVars, denials>>) => ReportInv'
<1> SUFFICES ASSUME ReportInv, ReportNext \/ UNCHANGED <<reportVars, denials>> PROVE ReportInv'
  OBVIOUS
<1>t. subject \in [station : Plotted \cup {Void}, query : Metrics] /\ round.reload \in Nat BY DEF ReportInv
<1>1. CASE UNCHANGED <<reportVars, denials>>
  BY <1>1 DEF ReportInv, reportVars, ReportLoading, CurrentReport
<1>2. ASSUME NEW st \in Plotted \cup {Void}, NEW loading \in BOOLEAN, ReportOn(st, loading) PROVE ReportInv'
  <2>1. PICK s : s = [subject EXCEPT !.station = st] OBVIOUS
  <2>2. Subject(s, loading, round.reload) BY <1>2, <2>1 DEF ReportOn
  <2>3. s \in [station : Plotted \cup {Void}, query : Metrics] BY <1>t, <2>1
  <2> QED BY <1>t, <2>2, <2>3, SubjectKeeps
<1>3. ASSUME NEW m \in Metrics, ReportQuery(m) PROVE ReportInv'
  <2>1. PICK s : s = [subject EXCEPT !.query = m] OBVIOUS
  <2>2. Subject(s, round.loading, round.reload) BY <1>3, <2>1 DEF ReportQuery
  <2>3. s \in [station : Plotted \cup {Void}, query : Metrics] BY <1>t, <2>1
  <2> QED BY <1>t, <2>2, <2>3, SubjectKeeps
<1>4. CASE Apply
  <2>1. PICK s, t : s = [subject EXCEPT !.station = Void] /\ t = TRUE OBVIOUS
  <2>2. Subject(s, t, round.reload + 1) BY <1>4, <2>1 DEF Apply
  <2>3. s \in [station : Plotted \cup {Void}, query : Metrics] /\ round.reload + 1 \in Nat BY <1>t, <2>1
  <2> QED BY <2>2, <2>3, SubjectKeeps
<1>5. CASE RetryReport
  <2>1. PICK t : Subject(subject, t, round.reload + 1) BY <1>5 DEF RetryReport
  <2>2. round.reload + 1 \in Nat BY <1>t
  <2> QED BY <1>t, <2>1, <2>2, SubjectKeeps
<1>6. ASSUME NEW r \in reads, NEW end \in Endings, ReportArrives(r, end) PROVE ReportInv'
  BY <1>6, ReportArrivesKeeps
<1> QED BY <1>1, <1>2, <1>3, <1>4, <1>5, <1>6 DEF ReportNext

LEMMA ReportInvTells ==
    ASSUME ReportInv
    PROVE  /\ ReportLoading => \E r \in reads : CurrentRead(r) /\ r.subject = subject /\ r.reload = round.reload
           /\ CurrentReport # Void /\ CurrentReport.data # Void =>
                /\ CurrentReport.data.query = subject
                /\ CurrentReport.data.told = denials[subject.station]
<1>1. ReportLoading => \E r \in reads : CurrentRead(r) /\ r.subject = subject /\ r.reload = round.reload
  BY DEF ReportInv, CurrentRead
<1>2. ASSUME CurrentReport # Void, CurrentReport.data # Void
      PROVE  CurrentReport.data.query = subject /\ CurrentReport.data.told = denials[subject.station]
  BY <1>2 DEF ReportInv, CurrentReport, Fits
<1> QED BY <1>1, <1>2
-----------------------------------------------------------------------------
(* The analysis.                                                           *)
IsAFetch(f) == f = [generation |-> f.generation, key |-> f.key, station |-> f.station, id |-> f.id, told |-> f.told]

RecordsFit(R, n) == \A st \in DOMAIN R : st \in Plotted /\ Fits(R[st], st, n[st])

(* The requests of the present generation are for what the page lists, and *)
(* the one that the fence admits was made after the last refusal.          *)
FetchesAre(F, k, n) ==
    \A f \in F : /\ IsAFetch(f) /\ f.station \in Plotted /\ f.generation \in 0 .. fence.generation
                 /\ f.generation = fence.generation => /\ f.key = k /\ f.station \in k.stations
                                                       /\ f.id \in 0 .. fence.requests[f.station]
                 /\ CurrentFetch(f) => f.told = n[f.station]

HistoryIsOf(h, k) ==
    /\ h # Void /\ h.key = k
    /\ \A st \in DOMAIN h.records : h.records[st].query = k.query

PendingIsFed(h, F) ==
    \A st \in DOMAIN h.records : h.records[st].pending => \E f \in F : CurrentFetch(f) /\ f.station = st

AnalysisInv ==
    /\ denials \in [Plotted -> Nat] /\ listed.stations \in SUBSET Plotted
    /\ query \in [metric : Metrics, window : Nat]
    /\ fence \in [generation : Nat, requests : [Plotted -> Nat]]
    /\ FetchesAre(fetches, Key, denials)
    /\ RecordsFit(RecordsOf(history), denials)
    /\ history # Void => history.key.stations # {}
    /\ listed.stations # {} => HistoryIsOf(history, Key) /\ PendingIsFed(history, fetches)

AnalysisIdle == listed.stations = {} /\ history = Void /\ fetches = {}

LEMMA InitAnalysis == ViewInit => AnalysisInv /\ AnalysisIdle
<1> SUFFICES ASSUME ViewInit PROVE AnalysisInv /\ AnalysisIdle OBVIOUS
<1>1. PICK m \in Metrics : query = [metric |-> m, window |-> 0] BY DEF ViewInit
<1>2. query \in [metric : Metrics, window : Nat] BY <1>1
<1>3. listed.stations = {} /\ history = Void /\ fetches = {} BY DEF ViewInit
<1>4. PICK R : R = [st \in Plotted |-> 0] OBVIOUS
<1>5. fence = [generation |-> 0, requests |-> R] BY <1>4 DEF ViewInit
<1>6. R \in [Plotted -> Nat] BY <1>4
<1>7. fence \in [generation : Nat, requests : [Plotted -> Nat]] BY <1>5, <1>6
<1>8. denials \in [Plotted -> Nat] BY DEF ViewInit
<1>9. RecordsFit(RecordsOf(history), denials) BY <1>3 DEF RecordsFit, RecordsOf
<1> QED BY <1>2, <1>3, <1>7, <1>8, <1>9 DEF AnalysisInv, AnalysisIdle, FetchesAre

LEMMA HistoryIs ==
    ASSUME NEW S \in SUBSET Plotted, NEW R, R = [st \in S |-> R[st]], NEW n, \A st \in S : Fits(R[st], st, n[st]),
           NEW k \in [stations : SUBSET Plotted, query : Queries], NEW h, h = [key |-> k, records |-> R]
    PROVE  h # Void /\ h.key = k /\ h.records = R /\ RecordsOf(h) = R /\ DOMAIN R = S
<1>1. \A st \in S : R[st] \in Records BY DEF Fits
<1>2. R \in [S -> Records] BY <1>1
<1>3. R \in UNION {[T -> Records] : T \in SUBSET Plotted} BY <1>2
<1>4. h.key = k /\ h.records = R OBVIOUS
<1>5. h \in Histories BY <1>3 DEF Histories
<1>6. h # Void BY <1>5, VoidIsNoObject
<1>7. DOMAIN R = S OBVIOUS
<1> QED BY <1>4, <1>6, <1>7 DEF RecordsOf

LEMMA PriorIs ==
    ASSUME NEW R, NEW n, RecordsFit(R, n), NEW k, NEW st, NEW p, p = Prior(Selected(R, k), st)
    PROVE  p = Void \/ Fits(p, st, n[st])
  BY DEF Prior, Selected, RecordsFit

LEMMA KeyIs ==
    ASSUME listed.stations \in SUBSET Plotted, query \in [metric : Metrics, window : Nat]
    PROVE  /\ Key \in [stations : SUBSET Plotted, query : Queries]
           /\ Key.stations = listed.stations /\ Key.query = query /\ query \in Queries
<1>1. query \in Queries BY DEF Queries
<1>2. Key = [stations |-> listed.stations, query |-> query] BY DEF Key, HistoryKey
<1> QED BY <1>1, <1>2

(* The page lists other stations, or asks for something else of them.      *)
LEMMA LoadHistoryKeeps ==
    ASSUME AnalysisInv, NEW S \in SUBSET Plotted, NEW q \in [metric : Metrics, window : Nat],
           LoadAll(S, q), listed'.stations = S, query' = q, denials' = denials
    PROVE  AnalysisInv'
<1>t. /\ fence \in [generation : Nat, requests : [Plotted -> Nat]] /\ denials \in [Plotted -> Nat]
      /\ q \in Queries
  BY DEF AnalysisInv, Queries
<1>1. PICK k : k = HistoryKey(S, q) OBVIOUS
<1>2. k = [stations |-> S, query |-> q] /\ k \in [stations : SUBSET Plotted, query : Queries]
  BY <1>t, <1>1 DEF HistoryKey
<1>3. Key' = k /\ k.stations = S /\ k.query = q BY <1>1, <1>2 DEF Key, HistoryKey
<1>4. PICK g, reqs : g = fence.generation + 1 /\ reqs = [st \in Plotted |-> IF st \in S THEN 1 ELSE 0] OBVIOUS
<1>5. fence' = [generation |-> g, requests |-> reqs] BY <1>4 DEF LoadAll
<1>6. g \in Nat /\ fence.generation \in Nat /\ reqs \in [Plotted -> Nat] BY <1>t, <1>4
<1>7. fence' \in [generation : Nat, requests : [Plotted -> Nat]] /\ fence'.generation = g /\ fence'.requests = reqs
  BY <1>5, <1>6
<1>8. fetches' = fetches \cup {Fetch(g, k, st, 1) : st \in S} BY <1>1, <1>4 DEF LoadAll
<1>9. ASSUME NEW st \in S, NEW f, f = Fetch(g, k, st, 1)
      PROVE  /\ IsAFetch(f) /\ f.station = st /\ f.generation = g /\ f.key = k /\ f.id = 1
             /\ f.told = denials[st]
  BY <1>9 DEF Fetch, IsAFetch
<1>10. FetchesAre(fetches, Key, denials)'
  <2> SUFFICES ASSUME NEW f \in fetches'
               PROVE  /\ IsAFetch(f) /\ f.station \in Plotted /\ f.generation \in 0 .. g
                      /\ f.generation = g => /\ f.key = k /\ f.station \in S /\ f.id \in 0 .. reqs[f.station]
                                             /\ f.told = denials[f.station]
    BY <1>3, <1>7 DEF FetchesAre, CurrentFetch
  <2>1. CASE f \in fetches
    <3>1. IsAFetch(f) /\ f.station \in Plotted /\ f.generation \in 0 .. fence.generation
      BY <2>1 DEF AnalysisInv, FetchesAre
    <3> QED BY <1>4, <1>6, <3>1
  <2>2. CASE f \in {Fetch(g, k, st, 1) : st \in S}
    <3>1. PICK st \in S : f = Fetch(g, k, st, 1) BY <2>2
    <3>2. /\ IsAFetch(f) /\ f.station = st /\ f.generation = g /\ f.key = k /\ f.told = denials[st]
          /\ f.id = 1
      BY <1>9, <3>1
    <3>3. f.id \in 0 .. reqs[f.station] BY <1>4, <3>2
    <3> QED BY <1>6, <3>2, <3>3
  <2> QED BY <1>8, <2>1, <2>2
<1>11. CASE S = {}
  <2>1. history' = history \/ history' = Void BY <1>11 DEF LoadAll
  <2>2. RecordsFit(RecordsOf(history'), denials) /\ (history' # Void => history'.key.stations # {})
    <3>1. CASE history' = history BY <3>1 DEF AnalysisInv
    <3>2. CASE history' = Void BY <3>2 DEF RecordsFit, RecordsOf
    <3> QED BY <2>1, <3>1, <3>2
  <2>3. RecordsOf(history)' = RecordsOf(history') BY DEF RecordsOf
  <2> QED BY <1>t, <1>7, <1>10, <1>11, <2>2, <2>3 DEF AnalysisInv
<1>12. CASE S # {}
  <2>1. PICK old : old = Selected(RecordsOf(history), k) OBVIOUS
  <2>2. PICK R : R = [st \in S |-> Pending(Prior(old, st), st, q)] OBVIOUS
  <2>3. history' = [key |-> k, records |-> R] BY <1>1, <1>12, <2>1, <2>2 DEF LoadAll
  <2>4. ASSUME NEW st \in S PROVE Fits(R[st], st, denials[st]) /\ R[st].query = q
    <3>1. PICK p : p = Prior(old, st) OBVIOUS
    <3>2. p = Void \/ Fits(p, st, denials[st]) BY <2>1, <3>1, PriorIs DEF AnalysisInv
    <3>3. PICK r : r = Pending(p, st, q) OBVIOUS
    <3>4. PICK n : n = denials[st] OBVIOUS
    <3>5. Fits(r, st, n) /\ r.query = q BY <1>t, <3>2, <3>3, <3>4, PendingIs
    <3> QED BY <2>2, <3>1, <3>3, <3>4, <3>5
  <2>5. R = [st \in S |-> R[st]] BY <2>2
  <2>6. PICK h : h = [key |-> k, records |-> R] OBVIOUS
  <2>7. h # Void /\ h.key = k /\ h.records = R /\ RecordsOf(h) = R /\ DOMAIN R = S
    BY <1>2, <2>4, <2>5, <2>6, HistoryIs
  <2>8. RecordsFit(R, denials) BY <2>4, <2>7 DEF RecordsFit
  <2>9. HistoryIsOf(h, k) BY <1>3, <2>4, <2>7 DEF HistoryIsOf
  <2>10. PendingIsFed(history, fetches)'
    <3> SUFFICES ASSUME NEW st \in S PROVE \E f \in fetches' : CurrentFetch(f)' /\ f.station = st
      BY <2>3, <2>6, <2>7 DEF PendingIsFed
    <3>1. PICK f : f = Fetch(g, k, st, 1) OBVIOUS
    <3>2. f \in fetches' BY <1>8, <3>1
    <3>3. f.station = st /\ f.generation = g /\ f.id = 1 BY <1>9, <3>1
    <3>4. reqs[st] = 1 BY <1>4
    <3>5. CurrentFetch(f)' BY <1>7, <3>3, <3>4 DEF CurrentFetch
    <3> QED BY <3>2, <3>3, <3>5
  <2>11. history' = h /\ RecordsOf(history)' = R BY <2>3, <2>6, <2>7 DEF RecordsOf
  <2> QED BY <1>t, <1>3, <1>7, <1>10, <1>12, <2>7, <2>8, <2>9, <2>10, <2>11 DEF AnalysisInv
<1> QED BY <1>11, <1>12
LEMMA PutIs ==
    ASSUME NEW R, NEW n, RecordsFit(R, n), NEW k, NEW st \in Plotted, NEW r, NEW m, Fits(r, st, m[st]),
           r.query = k.query, \A t \in Plotted : t # st => m[t] = n[t],
           NEW W, W = Put(Selected(R, k), st, r)
    PROVE  /\ DOMAIN W \in SUBSET Plotted /\ W = [t \in DOMAIN W |-> W[t]]
           /\ \A t \in DOMAIN W : Fits(W[t], t, m[t]) /\ W[t].query = k.query
           /\ st \in DOMAIN W /\ W[st] = r
           /\ \A t \in DOMAIN W : t # st => t \in DOMAIN R /\ W[t] = R[t]
<1>1. PICK Q : Q = Selected(R, k) OBVIOUS
<1>2. \A t \in DOMAIN Q : t \in DOMAIN R /\ Q[t] = R[t] /\ R[t].query = k.query BY <1>1 DEF Selected
<1>3. PICK D : D = DOMAIN Q \cup {st} OBVIOUS
<1>4. W = [t \in D |-> IF t = st THEN r ELSE Q[t]] BY <1>1, <1>3 DEF Put
<1>5. DOMAIN W = D /\ W[st] = r /\ \A t \in D : t # st => W[t] = Q[t] BY <1>3, <1>4
<1>6. W = [t \in DOMAIN W |-> W[t]] BY <1>4
<1>7. ASSUME NEW t \in D PROVE t \in Plotted /\ Fits(W[t], t, m[t]) /\ W[t].query = k.query
  <2>1. CASE t = st BY <1>5, <2>1
  <2>2. CASE t # st
    <3>1. t \in DOMAIN R /\ W[t] = R[t] /\ R[t].query = k.query BY <1>2, <1>3, <1>5, <2>2
    <3>2. t \in Plotted /\ Fits(R[t], t, n[t]) BY <3>1 DEF RecordsFit
    <3>3. m[t] = n[t] BY <2>2, <3>2
    <3> QED BY <3>1, <3>2, <3>3
  <2> QED BY <2>1, <2>2
<1> QED BY <1>2, <1>3, <1>5, <1>6, <1>7

(* A record of one listed station is replaced.                             *)
LEMMA UpdateKeeps ==
    ASSUME AnalysisInv, NEW st \in listed.stations, NEW r, Fits(r, st, denials'[st]), r.query = query,
           denials' \in [Plotted -> Nat], \A t \in Plotted : t # st => denials'[t] = denials[t],
           history' = Update(history, Key, st, r), UNCHANGED <<listed, query>>,
           fence' \in [generation : Nat, requests : [Plotted -> Nat]],
           FetchesAre(fetches, Key, denials)',
           \A t \in Plotted : t # st => \A f \in fetches : CurrentFetch(f) /\ f.station = t =>
                                                           f \in fetches' /\ CurrentFetch(f)',
           r.pending => \E f \in fetches' : CurrentFetch(f)' /\ f.station = st
    PROVE  AnalysisInv'
<1>t. /\ listed.stations \in SUBSET Plotted /\ query \in [metric : Metrics, window : Nat] /\ listed.stations # {}
      /\ HistoryIsOf(history, Key) /\ PendingIsFed(history, fetches) /\ RecordsFit(RecordsOf(history), denials)
  BY DEF AnalysisInv
<1>1. /\ Key \in [stations : SUBSET Plotted, query : Queries] /\ Key.stations = listed.stations /\ Key.query = query
      /\ Key' = Key
  BY <1>t, KeyIs DEF Key
<1>2. RecordsOf(history) = history.records BY <1>t DEF RecordsOf, HistoryIsOf
<1>3. PICK W : W = Put(Selected(RecordsOf(history), Key), st, r) OBVIOUS
<1>4. /\ DOMAIN W \in SUBSET Plotted /\ W = [t \in DOMAIN W |-> W[t]]
      /\ \A t \in DOMAIN W : Fits(W[t], t, denials'[t]) /\ W[t].query = Key.query
      /\ st \in DOMAIN W /\ W[st] = r
      /\ \A t \in DOMAIN W : t # st => t \in DOMAIN history.records /\ W[t] = history.records[t]
  <2>1. PICK m, n, R, k : m = denials' /\ n = denials /\ R = RecordsOf(history) /\ k = Key OBVIOUS
  <2>2. /\ RecordsFit(R, n) /\ Fits(r, st, m[st]) /\ r.query = k.query /\ W = Put(Selected(R, k), st, r)
        /\ \A t \in Plotted : t # st => m[t] = n[t]
    BY <1>t, <1>1, <1>3, <2>1
  <2>3. /\ DOMAIN W \in SUBSET Plotted /\ W = [t \in DOMAIN W |-> W[t]]
        /\ \A t \in DOMAIN W : Fits(W[t], t, m[t]) /\ W[t].query = k.query
        /\ st \in DOMAIN W /\ W[st] = r
        /\ \A t \in DOMAIN W : t # st => t \in DOMAIN R /\ W[t] = R[t]
    <3>1. st \in Plotted BY <1>t
    <3> QED BY <2>2, <3>1, PutIs
  <2> QED BY <1>2, <2>1, <2>3
<1>5. PICK h : h = [key |-> Key, records |-> W] OBVIOUS
<1>6. history' = h BY <1>3, <1>5 DEF Update
<1>7. h # Void /\ h.key = Key /\ h.records = W /\ RecordsOf(h) = W
  <2>1. PICK m, k, S : m = denials' /\ k = Key /\ S = DOMAIN W OBVIOUS
  <2>2. /\ S \in SUBSET Plotted /\ W = [t \in S |-> W[t]] /\ h = [key |-> k, records |-> W]
        /\ \A t \in S : Fits(W[t], t, m[t])
        /\ k \in [stations : SUBSET Plotted, query : Queries]
    BY <1>1, <1>4, <1>5, <2>1
  <2>3. h # Void /\ h.key = k /\ h.records = W /\ RecordsOf(h) = W BY <2>2, HistoryIs
  <2> QED BY <2>1, <2>3
<1>8. RecordsOf(history)' = W BY <1>6, <1>7 DEF RecordsOf
<1>9. RecordsFit(W, denials') BY <1>4 DEF RecordsFit
<1>10. HistoryIsOf(h, Key) BY <1>4, <1>7 DEF HistoryIsOf
<1>11. PendingIsFed(history, fetches)'
  <2> SUFFICES ASSUME NEW t \in DOMAIN W, W[t].pending
               PROVE  \E f \in fetches' : CurrentFetch(f)' /\ f.station = t
    BY <1>6, <1>7 DEF PendingIsFed
  <2>1. CASE t = st BY <1>4, <2>1
  <2>2. CASE t # st
    <3>1. t \in Plotted /\ t \in DOMAIN history.records /\ history.records[t].pending BY <1>4, <2>2
    <3>2. PICK f \in fetches : CurrentFetch(f) /\ f.station = t BY <1>t, <3>1 DEF PendingIsFed
    <3> QED BY <2>2, <3>1, <3>2
  <2> QED BY <2>1, <2>2
<1>12. history'.key.stations # {} BY <1>t, <1>1, <1>6, <1>7
<1>13. HistoryIsOf(history, Key)' BY <1>1, <1>6, <1>10 DEF HistoryIsOf
<1>14. RecordsFit(RecordsOf(history), denials)' BY <1>8, <1>9 DEF RecordsFit
<1> QED BY <1>t, <1>11, <1>12, <1>13, <1>14 DEF AnalysisInv

LEMMA RetryKeeps ==
    ASSUME AnalysisInv, NEW st \in Plotted, RetryStation(st)
    PROVE  AnalysisInv'
<1>t. /\ listed.stations \in SUBSET Plotted /\ query \in [metric : Metrics, window : Nat]
      /\ fence \in [generation : Nat, requests : [Plotted -> Nat]] /\ denials \in [Plotted -> Nat]
      /\ st \in listed.stations /\ FetchesAre(fetches, Key, denials)
      /\ RecordsFit(RecordsOf(history), denials) /\ history # Void
  BY DEF AnalysisInv, RetryStation, CurrentHistory
<1>1. Key.stations = listed.stations /\ Key.query = query /\ Key' = Key /\ query \in Queries
  BY <1>t, KeyIs DEF RetryStation, Key
<1>2. PICK n : n = fence.requests[st] + 1 OBVIOUS
<1>3. PICK reqs : reqs = [fence.requests EXCEPT ![st] = n] OBVIOUS
<1>4. fence' = [generation |-> fence.generation, requests |-> reqs] BY <1>t, <1>2, <1>3 DEF RetryStation
<1>5. n \in Nat /\ n # fence.requests[st] /\ reqs \in [Plotted -> Nat] /\ reqs[st] = n
      /\ \A t \in Plotted : t # st => reqs[t] = fence.requests[t]
  BY <1>t, <1>2, <1>3
<1>6. /\ fence' \in [generation : Nat, requests : [Plotted -> Nat]]
      /\ fence'.generation = fence.generation /\ fence'.requests = reqs
  BY <1>t, <1>4, <1>5
<1>7. PICK new : new = Fetch(fence.generation, Key, st, n) OBVIOUS
<1>8. /\ fetches' = fetches \cup {new} /\ UNCHANGED <<listed, query, denials>>
  BY <1>2, <1>7 DEF RetryStation
<1>9. /\ IsAFetch(new) /\ new.generation = fence.generation /\ new.key = Key /\ new.station = st /\ new.id = n
      /\ new.told = denials[st]
  BY <1>7 DEF Fetch, IsAFetch
<1>10. FetchesAre(fetches, Key, denials)'
  <2> SUFFICES ASSUME NEW f \in fetches'
               PROVE  /\ IsAFetch(f) /\ f.station \in Plotted /\ f.generation \in 0 .. fence.generation
                      /\ f.generation = fence.generation => /\ f.key = Key /\ f.station \in Key.stations
                                                            /\ f.id \in 0 .. reqs[f.station]
                      /\ CurrentFetch(f)' => f.told = denials[f.station]
    BY <1>1, <1>6, <1>8 DEF FetchesAre
  <2>1. CASE f = new
    <3>1. fence.generation \in 0 .. fence.generation /\ n \in 0 .. reqs[st] BY <1>t, <1>5
    <3> QED BY <1>t, <1>1, <1>9, <2>1, <3>1
  <2>2. CASE f \in fetches /\ f.station # st
    <3>1. f.station \in Plotted /\ reqs[f.station] = fence.requests[f.station]
      BY <1>t, <1>5, <2>2 DEF FetchesAre
    <3>2. CurrentFetch(f)' => CurrentFetch(f) BY <1>6, <3>1 DEF CurrentFetch
    <3> QED BY <1>t, <2>2, <3>1, <3>2 DEF FetchesAre
  <2>3. CASE f \in fetches /\ f.station = st /\ f # new
    <3>1. ASSUME f.generation = fence.generation PROVE f.id # n /\ f.id \in 0 .. reqs[st]
      <4>1. f.id \in 0 .. fence.requests[st] /\ fence.requests[st] \in Nat BY <1>t, <2>3, <3>1 DEF FetchesAre
      <4> QED BY <1>2, <1>5, <4>1
    <3>2. ~CurrentFetch(f)' BY <1>5, <1>6, <2>3, <3>1 DEF CurrentFetch
    <3> QED BY <1>t, <2>3, <3>1, <3>2 DEF FetchesAre
  <2> QED BY <1>8, <2>1, <2>2, <2>3
<1>11. PICK R, p, m, r : /\ m = denials[st] /\ R = RecordsOf(history) /\ p = Prior(Selected(R, Key), st)
                         /\ r = Pending(p, st, query)
  OBVIOUS
<1>12. Fits(r, st, m) /\ r.query = query
  <2>1. p = Void \/ Fits(p, st, m)
    <3>1. PICK n1, k1 : n1 = denials /\ k1 = Key OBVIOUS
    <3>2. p = Void \/ Fits(p, st, n1[st]) BY <1>t, <1>11, <3>1, PriorIs
    <3> QED BY <1>11, <3>1, <3>2
  <2> QED BY <1>1, <1>11, <2>1, PendingIs
<1>13. history' = Update(history, Key, st, r) BY <1>t, <1>11 DEF RetryStation, RecordsOf
<1>14. ASSUME NEW t \in Plotted, t # st, NEW f \in fetches, CurrentFetch(f), f.station = t
       PROVE  f \in fetches' /\ CurrentFetch(f)'
  BY <1>5, <1>6, <1>8, <1>14 DEF CurrentFetch
<1>15. new \in fetches' /\ CurrentFetch(new)' /\ new.station = st BY <1>5, <1>6, <1>8, <1>9 DEF CurrentFetch
<1>16. Fits(r, st, denials'[st]) BY <1>8, <1>11, <1>12
<1> QED BY <1>t, <1>6, <1>8, <1>10, <1>12, <1>13, <1>14, <1>15, <1>16, UpdateKeeps

LEMMA HistoryArrivesKeeps ==
    ASSUME AnalysisInv, NEW f \in fetches, NEW end \in Endings, HistoryArrives(f, end)
    PROVE  AnalysisInv'
<1>t. /\ listed.stations \in SUBSET Plotted /\ query \in [metric : Metrics, window : Nat]
      /\ fence \in [generation : Nat, requests : [Plotted -> Nat]] /\ denials \in [Plotted -> Nat]
      /\ FetchesAre(fetches, Key, denials) /\ RecordsFit(RecordsOf(history), denials)
      /\ UNCHANGED <<listed, query, fence>> /\ fetches' = fetches \ {f}
  BY DEF AnalysisInv, HistoryArrives
<1>1. Key.stations = listed.stations /\ Key.query = query /\ Key' = Key /\ query \in Queries
  BY <1>t, KeyIs DEF Key
<1>2. CASE ~CurrentFetch(f)
  <2>1. UNCHANGED <<history, denials>> BY <1>2 DEF HistoryArrives
  <2>2. FetchesAre(fetches, Key, denials)' BY <1>t, <1>1, <2>1 DEF FetchesAre, CurrentFetch
  <2>3. PendingIsFed(history, fetches) => PendingIsFed(history, fetches)'
    BY <1>t, <1>2, <2>1 DEF PendingIsFed, CurrentFetch
  <2>4. /\ HistoryIsOf(history, Key)' = HistoryIsOf(history, Key)
        /\ RecordsFit(RecordsOf(history), denials)'
    BY <1>t, <1>1, <2>1 DEF HistoryIsOf, RecordsFit, RecordsOf
  <2> QED BY <1>t, <2>1, <2>2, <2>3, <2>4 DEF AnalysisInv
<1>3. CASE CurrentFetch(f)
  <2>1. /\ IsAFetch(f) /\ f.generation = fence.generation /\ f.id = fence.requests[f.station]
        /\ f.key = Key /\ f.station \in listed.stations /\ f.told = denials[f.station]
    BY <1>t, <1>1, <1>3 DEF FetchesAre, CurrentFetch
  <2>2. PICK st \in Plotted, n \in Nat : st = f.station /\ n = denials[st] BY <1>t, <2>1
  <2>3. PICK R, p, r : /\ R = RecordsOf(history) /\ p = Prior(Selected(R, Key), st)
                       /\ r = Ended(p, st, query, n, end)
    OBVIOUS
  <2>4. p = Void \/ Fits(p, st, n)
    <3>1. PICK n1, k1 : n1 = denials /\ k1 = Key OBVIOUS
    <3>2. p = Void \/ Fits(p, st, n1[st]) BY <1>t, <2>3, <3>1, PriorIs
    <3> QED BY <2>2, <3>1, <3>2
  <2>5. /\ Fits(r, st, n) /\ r.query = query /\ ~r.pending
        /\ end = "refused" => r.data = Void /\ r.good = Void
    BY <1>1, <2>3, <2>4, EndedIs
  <2>6. /\ history' = Update(history, Key, st, r) /\ Hears(st, end)
    BY <1>1, <1>3, <2>1, <2>2, <2>3 DEF HistoryArrives
  <2>7. /\ denials' \in [Plotted -> Nat] /\ \A t \in Plotted : t # st => denials'[t] = denials[t]
        /\ end # "refused" => denials'[st] = n
    BY <1>t, <2>2, <2>6 DEF Hears
  <2>8. Fits(r, st, denials'[st])
    <3>1. CASE end = "refused" BY <2>5, <3>1 DEF Fits
    <3>2. CASE end # "refused" BY <2>5, <2>7, <3>2
    <3> QED BY <3>1, <3>2
  <2>9. ASSUME NEW g \in fetches', CurrentFetch(g) PROVE g.station # st
    <3> SUFFICES ASSUME g.station = st PROVE FALSE OBVIOUS
    <3>1. /\ g \in fetches /\ g # f /\ IsAFetch(g) /\ g.generation = fence.generation
          /\ g.id = fence.requests[st] /\ g.key = Key /\ g.told = denials[st]
      BY <1>t, <2>9 DEF FetchesAre, CurrentFetch
    <3>2. g = f BY <2>1, <2>2, <3>1 DEF IsAFetch
    <3> QED BY <3>1, <3>2
  <2>10. FetchesAre(fetches, Key, denials)'
    <3> SUFFICES ASSUME NEW g \in fetches'
                 PROVE  /\ IsAFetch(g) /\ g.station \in Plotted /\ g.generation \in 0 .. fence.generation
                        /\ g.generation = fence.generation => /\ g.key = Key /\ g.station \in Key.stations
                                                              /\ g.id \in 0 .. fence.requests[g.station]
                        /\ CurrentFetch(g) => g.told = denials'[g.station]
      BY <1>t, <1>1 DEF FetchesAre, CurrentFetch
    <3>1. g \in fetches BY <1>t
    <3>2. g.station \in Plotted /\ (CurrentFetch(g) => g.told = denials[g.station] /\ g.station # st)
      BY <1>t, <2>9, <3>1 DEF FetchesAre
    <3> QED BY <1>t, <2>7, <3>1, <3>2 DEF FetchesAre
  <2>11. ASSUME NEW t \in Plotted, t # st, NEW g \in fetches, CurrentFetch(g), g.station = t
         PROVE  g \in fetches' /\ CurrentFetch(g)'
    BY <1>t, <2>2, <2>11 DEF CurrentFetch
  <2>12. st \in listed.stations /\ fence' \in [generation : Nat, requests : [Plotted -> Nat]]
    BY <1>t, <2>1, <2>2
  <2>13. r.query = query /\ ~r.pending BY <2>5
  <2>14. history' = Update(history, Key, st, r) BY <2>6
  <2>15. \A t \in Plotted : t # st => \A g \in fetches : CurrentFetch(g) /\ g.station = t =>
                                                         g \in fetches' /\ CurrentFetch(g)'
    BY <2>11
  <2>16. UNCHANGED <<listed, query>> BY <1>t
  <2> QED BY <2>7, <2>8, <2>10, <2>12, <2>13, <2>14, <2>15, <2>16, UpdateKeeps
<1> QED BY <1>2, <1>3

LEMMA NextAnalysis == AnalysisInv /\ (AnalysisNext \/ UNCHANGED <<analysisVars, denials>>) => AnalysisInv'
<1> SUFFICES ASSUME AnalysisInv, AnalysisNext \/ UNCHANGED <<analysisVars, denials>> PROVE AnalysisInv'
  OBVIOUS
<1>t. /\ listed.stations \in SUBSET Plotted /\ query \in [metric : Metrics, window : Nat]
  BY DEF AnalysisInv
<1>1. CASE UNCHANGED <<analysisVars, denials>>
  BY <1>1 DEF analysisVars, AnalysisInv, Key, FetchesAre, CurrentFetch, HistoryIsOf, PendingIsFed, RecordsFit, RecordsOf
<1>2. ASSUME NEW S \in SUBSET Plotted, NEW loading \in BOOLEAN, Lists(S, loading) PROVE AnalysisInv'
  <2>1. LoadAll(S, query) /\ listed' = [stations |-> S, loading |-> loading] /\ query' = query /\ denials' = denials
    BY <1>2 DEF Lists
  <2>2. listed'.stations = S BY <2>1
  <2> QED BY <1>t, <2>1, <2>2, LoadHistoryKeeps
<1>3. ASSUME NEW m \in Metrics, SelectMetric(m) PROVE AnalysisInv'
  <2>1. PICK q : q = [query EXCEPT !.metric = m] OBVIOUS
  <2>2. q \in [metric : Metrics, window : Nat] BY <1>t, <2>1
  <2>3. LoadAll(listed.stations, q) /\ listed' = listed /\ query' = q /\ denials' = denials
    BY <1>3, <2>1 DEF SelectMetric
  <2> QED BY <1>t, <2>2, <2>3, LoadHistoryKeeps
<1>4. CASE HandleDaysChange
  <2>1. PICK q : q = [query EXCEPT !.window = @ + 1] OBVIOUS
  <2>2. q \in [metric : Metrics, window : Nat] BY <1>t, <2>1
  <2>3. LoadAll(listed.stations, q) /\ listed' = listed /\ query' = q /\ denials' = denials
    BY <1>4, <2>1 DEF HandleDaysChange
  <2> QED BY <1>t, <2>2, <2>3, LoadHistoryKeeps
<1>5. ASSUME NEW st \in Plotted, RetryStation(st) PROVE AnalysisInv'
  BY <1>5, RetryKeeps
<1>6. ASSUME NEW f \in fetches, NEW end \in Endings, HistoryArrives(f, end) PROVE AnalysisInv'
  BY <1>6, HistoryArrivesKeeps
<1> QED BY <1>1, <1>2, <1>3, <1>4, <1>5, <1>6 DEF AnalysisNext

(* What the page shows is the state it keeps, while it lists stations.     *)
LEMMA AnalysisInvTells ==
    ASSUME AnalysisInv
    PROVE  /\ HistoryLoading => \E f \in fetches : CurrentFetch(f) /\ f.key = Key
           /\ \A st \in DOMAIN ShownRecords : ShownRecords[st].pending =>
                \E f \in fetches : CurrentFetch(f) /\ f.key = Key /\ f.station = st
           /\ \A a \in Series : a.query = query /\ a.told = denials[a.station]
           /\ \A a \in Exported.rows : \E h \in Exported.header :
                h.station = a.station /\ h.query = a.query /\ h.origin # "unavailable"
<1>t. /\ listed.stations \in SUBSET Plotted /\ query \in [metric : Metrics, window : Nat]
      /\ FetchesAre(fetches, Key, denials) /\ RecordsFit(RecordsOf(history), denials)
  BY DEF AnalysisInv
<1>k. Key.stations = listed.stations /\ Key.query = query BY <1>t, KeyIs
<1>1. CASE listed.stations = {}
  <2>1. CurrentHistory = Void
    <3>1. history # Void => history.key # Key BY <1>k, <1>1 DEF AnalysisInv
    <3> QED BY <3>1 DEF CurrentHistory
  <2>2. DOMAIN ShownRecords = {} BY <2>1 DEF ShownRecords
  <2>3. ~HistoryLoading BY <1>1 DEF HistoryLoading
  <2>4. Series = {} BY <2>2 DEF Series
  <2>5. Exported.rows = {} BY <2>4 DEF Exported
  <2> QED BY <2>2, <2>3, <2>4, <2>5
<1>2. CASE listed.stations # {}
  <2>1. HistoryIsOf(history, Key) /\ PendingIsFed(history, fetches) BY <1>2 DEF AnalysisInv
  <2>2. history # Void /\ CurrentHistory = history /\ ShownRecords = history.records
    BY <2>1 DEF HistoryIsOf, CurrentHistory, ShownRecords
  <2>3. RecordsOf(history) = history.records BY <2>2 DEF RecordsOf
  <2>4. \A f \in fetches : CurrentFetch(f) => f.key = Key BY <1>t DEF FetchesAre, CurrentFetch
  <2>5. \A st \in DOMAIN ShownRecords : ShownRecords[st].pending =>
          \E f \in fetches : CurrentFetch(f) /\ f.key = Key /\ f.station = st
    BY <2>1, <2>2, <2>4 DEF PendingIsFed
  <2>6. HistoryLoading => \E f \in fetches : CurrentFetch(f) /\ f.key = Key
    BY <2>2, <2>5 DEF HistoryLoading
  <2>7. ASSUME NEW st \in DOMAIN ShownRecords, ShownRecords[st].data # Void
        PROVE  /\ ShownRecords[st] # Void /\ ShownRecords[st].query = query
               /\ ShownRecords[st].data.station = st /\ ShownRecords[st].data.query = query
               /\ ShownRecords[st].data.told = denials[st]
    <3>1. Fits(ShownRecords[st], st, denials[st]) /\ ShownRecords[st].query = query
      BY <1>k, <1>t, <2>1, <2>2, <2>3 DEF RecordsFit, HistoryIsOf
    <3>2. ShownRecords[st] # Void BY <3>1, VoidIsNoObject DEF Fits
    <3> QED BY <2>7, <3>1, <3>2 DEF Fits
  <2>8. ASSUME NEW a \in Series
        PROVE  /\ a.query = query /\ a.told = denials[a.station]
               /\ \E h \in Exported.header :
                    h.station = a.station /\ h.query = a.query /\ h.origin # "unavailable"
    <3>1. PICK st \in DOMAIN ShownRecords : /\ st \in listed.stations /\ ShownRecords[st].data # Void
                                            /\ a = ShownRecords[st].data
      BY DEF Series
    <3>2. /\ ShownRecords[st] # Void /\ ShownRecords[st].query = query
          /\ a.station = st /\ a.query = query /\ a.told = denials[st]
      BY <2>7, <3>1
    <3>3. PICK r : r = Prior(ShownRecords, st) OBVIOUS
    <3>4. r = ShownRecords[st] BY <3>1, <3>3 DEF Prior
    <3>5. PICK o : o = Origin(r) OBVIOUS
    <3>6. o # "unavailable" BY <3>1, <3>4, <3>5 DEF Origin
    <3>7. PICK h : h = [station |-> st, query |-> r.query, origin |-> o] OBVIOUS
    <3>8. h \in Exported.header
      <4>1. h = [station |-> st, query |-> IF r = Void THEN Void ELSE r.query,
                 origin |-> IF r = Void THEN "unavailable" ELSE Origin(r)]
        BY <3>2, <3>4, <3>5, <3>7
      <4> QED BY <3>1, <3>3, <4>1 DEF Exported
    <3>9. h.station = a.station /\ h.query = a.query /\ h.origin # "unavailable" BY <3>2, <3>4, <3>6, <3>7
    <3> QED BY <3>2, <3>8, <3>9
  <2>9. Exported.rows = Series BY DEF Exported
  <2> QED BY <2>5, <2>6, <2>8, <2>9
<1> QED BY <1>1, <1>2

LEMMA ViewInvTells == AnalysisInv /\ ReportInv => HistoryWaits /\ ChartIsOfTheQuery
  BY AnalysisInvTells, ReportInvTells DEF HistoryWaits, ChartIsOfTheQuery

(* The two pages share what they were refused: the one that is not open    *)
(* rests.                                                                  *)
LEMMA AnalysisStepStays == AnalysisNext => UNCHANGED reportVars
  BY DEF AnalysisNext, Lists, SelectMetric, HandleDaysChange, RetryStation, HistoryArrives

LEMMA ReportStepStays == ReportNext => UNCHANGED analysisVars
  BY DEF ReportNext, ReportOn, ReportQuery, Apply, RetryReport, ReportArrives, Subject

LEMMA ReportRests ==
    ReportInv /\ ReportIdle /\ UNCHANGED reportVars /\ denials' \in [Plotted -> Nat] => ReportInv' /\ ReportIdle'
  BY DEF ReportInv, ReportIdle, reportVars, ReportLoading

LEMMA AnalysisRests ==
    AnalysisInv /\ AnalysisIdle /\ UNCHANGED analysisVars /\ denials' \in [Plotted -> Nat]
      => AnalysisInv' /\ AnalysisIdle'
<1> SUFFICES ASSUME AnalysisInv, AnalysisIdle, UNCHANGED analysisVars, denials' \in [Plotted -> Nat]
             PROVE  AnalysisInv' /\ AnalysisIdle'
  OBVIOUS
<1>1. UNCHANGED <<listed, query, history, fence, fetches>> BY DEF analysisVars
<1>2. FetchesAre(fetches, Key, denials)' BY <1>1 DEF AnalysisIdle, FetchesAre
<1>3. RecordsFit(RecordsOf(history), denials)' BY <1>1 DEF AnalysisIdle, RecordsFit, RecordsOf
<1> QED BY <1>1, <1>2, <1>3 DEF AnalysisInv, AnalysisIdle

-----------------------------------------------------------------------------
(* The pages of one station.  What a state of the page shows is of its     *)
(* station, and was asked for after n refusals of it.                      *)
ShowsAfter(d, n) ==
    /\ \A r \in {d.latest, d.fallback} : r # Null => r.station = d.station /\ r.told = n
    /\ d.sibling # Null => d.sibling = n
    /\ d.denied => /\ d.latest = Null /\ d.fallback = Null /\ d.sibling = Null
                   /\ ~d.latestPending /\ ~d.siblingPending

IsAState(d) ==
    d = [station |-> d.station, visit |-> d.visit, latest |-> d.latest, fallback |-> d.fallback,
         retained |-> d.retained, latestPending |-> d.latestPending, latestError |-> d.latestError,
         sibling |-> d.sibling, siblingPending |-> d.siblingPending, siblingError |-> d.siblingError,
         denied |-> d.denied]

ReadingOrNull == Readings \cup {Null}

CountOrNull == Nat \cup {Null}

StateFields(d) ==
    /\ d.station \in Spots /\ d.visit \in Nat
    /\ d.latest \in ReadingOrNull /\ d.fallback \in ReadingOrNull
    /\ d.retained \in BOOLEAN /\ d.latestPending \in BOOLEAN /\ d.latestError \in BOOLEAN
    /\ d.sibling \in CountOrNull /\ d.siblingPending \in BOOLEAN /\ d.siblingError \in BOOLEAN
    /\ d.denied \in BOOLEAN

LEMMA StateIs ==
    ASSUME NEW d
    PROVE  d \in StationStates <=> IsAState(d) /\ StateFields(d)
<1>1. ASSUME d \in StationStates PROVE IsAState(d) BY <1>1 DEF StationStates, IsAState
<1>2. ASSUME d \in StationStates PROVE StateFields(d) BY <1>2 DEF StationStates, StateFields, ReadingOrNull, CountOrNull
<1>3. ASSUME IsAState(d), StateFields(d) PROVE d \in StationStates
  BY <1>3 DEF StationStates, IsAState, StateFields, ReadingOrNull, CountOrNull
<1> QED BY <1>1, <1>2, <1>3

LEMMA InitialDataIs ==
    ASSUME NEW n \in [Spots -> Nat], NEW st \in Spots, NEW v \in Nat,
           NEW prev, prev = Null \/ (prev \in StationStates /\ ShowsAfter(prev, n[prev.station])),
           NEW d, d = InitialData(st, v, prev)
    PROVE  /\ d \in StationStates /\ d # Null /\ d.station = st /\ d.visit = v /\ ~d.denied
           /\ ShowsAfter(d, n[st])
<1>1. PICK kept : kept = IF ~(prev # Null /\ prev.station = st) THEN Null
                         ELSE IF prev.latest # Null /\ prev.latest.full THEN prev.latest ELSE prev.fallback
  OBVIOUS
<1>2. PICK r \in BOOLEAN : r = (kept # Null) OBVIOUS
<1>3. d = [station |-> st, visit |-> v, latest |-> kept, fallback |-> kept, retained |-> r,
           latestPending |-> TRUE, latestError |-> FALSE,
           sibling |-> Null, siblingPending |-> TRUE, siblingError |-> FALSE, denied |-> FALSE]
  BY <1>1, <1>2 DEF InitialData
<1>4. kept \in ReadingOrNull /\ (kept # Null => kept.station = st /\ kept.told = n[st])
  <2>1. CASE prev # Null /\ prev.station = st BY <1>1, <2>1, StateIs DEF StateFields, ShowsAfter, ReadingOrNull
  <2>2. CASE ~(prev # Null /\ prev.station = st) BY <1>1, <2>2 DEF ReadingOrNull
  <2> QED BY <2>1, <2>2
<1>5. /\ d.station = st /\ d.visit = v /\ d.latest = kept /\ d.fallback = kept /\ d.retained = r
      /\ d.latestPending = TRUE /\ d.latestError = FALSE /\ d.sibling = Null
      /\ d.siblingPending = TRUE /\ d.siblingError = FALSE /\ d.denied = FALSE
  BY <1>3
<1>6. IsAState(d) BY <1>3, <1>5 DEF IsAState
<1>7. StateFields(d) BY <1>4, <1>5 DEF StateFields, CountOrNull
<1>8. d \in StationStates BY <1>6, <1>7, StateIs
<1>9. d # Null BY <1>8, NullIsNoObject
<1> QED BY <1>4, <1>5, <1>8, <1>9 DEF ShowsAfter

LEMMA PurgeIs ==
    ASSUME NEW d \in StationStates, NEW e, e = Purge(d), NEW n
    PROVE  /\ e \in StationStates /\ e.station = d.station /\ e.visit = d.visit /\ e.denied
           /\ ~e.latestPending /\ ~e.siblingPending /\ ShowsAfter(e, n)
<1>1. IsAState(d) /\ StateFields(d) BY StateIs
<1>2. e = [station |-> d.station, visit |-> d.visit, latest |-> Null, fallback |-> Null,
           retained |-> FALSE, latestPending |-> FALSE, latestError |-> d.latestError,
           sibling |-> Null, siblingPending |-> FALSE, siblingError |-> d.siblingError,
           denied |-> TRUE]
  BY <1>1 DEF Purge, IsAState
<1>3. /\ e.station = d.station /\ e.visit = d.visit /\ e.latest = Null /\ e.fallback = Null /\ e.retained = FALSE
      /\ e.latestPending = FALSE /\ e.latestError = d.latestError /\ e.sibling = Null
      /\ e.siblingPending = FALSE /\ e.siblingError = d.siblingError /\ e.denied = TRUE
  BY <1>2
<1>4. IsAState(e) BY <1>2, <1>3 DEF IsAState
<1>5. StateFields(e) BY <1>1, <1>3 DEF StateFields, ReadingOrNull, CountOrNull
<1>6. e \in StationStates BY <1>4, <1>5, StateIs
<1> QED BY <1>3, <1>6 DEF ShowsAfter

ReadingTaken(d, x, y, r, f) ==
    [d EXCEPT !.latest = x, !.fallback = y, !.retained = r, !.latestPending = FALSE, !.latestError = f]

SiblingTaken(d, s, f) == [d EXCEPT !.sibling = s, !.siblingPending = FALSE, !.siblingError = f]

(* An answer for the reading: what is shown of it, kept back, and pending. *)
LEMMA LatestIs ==
    ASSUME NEW d \in StationStates, NEW e, NEW x \in ReadingOrNull, NEW y \in ReadingOrNull,
           NEW r \in BOOLEAN, NEW f \in BOOLEAN,
           e = ReadingTaken(d, x, y, r, f)
    PROVE  /\ e \in StationStates /\ e.station = d.station /\ e.visit = d.visit /\ e.denied = d.denied
           /\ e.latest = x /\ e.fallback = y /\ e.sibling = d.sibling
           /\ ~e.latestPending /\ e.siblingPending = d.siblingPending
<1>1. IsAState(d) /\ StateFields(d) BY StateIs
<1>2. e = [station |-> d.station, visit |-> d.visit, latest |-> x, fallback |-> y,
           retained |-> r, latestPending |-> FALSE, latestError |-> f,
           sibling |-> d.sibling, siblingPending |-> d.siblingPending, siblingError |-> d.siblingError,
           denied |-> d.denied]
  BY <1>1 DEF IsAState, ReadingTaken
<1>3. /\ e.station = d.station /\ e.visit = d.visit /\ e.latest = x /\ e.fallback = y /\ e.retained = r
      /\ e.latestPending = FALSE /\ e.latestError = f /\ e.sibling = d.sibling
      /\ e.siblingPending = d.siblingPending /\ e.siblingError = d.siblingError /\ e.denied = d.denied
  BY <1>2
<1>4. IsAState(e) BY <1>2, <1>3 DEF IsAState
<1>5. StateFields(e) BY <1>1, <1>3 DEF StateFields
<1> QED BY <1>3, <1>4, <1>5, StateIs

LEMMA SiblingIs ==
    ASSUME NEW d \in StationStates, NEW e, NEW s \in CountOrNull, NEW f \in BOOLEAN,
           e = SiblingTaken(d, s, f)
    PROVE  /\ e \in StationStates /\ e.station = d.station /\ e.visit = d.visit /\ e.denied = d.denied
           /\ e.latest = d.latest /\ e.fallback = d.fallback /\ e.sibling = s
           /\ e.latestPending = d.latestPending /\ ~e.siblingPending
<1>1. IsAState(d) /\ StateFields(d) BY StateIs
<1>2. e = [station |-> d.station, visit |-> d.visit, latest |-> d.latest, fallback |-> d.fallback,
           retained |-> d.retained, latestPending |-> d.latestPending, latestError |-> d.latestError,
           sibling |-> s, siblingPending |-> FALSE, siblingError |-> f, denied |-> d.denied]
  BY <1>1 DEF IsAState, SiblingTaken
<1>3. /\ e.station = d.station /\ e.visit = d.visit /\ e.latest = d.latest /\ e.fallback = d.fallback
      /\ e.retained = d.retained /\ e.latestPending = d.latestPending /\ e.latestError = d.latestError
      /\ e.sibling = s /\ e.siblingPending = FALSE /\ e.siblingError = f /\ e.denied = d.denied
  BY <1>2
<1>4. IsAState(e) BY <1>2, <1>3 DEF IsAState
<1>5. StateFields(e) BY <1>1, <1>3 DEF StateFields
<1> QED BY <1>3, <1>4, <1>5, StateIs

(* A merge of an answer that the page takes: of its station, asked for     *)
(* after the n refusals that the page has heard of.                        *)
LEMMA MergeLatestIs ==
    ASSUME NEW n \in Nat, NEW d \in StationStates, ShowsAfter(d, n), ~d.denied,
           NEW a, a.station = d.station, a.told = n, NEW out \in Outcomes, NEW e, e = MergeLatest(d, a, out)
    PROVE  /\ e \in StationStates /\ e.station = d.station /\ e.visit = d.visit
           /\ ~e.latestPending /\ (e.siblingPending => d.siblingPending)
           /\ ShowsAfter(e, n) /\ (out = "refused" => e.denied /\ \A m : ShowsAfter(e, m))
<1>t. d.station \in Spots /\ d.denied \in BOOLEAN /\ d.fallback \in ReadingOrNull
  BY StateIs DEF StateFields
<1>1. CASE out \in {"full", "empty"}
  <2>1. PICK f \in BOOLEAN : f = (out = "full") OBVIOUS
  <2>2. PICK x : x = [station |-> a.station, told |-> a.told, full |-> f] OBVIOUS
  <2>3. x \in Readings /\ x.station = d.station /\ x.told = n /\ x.full = f BY <1>t, <2>2 DEF Readings
  <2>4. PICK y \in ReadingOrNull : y = IF x.full THEN x ELSE Null BY <2>3 DEF ReadingOrNull
  <2>5. e = WithLatest(d, x) BY <1>1, <2>1, <2>2 DEF MergeLatest
  <2>6. PICK c \in BOOLEAN : c = FALSE OBVIOUS
  <2>7. e = ReadingTaken(d, x, y, c, c) BY <2>4, <2>5, <2>6 DEF WithLatest, ReadingTaken
  <2>8. /\ e \in StationStates /\ e.station = d.station /\ e.visit = d.visit /\ e.denied = d.denied
        /\ e.latest = x /\ e.fallback = y /\ e.sibling = d.sibling
        /\ ~e.latestPending /\ e.siblingPending = d.siblingPending
    <3>1. x \in ReadingOrNull BY <2>3 DEF ReadingOrNull
    <3> QED BY <2>7, <3>1, LatestIs
  <2> QED BY <1>1, <2>3, <2>4, <2>8 DEF ShowsAfter
<1>2. ASSUME NEW kept \in {d.fallback, Null}, NEW g, g = WithoutLatest(d, kept)
      PROVE  /\ g \in StationStates /\ g.station = d.station /\ g.visit = d.visit /\ g.denied = d.denied
             /\ ~g.latestPending /\ g.siblingPending = d.siblingPending /\ ShowsAfter(g, n)
  <2>1. PICK r \in BOOLEAN : r = (kept # Null) OBVIOUS
  <2>2. PICK c \in BOOLEAN : c = TRUE OBVIOUS
  <2>3. g = ReadingTaken(d, kept, kept, r, c) BY <1>2, <2>1, <2>2 DEF WithoutLatest, ReadingTaken
  <2>4. kept \in ReadingOrNull BY <1>t, <1>2 DEF ReadingOrNull
  <2>5. /\ g \in StationStates /\ g.station = d.station /\ g.visit = d.visit /\ g.denied = d.denied
        /\ g.latest = kept /\ g.fallback = kept /\ g.sibling = d.sibling
        /\ ~g.latestPending /\ g.siblingPending = d.siblingPending
    BY <2>3, <2>4, LatestIs
  <2> QED BY <1>2, <2>5 DEF ShowsAfter
<1>3. CASE out = "transient"
  <2>1. e = WithoutLatest(d, d.fallback) BY <1>3 DEF MergeLatest
  <2> QED BY <1>2, <1>3, <2>1
<1>4. CASE out = "error"
  <2>1. e = WithoutLatest(d, Null) BY <1>4 DEF MergeLatest
  <2> QED BY <1>2, <1>4, <2>1
<1>5. CASE out \in {"refused", "mismatch"}
  <2>1. PICK g : g = WithoutLatest(d, Null) OBVIOUS
  <2>2. e = Purge(g) BY <1>5, <2>1 DEF MergeLatest
  <2>3. g \in StationStates /\ g.station = d.station /\ g.visit = d.visit BY <1>2, <2>1
  <2> QED BY <2>2, <2>3, PurgeIs
<1> QED BY <1>1, <1>3, <1>4, <1>5 DEF Outcomes

LEMMA MergeSiblingIs ==
    ASSUME NEW n \in Nat, NEW d \in StationStates, ShowsAfter(d, n), ~d.denied,
           NEW a, a.station = d.station, a.told = n, NEW out \in Outcomes, NEW e, e = MergeSibling(d, a, out)
    PROVE  /\ e \in StationStates /\ e.station = d.station /\ e.visit = d.visit
           /\ ~e.siblingPending /\ (e.latestPending => d.latestPending)
           /\ ShowsAfter(e, n) /\ (out = "refused" => e.denied /\ \A m : ShowsAfter(e, m))
<1>t. d.station \in Spots /\ d.denied \in BOOLEAN BY StateIs DEF StateFields
<1>1. CASE out \in {"full", "empty"}
  <2>1. PICK c \in BOOLEAN : c = FALSE OBVIOUS
  <2>2. e = SiblingTaken(d, n, c) BY <1>1, <2>1 DEF MergeSibling, SiblingTaken
  <2>3. /\ e \in StationStates /\ e.station = d.station /\ e.visit = d.visit /\ e.denied = d.denied
        /\ e.latest = d.latest /\ e.fallback = d.fallback /\ e.sibling = n
        /\ e.latestPending = d.latestPending /\ ~e.siblingPending
    <3>1. n \in CountOrNull BY DEF CountOrNull
    <3> QED BY <2>2, <3>1, SiblingIs
  <2> QED BY <1>1, <2>3 DEF ShowsAfter
<1>2. PICK c \in BOOLEAN : c = TRUE OBVIOUS
<1>3. PICK g : g = SiblingTaken(d, Null, c) OBVIOUS
<1>4. /\ g \in StationStates /\ g.station = d.station /\ g.visit = d.visit /\ g.denied = d.denied
      /\ g.latest = d.latest /\ g.fallback = d.fallback /\ g.sibling = Null
      /\ g.latestPending = d.latestPending /\ ~g.siblingPending
  <2>1. Null \in CountOrNull BY DEF CountOrNull
  <2> QED BY <1>3, <2>1, SiblingIs
<1>5. CASE out \in {"transient", "error"}
  <2>1. e = g BY <1>2, <1>3, <1>5 DEF MergeSibling, SiblingTaken
  <2> QED BY <1>4, <1>5, <2>1 DEF ShowsAfter
<1>6. CASE out \in {"refused", "mismatch"}
  <2>1. e = Purge(g) BY <1>2, <1>3, <1>6 DEF MergeSibling, SiblingTaken
  <2> QED BY <1>4, <2>1, PurgeIs
<1> QED BY <1>1, <1>5, <1>6 DEF Outcomes

IsACall(a) == a = [what |-> a.what, station |-> a.station, visit |-> a.visit, told |-> a.told, active |-> a.active]

(* The calls that count are for what the page shows now, and were made     *)
(* after the last refusal it has heard of.                                 *)
AskedForNow(as, h, d, v, n) ==
    \A a \in as : /\ IsACall(a)
                  /\ a.active => /\ h.station # Null /\ a.station = h.station /\ a.visit = v
                                 /\ ~d.denied => a.told = n[a.station]

Awaited(as, what) == \E a \in as : a.what = what /\ a.active

DataInv ==
    /\ told \in [Spots -> Nat] /\ visit \in Nat /\ hier.station \in Spots \cup {Null}
    /\ data = Null \/ (data \in StationStates /\ ShowsAfter(data, told[data.station]))
    /\ hier.station # Null => data # Null /\ data.station = hier.station /\ data.visit = visit
    /\ AskedForNow(asks, hier, data, visit, told)
    /\ hier.station # Null /\ data.latestPending => Awaited(asks, "latest")
    /\ hier.station # Null /\ data.siblingPending => Awaited(asks, "sibling")

LEMMA CallIs ==
    ASSUME NEW what, NEW st, NEW v, NEW b, b = Call(what, st, v)
    PROVE  IsACall(b) /\ b.what = what /\ b.station = st /\ b.visit = v /\ b.told = told[st] /\ b.active
  BY DEF Call, IsACall

(* A render, whatever it shows of the hierarchy.                           *)
LEMMA RenderKeeps ==
    ASSUME DataInv, NEW h, h.station \in Spots \cup {Null}, NEW v \in Nat, Render(h, v)
    PROVE  DataInv'
<1>t. /\ told' = told /\ visit' = v /\ hier' = h /\ data' = Synced(h, v)
      /\ told \in [Spots -> Nat] /\ Null \notin Spots
      /\ data = Null \/ (data \in StationStates /\ ShowsAfter(data, told[data.station]))
      /\ AskedForNow(asks, hier, data, visit, told)
  BY StationPagesAssumption DEF DataInv, Render
<1>1. CASE h.station = hier.station /\ v = visit
  <2>1. asks' = asks BY <1>1 DEF Render
  <2>2. CASE h.station = Null
    <3>1. data' \in {data, Null} BY <1>t, <2>2 DEF Synced
    <3>2. \A a \in asks : IsACall(a) /\ ~a.active BY <1>t, <1>1, <2>2 DEF AskedForNow
    <3>3. AskedForNow(asks, hier, data, visit, told)' BY <2>1, <3>2 DEF AskedForNow
    <3> QED BY <1>t, <2>2, <3>1, <3>3 DEF DataInv
  <2>3. CASE h.station # Null
    <3>1. data' = data BY <1>t, <1>1, <2>3 DEF Synced, DataInv
    <3>2. AskedForNow(asks, hier, data, visit, told)' BY <1>t, <1>1, <2>1, <3>1 DEF AskedForNow
    <3> QED BY <1>t, <1>1, <2>1, <2>3, <3>1, <3>2 DEF DataInv, Awaited
  <2> QED BY <2>2, <2>3
<1>2. CASE ~(h.station = hier.station /\ v = visit)
  <2>1. asks' = {[a EXCEPT !.active = FALSE] : a \in asks}
                  \cup (IF h.station = Null THEN {} ELSE BothCalls(h.station, v))
    BY <1>2 DEF Render
  <2>2. ASSUME NEW b \in {[a EXCEPT !.active = FALSE] : a \in asks} PROVE IsACall(b) /\ ~b.active
    <3>1. PICK a \in asks : b = [a EXCEPT !.active = FALSE] BY <2>2
    <3>2. IsACall(a) BY <1>t DEF AskedForNow
    <3>3. b = [what |-> a.what, station |-> a.station, visit |-> a.visit, told |-> a.told, active |-> FALSE]
      BY <3>1, <3>2 DEF IsACall
    <3> QED BY <3>3 DEF IsACall
  <2>3. CASE h.station = Null
    <3>1. data' \in {data, Null} BY <1>t, <2>3 DEF Synced
    <3>2. AskedForNow(asks, hier, data, visit, told)' BY <2>1, <2>2, <2>3 DEF AskedForNow
    <3> QED BY <1>t, <2>3, <3>1, <3>2 DEF DataInv
  <2>4. CASE h.station # Null
    <3>1. PICK st \in Spots : st = h.station BY <2>4
    <3>2. /\ data' # Null /\ data' \in StationStates /\ data'.station = st /\ data'.visit = v
          /\ ShowsAfter(data', told[st])
      <4>1. CASE data = Null \/ data.station # st \/ data.visit # v
        <5>1. data' = InitialData(st, v, data) BY <1>t, <2>4, <3>1, <4>1 DEF Synced
        <5> QED BY <1>t, <5>1, InitialDataIs
      <4>2. CASE ~(data = Null \/ data.station # st \/ data.visit # v)
        <5>1. data' = data BY <1>t, <2>4, <3>1, <4>2 DEF Synced
        <5> QED BY <1>t, <4>2, <5>1
      <4> QED BY <4>1, <4>2
    <3>3. PICK x, y : x = Call("latest", st, v) /\ y = Call("sibling", st, v) OBVIOUS
    <3>4. /\ IsACall(x) /\ x.what = "latest" /\ x.station = st /\ x.visit = v /\ x.told = told[st] /\ x.active
          /\ IsACall(y) /\ y.what = "sibling" /\ y.station = st /\ y.visit = v /\ y.told = told[st] /\ y.active
      BY <3>3, CallIs
    <3>5. asks' = {[a EXCEPT !.active = FALSE] : a \in asks} \cup {x, y}
      BY <2>1, <2>4, <3>1, <3>3 DEF BothCalls
    <3>6. AskedForNow(asks, hier, data, visit, told)'
      <4> SUFFICES ASSUME NEW a \in asks'
                   PROVE  /\ IsACall(a)
                          /\ a.active => a.station = st /\ a.visit = v /\ a.told = told[a.station]
        BY <1>t, <2>4, <3>1 DEF AskedForNow
      <4> QED BY <2>2, <3>4, <3>5
    <3>7. Awaited(asks, "latest")' /\ Awaited(asks, "sibling")' BY <3>4, <3>5 DEF Awaited
    <3> QED BY <1>t, <3>1, <3>2, <3>6, <3>7 DEF DataInv
  <2> QED BY <2>3, <2>4
<1> QED BY <1>1, <1>2

LEMMA DataArrivesKeeps ==
    ASSUME DataInv, NEW a \in asks, NEW out \in Outcomes, DataArrives(a, out)
    PROVE  DataInv' /\ UNCHANGED <<kind, hier, hierVars>>
<1>t. /\ UNCHANGED <<kind, hier, hierVars, visit>> /\ asks' = asks \ {a}
      /\ told \in [Spots -> Nat] /\ Null \notin Spots /\ hier.station \in Spots \cup {Null} /\ visit \in Nat
      /\ data = Null \/ (data \in StationStates /\ ShowsAfter(data, told[data.station]))
      /\ hier.station # Null => data # Null /\ data.station = hier.station /\ data.visit = visit
      /\ AskedForNow(asks, hier, data, visit, told)
  BY StationPagesAssumption DEF DataInv, DataArrives
<1>1. CASE ~a.active
  <2>1. data' = data /\ told' = told BY <1>1 DEF DataArrives, Takes
  <2>2. AskedForNow(asks, hier, data, visit, told)' BY <1>t, <2>1 DEF AskedForNow
  <2>3. ASSUME NEW what, Awaited(asks, what) PROVE Awaited(asks, what)' BY <1>t, <1>1, <2>3 DEF Awaited
  <2> QED BY <1>t, <2>1, <2>2, <2>3 DEF DataInv
<1>2. CASE a.active
  <2>1. PICK st \in Spots : st = hier.station BY <1>t, <1>2 DEF AskedForNow
  <2>2. /\ data # Null /\ data \in StationStates /\ data.station = st /\ data.visit = visit
        /\ a.station = st /\ a.visit = visit /\ (~data.denied => a.told = told[st])
        /\ ShowsAfter(data, told[st]) /\ hier.station # Null
    BY <1>t, <1>2, <2>1 DEF AskedForNow
  <2>3. PICK n \in Nat : n = told[st] BY <1>t
  <2>4. /\ told' \in [Spots -> Nat] /\ (out # "refused" => told' = told)
    BY <1>t, <1>2, <2>1, <2>2 DEF DataArrives
  <2>5. CASE data.denied
    <3>1. data' = data BY <2>5 DEF DataArrives, Takes
    <3>2. ~data.latestPending /\ ~data.siblingPending /\ \A m : ShowsAfter(data, m)
      BY <2>2, <2>5 DEF ShowsAfter
    <3>3. AskedForNow(asks, hier, data, visit, told)' BY <1>t, <2>5, <3>1 DEF AskedForNow
    <3> QED BY <1>t, <2>2, <2>4, <3>1, <3>2, <3>3 DEF DataInv
  <2>6. CASE ~data.denied
    <3>1. Takes(a) BY <1>2, <2>2, <2>6 DEF Takes
    <3>2. PICK e : e = data' OBVIOUS
    <3>3. /\ e \in StationStates /\ e.station = st /\ e.visit = visit
          /\ ShowsAfter(e, n) /\ (out = "refused" => e.denied /\ \A m : ShowsAfter(e, m))
          /\ (e.latestPending => data.latestPending /\ a.what # "latest")
          /\ (e.siblingPending => data.siblingPending /\ a.what = "latest")
      <4>1. CASE a.what = "latest"
        <5>1. e = MergeLatest(data, a, out) BY <3>1, <3>2, <4>1 DEF DataArrives
        <5>2. /\ e \in StationStates /\ e.station = data.station /\ e.visit = data.visit
              /\ ~e.latestPending /\ (e.siblingPending => data.siblingPending)
              /\ ShowsAfter(e, n) /\ (out = "refused" => e.denied /\ \A m : ShowsAfter(e, m))
          BY <2>2, <2>3, <2>6, <5>1, MergeLatestIs
        <5> QED BY <2>2, <4>1, <5>2
      <4>2. CASE a.what # "latest"
        <5>1. e = MergeSibling(data, a, out) BY <3>1, <3>2, <4>2 DEF DataArrives
        <5>2. /\ e \in StationStates /\ e.station = data.station /\ e.visit = data.visit
              /\ ~e.siblingPending /\ (e.latestPending => data.latestPending)
              /\ ShowsAfter(e, n) /\ (out = "refused" => e.denied /\ \A m : ShowsAfter(e, m))
          BY <2>2, <2>3, <2>6, <5>1, MergeSiblingIs
        <5> QED BY <2>2, <4>2, <5>2
      <4> QED BY <4>1, <4>2
    <3>4. e # Null BY <3>3, NullIsNoObject
    <3>5. ShowsAfter(e, told'[st]) BY <2>3, <2>4, <3>3
    <3>6. AskedForNow(asks', hier, e, visit, told')
      <4> SUFFICES ASSUME NEW b \in asks', b.active, ~e.denied PROVE b.told = told'[b.station]
        BY <1>t DEF AskedForNow
      <4> QED BY <1>t, <2>4, <2>6, <3>3 DEF AskedForNow
    <3>7. e.latestPending => Awaited(asks', "latest") BY <1>t, <2>2, <3>3 DEF DataInv, Awaited
    <3>8. e.siblingPending => Awaited(asks', "sibling") BY <1>t, <2>2, <3>3 DEF DataInv, Awaited
    <3> QED BY <1>t, <2>1, <2>4, <3>2, <3>3, <3>4, <3>5, <3>6, <3>7, <3>8 DEF DataInv
  <2> QED BY <2>5, <2>6
<1> QED BY <1>1, <1>2

(* The hierarchy.                                                          *)
IsAHier(h) ==
    h = [scope |-> h.scope, farms |-> h.farms, plots |-> h.plots, stations |-> h.stations, farm |-> h.farm,
         plot |-> h.plot, station |-> h.station, loading |-> h.loading, error |-> h.error]

(* The selection of a browsing page is a path of the lists it has.         *)
Nested(h) ==
    /\ h.farms \subseteq Farms /\ h.plots \subseteq Plots /\ h.stations \subseteq Spots
    /\ h.station # Null => h.station \in h.stations
    /\ h.plot # Null => h.plot \in h.plots /\ FarmOf[h.plot] = h.farm
    /\ h.farm # Null => h.farm \in h.farms
    /\ \A st \in h.stations : PlotOf[st] = h.plot
    /\ \A p \in h.plots : FarmOf[p] = h.farm

Bare(h) == h.stations = {} /\ h.station = Null

(* A load that is at a level has what is above it and nothing below.       *)
AtLevel(w, h) ==
    /\ w.level # "stations" => h.plots = {} /\ h.plot = Null
    /\ w.level = "plots" => h.farm = w.farm
    /\ w.level = "stations" => h.farm = w.farm /\ h.plot = w.plot
    /\ Bare(h)

HierInv ==
    /\ kind \in {"dashboard", "monitoring", "detail"} /\ walkNo \in Nat /\ wish \in Wishes
    /\ IsAHier(hier) /\ hier.scope \in Scopes
    /\ walks \subseteq Walks
    /\ \A w \in walks : w.id <= walkNo
    /\ \A w1, w2 \in walks : w1.id = w2.id => w1 = w2
    /\ Browsing => Nested(hier) /\ \A w \in walks : CurrentWalk(w) => AtLevel(w, hier)
    /\ ~Browsing => walks = {} /\ ~hier.loading
    /\ hier.loading => \E w \in walks : CurrentWalk(w)

LEMMA NestedIs ==
    ASSUME NEW h, Nested(h)
    PROVE  h.farm \in Farms \cup {Null} /\ h.plot \in Plots \cup {Null} /\ h.station \in Spots \cup {Null}
  BY DEF Nested

LEMMA NoPlotsIs ==
    ASSUME NEW h, IsAHier(h), NEW g, g = NoPlots(h)
    PROVE  /\ IsAHier(g) /\ g.scope = h.scope /\ g.farms = h.farms /\ g.farm = h.farm
           /\ g.plots = {} /\ g.plot = Null /\ Bare(g) /\ g.loading = h.loading /\ g.error = h.error
<1>1. g = [scope |-> h.scope, farms |-> h.farms, plots |-> {}, stations |-> {}, farm |-> h.farm,
           plot |-> Null, station |-> Null, loading |-> h.loading, error |-> h.error]
  BY DEF IsAHier, NoPlots
<1> QED BY <1>1 DEF IsAHier, Bare

LEMMA NoFarmsIs ==
    ASSUME NEW h, IsAHier(h), NEW g, g = NoFarms(h)
    PROVE  /\ IsAHier(g) /\ g.scope = h.scope /\ g.farms = {} /\ g.farm = Null
           /\ g.plots = {} /\ g.plot = Null /\ Bare(g) /\ g.loading = h.loading /\ g.error = h.error
<1>1. PICK f : f = NoPlots(h) OBVIOUS
<1>2. /\ IsAHier(f) /\ f.scope = h.scope /\ f.plots = {} /\ f.plot = Null /\ Bare(f)
      /\ f.loading = h.loading /\ f.error = h.error
  BY <1>1, NoPlotsIs
<1>3. g = [f EXCEPT !.farms = {}, !.farm = Null] BY <1>1 DEF NoFarms
<1>4. g = [scope |-> h.scope, farms |-> {}, plots |-> {}, stations |-> {}, farm |-> Null,
           plot |-> Null, station |-> Null, loading |-> h.loading, error |-> h.error]
  BY <1>2, <1>3 DEF IsAHier, Bare
<1> QED BY <1>4 DEF IsAHier, Bare

LEMMA NoStationsIs ==
    ASSUME NEW h, IsAHier(h), NEW g, g = NoStations(h)
    PROVE  /\ IsAHier(g) /\ g.scope = h.scope /\ g.farms = h.farms /\ g.farm = h.farm
           /\ g.plots = h.plots /\ g.plot = h.plot /\ Bare(g) /\ g.loading = h.loading /\ g.error = h.error
<1>1. g = [scope |-> h.scope, farms |-> h.farms, plots |-> h.plots, stations |-> {}, farm |-> h.farm,
           plot |-> h.plot, station |-> Null, loading |-> h.loading, error |-> h.error]
  BY DEF IsAHier, NoStations
<1> QED BY <1>1 DEF IsAHier, Bare

(* What both a start and an end leave alone.                               *)
SameChoice(g, h) ==
    /\ g.scope = h.scope /\ g.farms = h.farms /\ g.farm = h.farm /\ g.plots = h.plots /\ g.plot = h.plot
    /\ g.stations = h.stations /\ g.station = h.station

LEMMA SettledIs ==
    ASSUME NEW h, IsAHier(h), NEW f, NEW g, g = Settled(h, f)
    PROVE  IsAHier(g) /\ SameChoice(g, h) /\ ~g.loading
<1>1. g = [scope |-> h.scope, farms |-> h.farms, plots |-> h.plots, stations |-> h.stations, farm |-> h.farm,
           plot |-> h.plot, station |-> h.station, loading |-> FALSE, error |-> f]
  BY DEF IsAHier, Settled
<1> QED BY <1>1 DEF IsAHier, SameChoice

LEMMA StartedIs ==
    ASSUME NEW h, IsAHier(h), NEW g, g = Started(h)
    PROVE  IsAHier(g) /\ SameChoice(g, h)
<1>1. g = [scope |-> h.scope, farms |-> h.farms, plots |-> h.plots, stations |-> h.stations, farm |-> h.farm,
           plot |-> h.plot, station |-> h.station, loading |-> TRUE, error |-> FALSE]
  BY DEF IsAHier, Started
<1> QED BY <1>1 DEF IsAHier, SameChoice

LEMMA SameIsNested ==
    ASSUME NEW g, NEW h, SameChoice(g, h), Nested(h)
    PROVE  Nested(g) /\ (Bare(h) => Bare(g)) /\ \A w : AtLevel(w, h) => AtLevel(w, g)
  BY DEF SameChoice, Nested, Bare, AtLevel

(* A load begins, or none does, and those before it count no more.         *)
LEMMA BeginKeeps ==
    ASSUME HierInv, Browsing, NEW w, w = Null \/ (w \in Walks /\ w.id = walkNo + 1), NEW h, NEW v, Begin(w, h, v),
           IsAHier(h), Nested(h), h.scope \in Scopes, h.loading => w # Null,
           w # Null => w.scope = h.scope /\ AtLevel(w, h), wish' \in Wishes
    PROVE  HierInv'
<1>1. /\ hier' = h /\ kind' = kind /\ walkNo' = walkNo + 1
      /\ walks' = IF w = Null THEN walks ELSE walks \cup {w}
  BY DEF Begin, Render
<1>2. walkNo \in Nat /\ walks \subseteq Walks /\ Browsing' BY <1>1 DEF HierInv, Browsing
<1>3. \A x \in walks : x.id \in Nat /\ x.id <= walkNo BY <1>2 DEF HierInv, Walks
<1>4. \A x \in walks' : x = w \/ (x \in walks /\ x.id < walkNo + 1) BY <1>1, <1>2, <1>3
<1>5. \A x \in walks : ~CurrentWalk(x)' BY <1>1, <1>2, <1>3 DEF CurrentWalk
<1>6. \A x, y \in walks' : x.id = y.id => x = y BY <1>1, <1>2, <1>3 DEF HierInv
<1>7. \A x \in walks' : x.id <= walkNo' BY <1>1, <1>2, <1>3
<1>8. walks' \subseteq Walks BY <1>1, <1>2
<1>9. \A x \in walks' : CurrentWalk(x)' => AtLevel(x, h) BY <1>1, <1>4, <1>5
<1>10. h.loading => w \in walks' /\ CurrentWalk(w)' BY <1>1 DEF CurrentWalk
<1> QED BY <1>1, <1>2, <1>6, <1>7, <1>8, <1>9, <1>10 DEF HierInv

(* A load ends.                                                            *)
LEMMA FinishKeeps ==
    ASSUME HierInv, Browsing, NEW w \in walks, NEW h, Finish(w, h), UNCHANGED <<walkNo, wish>>,
           IsAHier(h), Nested(h), h.scope = hier.scope,
           (CurrentWalk(w) /\ ~h.loading) \/ (~CurrentWalk(w) /\ h = hier)
    PROVE  HierInv'
<1>1. hier' = h /\ kind' = kind /\ walkNo' = walkNo /\ wish' = wish /\ walks' = walks \ {w} BY DEF Finish, Render
<1>2. Browsing' /\ \A x \in walks : CurrentWalk(x)' <=> CurrentWalk(x) BY <1>1 DEF Browsing, CurrentWalk
<1>3. \A x \in walks' : CurrentWalk(x)' => AtLevel(x, h)
  <2>1. CASE CurrentWalk(w)
    <3>1. \A x \in walks' : ~CurrentWalk(x) BY <1>1, <2>1 DEF HierInv, CurrentWalk
    <3> QED BY <1>1, <1>2, <3>1
  <2>2. CASE ~CurrentWalk(w) BY <1>1, <1>2, <2>2 DEF HierInv
  <2> QED BY <2>1, <2>2
<1>4. h.loading => \E x \in walks' : CurrentWalk(x)' BY <1>1, <1>2 DEF HierInv
<1> QED BY <1>1, <1>2, <1>3, <1>4 DEF HierInv

(* A load goes down a level.                                               *)
LEMMA GoOnKeeps ==
    ASSUME HierInv, Browsing, NEW w \in walks, CurrentWalk(w), NEW x \in Walks, x.id = w.id, x.scope = w.scope,
           NEW h, GoOn(w, x, h), UNCHANGED <<walkNo, wish>>,
           IsAHier(h), Nested(h), h.scope = hier.scope, AtLevel(x, h)
    PROVE  HierInv'
<1>1. hier' = h /\ kind' = kind /\ walkNo' = walkNo /\ wish' = wish /\ walks' = (walks \ {w}) \cup {x}
  BY DEF GoOn, Render
<1>2. Browsing' /\ CurrentWalk(x)' /\ \A y \in walks : CurrentWalk(y)' <=> CurrentWalk(y)
  BY <1>1 DEF Browsing, CurrentWalk
<1>3. \A y \in walks \ {w} : y.id # x.id /\ ~CurrentWalk(y) BY DEF HierInv, CurrentWalk
<1>4. \A y \in walks' : CurrentWalk(y)' => AtLevel(y, h) BY <1>1, <1>2, <1>3
<1>5. walks' \subseteq Walks BY <1>1 DEF HierInv
<1>6. \A y \in walks' : y.id <= walkNo' BY <1>1 DEF HierInv
<1>7. \A y, z \in walks' : y.id = z.id => y = z BY <1>1, <1>3 DEF HierInv
<1> QED BY <1>1, <1>2, <1>4, <1>5, <1>6, <1>7 DEF HierInv

LEMMA FetchFailsIs ==
    ASSUME HierInv, Browsing, NEW w \in walks, CurrentWalk(w), NEW h, h = FetchFails(w)
    PROVE  IsAHier(h) /\ Nested(h) /\ h.scope = hier.scope /\ ~h.loading
<1>t. IsAHier(hier) /\ Nested(hier) BY DEF HierInv
<1>1. PICK g : g = IF w.level = "farms" THEN NoFarms(hier)
                   ELSE IF w.whole THEN NoPlots(hier) ELSE NoStations(hier)
  OBVIOUS
<1>2. IsAHier(g) /\ Nested(g) /\ g.scope = hier.scope
  <2>1. CASE g = NoFarms(hier) BY <1>t, <2>1, NoFarmsIs DEF Nested, Bare
  <2>2. CASE g = NoPlots(hier) BY <1>t, <2>2, NoPlotsIs DEF Nested, Bare
  <2>3. CASE g = NoStations(hier) BY <1>t, <2>3, NoStationsIs DEF Nested, Bare
  <2> QED BY <1>1, <2>1, <2>2, <2>3
<1>3. PICK c \in BOOLEAN : c = TRUE OBVIOUS
<1>4. h = Settled(g, c) BY <1>1, <1>3 DEF FetchFails
<1>5. IsAHier(h) /\ SameChoice(h, g) /\ ~h.loading BY <1>2, <1>4, SettledIs
<1> QED BY <1>2, <1>5, SameIsNested DEF SameChoice

IsAWalk(w) ==
    w = [id |-> w.id, scope |-> w.scope, level |-> w.level, farm |-> w.farm, plot |-> w.plot,
         wish |-> w.wish, whole |-> w.whole]

LEMMA WalkFields ==
    ASSUME NEW w \in Walks
    PROVE  /\ IsAWalk(w) /\ w.id \in Nat /\ w.scope \in Scopes /\ w.farm \in Farms \cup {Null} /\ w.plot \in Plots \cup {Null}
           /\ w.wish \in Wishes /\ w.whole \in BOOLEAN /\ w.level \in {"farms", "plots", "stations"}
  BY DEF Walks, IsAWalk

FarmChosen(h, S, f) == [h EXCEPT !.farms = S, !.farm = f]

PlotChosen(h, S, p) == [h EXCEPT !.plots = S, !.plot = p]

StationChosen(h, S, st) == [h EXCEPT !.stations = S, !.station = st]

LEMMA FarmsArriveKeeps ==
    ASSUME HierInv, Browsing, NEW w \in walks, CurrentWalk(w), NEW S \in SUBSET Farms, FarmsArrive(w, S),
           UNCHANGED <<walkNo, wish>>
    PROVE  HierInv'
<1>t. /\ IsAHier(hier) /\ Nested(hier) /\ AtLevel(w, hier) /\ w \in Walks /\ w.level = "farms"
      /\ Null \notin Farms
  BY StationPagesAssumption DEF HierInv, FarmsArrive
<1>1. CASE S = {}
  <2>1. PICK c \in BOOLEAN : c = FALSE OBVIOUS
  <2>2. PICK g, h : g = NoFarms(hier) /\ h = Settled(g, c) OBVIOUS
  <2>3. Finish(w, h) BY <1>1, <2>1, <2>2 DEF FarmsArrive
  <2>4. IsAHier(g) /\ Nested(g) /\ g.scope = hier.scope BY <1>t, <2>2, NoFarmsIs DEF Nested, Bare
  <2>5. IsAHier(h) /\ SameChoice(h, g) /\ ~h.loading BY <2>2, <2>4, SettledIs
  <2>6. Nested(h) /\ h.scope = hier.scope BY <2>4, <2>5, SameIsNested DEF SameChoice
  <2> QED BY <2>3, <2>5, <2>6, FinishKeeps
<1>2. CASE S # {}
  <2>1. PICK f \in Picks(S, w.wish.farm) : GoOn(w, [w EXCEPT !.level = "plots", !.farm = f],
                                               [hier EXCEPT !.farms = S, !.farm = f])
    BY <1>2 DEF FarmsArrive
  <2>2. f \in S /\ f \in Farms BY <2>1 DEF Picks
  <2>3. PICK x, h : x = [w EXCEPT !.level = "plots", !.farm = f] /\ h = FarmChosen(hier, S, f) OBVIOUS
  <2>4. x = [id |-> w.id, scope |-> w.scope, level |-> "plots", farm |-> f, plot |-> w.plot,
             wish |-> w.wish, whole |-> w.whole]
    <3>1. IsAWalk(w) BY <1>t, WalkFields
    <3> QED BY <2>3, <3>1 DEF IsAWalk
  <2>5. x \in Walks /\ x.id = w.id /\ x.scope = w.scope /\ x.level = "plots" /\ x.farm = f
    BY <1>t, <2>2, <2>4, WalkFields DEF Walks
  <2>6. h = [scope |-> hier.scope, farms |-> S, plots |-> hier.plots, stations |-> hier.stations, farm |-> f,
             plot |-> hier.plot, station |-> hier.station, loading |-> hier.loading, error |-> hier.error]
    BY <1>t, <2>3 DEF IsAHier, FarmChosen
  <2>7. /\ IsAHier(h) /\ h.scope = hier.scope /\ h.farms = S /\ h.farm = f
        /\ h.plots = {} /\ h.plot = Null /\ Bare(h)
    BY <1>t, <2>6 DEF IsAHier, AtLevel, Bare
  <2>8. Nested(h) BY <2>2, <2>7 DEF Nested, Bare
  <2>9. AtLevel(x, h) BY <2>5, <2>7 DEF AtLevel
  <2>10. GoOn(w, x, h) BY <2>1, <2>3 DEF FarmChosen
  <2> QED BY <2>5, <2>7, <2>8, <2>9, <2>10, GoOnKeeps
<1> QED BY <1>1, <1>2

LEMMA PlotsArriveKeeps ==
    ASSUME HierInv, Browsing, NEW w \in walks, CurrentWalk(w), NEW S \in SUBSET Plots, PlotsArrive(w, S),
           UNCHANGED <<walkNo, wish>>
    PROVE  HierInv'
<1>t. /\ IsAHier(hier) /\ Nested(hier) /\ AtLevel(w, hier) /\ w \in Walks /\ w.level = "plots"
      /\ hier.farm = w.farm /\ Null \notin Plots
  BY StationPagesAssumption DEF HierInv, PlotsArrive, AtLevel
<1>1. CASE \E p \in S : FarmOf[p] # w.farm
  <2>1. PICK h : h = FetchFails(w) OBVIOUS
  <2>2. Finish(w, h) BY <1>1, <2>1 DEF PlotsArrive
  <2>3. IsAHier(h) /\ Nested(h) /\ h.scope = hier.scope /\ ~h.loading BY <2>1, FetchFailsIs
  <2> QED BY <2>2, <2>3, FinishKeeps
<1>2. CASE S = {}
  <2>1. PICK c \in BOOLEAN : c = FALSE OBVIOUS
  <2>2. PICK g, h : g = NoPlots(hier) /\ h = Settled(g, c) OBVIOUS
  <2>3. Finish(w, h) BY <1>2, <2>1, <2>2 DEF PlotsArrive
  <2>4. IsAHier(g) /\ Nested(g) /\ g.scope = hier.scope BY <1>t, <2>2, NoPlotsIs DEF Nested, Bare
  <2>5. IsAHier(h) /\ SameChoice(h, g) /\ ~h.loading BY <2>2, <2>4, SettledIs
  <2>6. Nested(h) /\ h.scope = hier.scope BY <2>4, <2>5, SameIsNested DEF SameChoice
  <2> QED BY <2>3, <2>5, <2>6, FinishKeeps
<1>3. CASE S # {} /\ ~\E p \in S : FarmOf[p] # w.farm
  <2>1. PICK p \in Picks(S, w.wish.plot) : GoOn(w, [w EXCEPT !.level = "stations", !.plot = p],
                                               [hier EXCEPT !.plots = S, !.plot = p])
    BY <1>3 DEF PlotsArrive
  <2>2. p \in S /\ p \in Plots BY <2>1 DEF Picks
  <2>3. PICK x, h : x = [w EXCEPT !.level = "stations", !.plot = p] /\ h = PlotChosen(hier, S, p) OBVIOUS
  <2>4. x = [id |-> w.id, scope |-> w.scope, level |-> "stations", farm |-> w.farm, plot |-> p,
             wish |-> w.wish, whole |-> w.whole]
    <3>1. IsAWalk(w) BY <1>t, WalkFields
    <3> QED BY <2>3, <3>1 DEF IsAWalk
  <2>5. /\ x \in Walks /\ x.id = w.id /\ x.scope = w.scope /\ x.level = "stations"
        /\ x.farm = w.farm /\ x.plot = p
    BY <1>t, <2>2, <2>4, WalkFields DEF Walks
  <2>6. h = [scope |-> hier.scope, farms |-> hier.farms, plots |-> S, stations |-> hier.stations,
             farm |-> hier.farm, plot |-> p, station |-> hier.station, loading |-> hier.loading,
             error |-> hier.error]
    BY <1>t, <2>3 DEF IsAHier, PlotChosen
  <2>7. /\ IsAHier(h) /\ h.scope = hier.scope /\ h.farms = hier.farms /\ h.farm = hier.farm
        /\ h.plots = S /\ h.plot = p /\ Bare(h)
    BY <1>t, <2>6 DEF IsAHier, AtLevel, Bare
  <2>8. Nested(h) BY <1>t, <1>3, <2>2, <2>7 DEF Nested, Bare
  <2>9. AtLevel(x, h) BY <1>t, <2>5, <2>7 DEF AtLevel
  <2>10. GoOn(w, x, h) BY <2>1, <2>3 DEF PlotChosen
  <2> QED BY <2>5, <2>7, <2>8, <2>9, <2>10, GoOnKeeps
<1> QED BY <1>1, <1>2, <1>3

LEMMA StationsArriveKeeps ==
    ASSUME HierInv, Browsing, NEW w \in walks, CurrentWalk(w), NEW S \in SUBSET Spots, StationsArrive(w, S),
           UNCHANGED <<walkNo, wish>>
    PROVE  HierInv'
<1>t. /\ IsAHier(hier) /\ Nested(hier) /\ AtLevel(w, hier) /\ w.level = "stations"
      /\ hier.plot = w.plot
  BY DEF HierInv, StationsArrive, AtLevel
<1>1. CASE \E st \in S : PlotOf[st] # w.plot \/ FarmOf[PlotOf[st]] # w.farm
  <2>1. PICK h : h = FetchFails(w) OBVIOUS
  <2>2. Finish(w, h) BY <1>1, <2>1 DEF StationsArrive
  <2>3. IsAHier(h) /\ Nested(h) /\ h.scope = hier.scope /\ ~h.loading BY <2>1, FetchFailsIs
  <2> QED BY <2>2, <2>3, FinishKeeps
<1>2. CASE ~\E st \in S : PlotOf[st] # w.plot \/ FarmOf[PlotOf[st]] # w.farm
  <2>1. PICK st \in IF S = {} THEN {Null} ELSE Picks(S, w.wish.station) :
               Finish(w, Settled([hier EXCEPT !.stations = S, !.station = st], FALSE))
    BY <1>2 DEF StationsArrive
  <2>2. st = Null \/ st \in S BY <2>1 DEF Picks
  <2>3. PICK c \in BOOLEAN : c = FALSE OBVIOUS
  <2>4. PICK g, h : g = StationChosen(hier, S, st) /\ h = Settled(g, c) OBVIOUS
  <2>5. g = [scope |-> hier.scope, farms |-> hier.farms, plots |-> hier.plots, stations |-> S,
             farm |-> hier.farm, plot |-> hier.plot, station |-> st, loading |-> hier.loading,
             error |-> hier.error]
    BY <1>t, <2>4 DEF IsAHier, StationChosen
  <2>6. /\ IsAHier(g) /\ g.scope = hier.scope /\ g.farms = hier.farms /\ g.farm = hier.farm
        /\ g.plots = hier.plots /\ g.plot = hier.plot /\ g.stations = S /\ g.station = st
    BY <2>5 DEF IsAHier
  <2>7. Nested(g) BY <1>t, <1>2, <2>2, <2>6 DEF Nested
  <2>8. IsAHier(h) /\ SameChoice(h, g) /\ ~h.loading BY <2>4, <2>6, SettledIs
  <2>9. Nested(h) /\ h.scope = hier.scope BY <2>6, <2>7, <2>8, SameIsNested DEF SameChoice
  <2>10. Finish(w, h) BY <2>1, <2>3, <2>4 DEF StationChosen
  <2> QED BY <2>8, <2>9, <2>10, FinishKeeps
<1> QED BY <1>1, <1>2

LEMMA WalkStepKeeps ==
    ASSUME HierInv, Browsing, NEW w \in walks, WalkStep(w)
    PROVE  HierInv'
<1>t. UNCHANGED <<walkNo, wish>> /\ IsAHier(hier) /\ Nested(hier) BY DEF WalkStep, HierInv
<1>1. ASSUME CurrentWalk(w), NEW S \in SUBSET Farms, FarmsArrive(w, S) PROVE HierInv'
  BY <1>t, <1>1, FarmsArriveKeeps
<1>2. ASSUME CurrentWalk(w), NEW S \in SUBSET Plots, PlotsArrive(w, S) PROVE HierInv'
  BY <1>t, <1>2, PlotsArriveKeeps
<1>3. ASSUME CurrentWalk(w), NEW S \in SUBSET Spots, StationsArrive(w, S) PROVE HierInv'
  BY <1>t, <1>3, StationsArriveKeeps
<1>4. ASSUME CurrentWalk(w), Finish(w, FetchFails(w)) PROVE HierInv'
  <2>1. PICK h : h = FetchFails(w) OBVIOUS
  <2>2. IsAHier(h) /\ Nested(h) /\ h.scope = hier.scope /\ ~h.loading BY <1>4, <2>1, FetchFailsIs
  <2> QED BY <1>t, <1>4, <2>1, <2>2, FinishKeeps
<1>5. ASSUME ~CurrentWalk(w), walks' = walks \ {w}, Render(hier, visit) PROVE HierInv'
  <2>1. PICK h : h = hier OBVIOUS
  <2>2. Finish(w, h) BY <1>5, <2>1 DEF Finish
  <2> QED BY <1>t, <1>5, <2>1, <2>2, FinishKeeps
<1> QED BY <1>1, <1>2, <1>3, <1>4, <1>5 DEF WalkStep

LEMMA NewWalkIs ==
    ASSUME walkNo \in Nat, NEW sc \in Scopes, NEW ws \in Wishes, NEW w, w = Walk(walkNo + 1, sc, ws)
    PROVE  w \in Walks /\ w.id = walkNo + 1 /\ w.scope = sc /\ w.level = "farms"
<1>1. w = [id |-> walkNo + 1, scope |-> sc, level |-> "farms", farm |-> Null, plot |-> Null,
           wish |-> ws, whole |-> TRUE]
  BY DEF Walk
<1>2. PICK c \in BOOLEAN : c = TRUE OBVIOUS
<1>3. PICK n \in Nat : n = walkNo + 1 OBVIOUS
<1>4. PICK x \in Farms \cup {Null}, y \in Plots \cup {Null} : x = Null /\ y = Null OBVIOUS
<1>5. w = [id |-> n, scope |-> sc, level |-> "farms", farm |-> x, plot |-> y, wish |-> ws, whole |-> c]
  BY <1>1, <1>2, <1>3, <1>4
<1>6. w \in Walks /\ w.id = n /\ w.scope = sc /\ w.level = "farms" BY <1>5 DEF Walks
<1> QED BY <1>3, <1>6

LEMMA NoWishIs == NoWish \in Wishes BY DEF NoWish, Wishes

FarmPicked(h, f) == [NoPlots(h) EXCEPT !.farm = f]

PlotPicked(h, p) == [NoStations(h) EXCEPT !.plot = p]

LEMMA FarmPickedIs ==
    ASSUME NEW h, IsAHier(h), NEW f, NEW g, g = FarmPicked(h, f)
    PROVE  /\ IsAHier(g) /\ g.scope = h.scope /\ g.farms = h.farms /\ g.farm = f
           /\ g.plots = {} /\ g.plot = Null /\ Bare(g)
<1>1. PICK b : b = NoPlots(h) OBVIOUS
<1>2. IsAHier(b) /\ b.scope = h.scope /\ b.farms = h.farms /\ b.plots = {} /\ b.plot = Null /\ Bare(b)
  BY <1>1, NoPlotsIs
<1>3. g = [scope |-> h.scope, farms |-> h.farms, plots |-> {}, stations |-> {}, farm |-> f,
           plot |-> Null, station |-> Null, loading |-> b.loading, error |-> b.error]
  BY <1>1, <1>2 DEF FarmPicked, IsAHier, Bare
<1> QED BY <1>3 DEF IsAHier, Bare

LEMMA PlotPickedIs ==
    ASSUME NEW h, IsAHier(h), NEW p, NEW g, g = PlotPicked(h, p)
    PROVE  /\ IsAHier(g) /\ g.scope = h.scope /\ g.farms = h.farms /\ g.farm = h.farm
           /\ g.plots = h.plots /\ g.plot = p /\ Bare(g)
<1>1. PICK b : b = NoStations(h) OBVIOUS
<1>2. /\ IsAHier(b) /\ b.scope = h.scope /\ b.farms = h.farms /\ b.farm = h.farm /\ b.plots = h.plots /\ Bare(b)
  BY <1>1, NoStationsIs
<1>3. g = [scope |-> h.scope, farms |-> h.farms, plots |-> h.plots, stations |-> {}, farm |-> h.farm,
           plot |-> p, station |-> Null, loading |-> b.loading, error |-> b.error]
  BY <1>1, <1>2 DEF PlotPicked, IsAHier, Bare
<1> QED BY <1>3 DEF IsAHier, Bare

LEMMA SelectFarmKeeps ==
    ASSUME HierInv, NEW f, SelectFarm(f)
    PROVE  HierInv'
<1>t. /\ IsAHier(hier) /\ Nested(hier) /\ hier.scope \in Scopes /\ walkNo \in Nat /\ wish' \in Wishes
      /\ Browsing /\ Null \notin Farms
  BY StationPagesAssumption DEF HierInv, SelectFarm
<1>1. CASE f \in hier.farms
  <2>1. PICK w0 : w0 = Walk(walkNo + 1, hier.scope, NoWish) OBVIOUS
  <2>2. w0 \in Walks /\ w0.id = walkNo + 1 /\ w0.scope = hier.scope BY <1>t, <2>1, NoWishIs, NewWalkIs
  <2>3. PICK w, g, h : /\ w = [w0 EXCEPT !.level = "plots", !.farm = f]
                       /\ g = FarmPicked(hier, f) /\ h = Started(g)
    OBVIOUS
  <2>4. w = [id |-> w0.id, scope |-> w0.scope, level |-> "plots", farm |-> f, plot |-> w0.plot,
             wish |-> w0.wish, whole |-> w0.whole]
    <3>1. IsAWalk(w0) BY <2>2, WalkFields
    <3> QED BY <2>3, <3>1 DEF IsAWalk
  <2>5. f \in Farms BY <1>t, <1>1 DEF Nested
  <2>6. /\ w \in Walks /\ w.id = walkNo + 1 /\ w.scope = hier.scope /\ w.level = "plots" /\ w.farm = f
    BY <2>2, <2>4, <2>5, WalkFields DEF Walks
  <2>7. /\ IsAHier(g) /\ g.scope = hier.scope /\ g.farms = hier.farms /\ g.farm = f
        /\ g.plots = {} /\ g.plot = Null /\ Bare(g)
    BY <1>t, <2>3, FarmPickedIs
  <2>8. Nested(g) /\ AtLevel(w, g) BY <1>t, <1>1, <2>5, <2>6, <2>7 DEF Nested, Bare, AtLevel
  <2>9. IsAHier(h) /\ SameChoice(h, g) BY <2>3, <2>7, StartedIs
  <2>10. Nested(h) /\ AtLevel(w, h) /\ h.scope = hier.scope BY <2>7, <2>8, <2>9, SameIsNested DEF SameChoice
  <2>11. Begin(w, h, visit) BY <1>1, <2>1, <2>3 DEF SelectFarm, FarmPicked
  <2>12. w # Null BY <2>6, NullIsNoObject
  <2> QED BY <1>t, <2>6, <2>9, <2>10, <2>11, <2>12, BeginKeeps
<1>2. CASE f \notin hier.farms
  <2>1. PICK c \in BOOLEAN : c = FALSE OBVIOUS
  <2>2. PICK g, h : g = FarmPicked(hier, Null) /\ h = Settled(g, c) OBVIOUS
  <2>3. /\ IsAHier(g) /\ g.scope = hier.scope /\ g.farms = hier.farms /\ g.farm = Null
        /\ g.plots = {} /\ g.plot = Null /\ Bare(g)
    BY <1>t, <2>2, FarmPickedIs
  <2>4. Nested(g) BY <1>t, <2>3 DEF Nested, Bare
  <2>5. IsAHier(h) /\ SameChoice(h, g) /\ ~h.loading BY <2>2, <2>3, SettledIs
  <2>6. Nested(h) /\ h.scope = hier.scope BY <2>3, <2>4, <2>5, SameIsNested DEF SameChoice
  <2>7. PICK w : w = Null OBVIOUS
  <2>8. Begin(w, h, visit) BY <1>2, <2>1, <2>2, <2>7 DEF SelectFarm, FarmPicked
  <2> QED BY <1>t, <2>5, <2>6, <2>7, <2>8, BeginKeeps
<1> QED BY <1>1, <1>2

LEMMA SelectPlotKeeps ==
    ASSUME HierInv, NEW p, SelectPlot(p)
    PROVE  HierInv'
<1>t. /\ IsAHier(hier) /\ Nested(hier) /\ hier.scope \in Scopes /\ walkNo \in Nat /\ wish' \in Wishes
      /\ Browsing /\ Null \notin Plots
  BY StationPagesAssumption DEF HierInv, SelectPlot
<1>1. CASE p \in hier.plots
  <2>1. PICK w0 : w0 = Walk(walkNo + 1, hier.scope, NoWish) OBVIOUS
  <2>2. w0 \in Walks /\ w0.id = walkNo + 1 /\ w0.scope = hier.scope BY <1>t, <2>1, NoWishIs, NewWalkIs
  <2>3. PICK w, g, h : /\ w = [w0 EXCEPT !.level = "stations", !.farm = hier.farm, !.plot = p, !.whole = FALSE]
                       /\ g = PlotPicked(hier, p) /\ h = Started(g)
    OBVIOUS
  <2>4. w = [id |-> w0.id, scope |-> w0.scope, level |-> "stations", farm |-> hier.farm, plot |-> p,
             wish |-> w0.wish, whole |-> FALSE]
    <3>1. IsAWalk(w0) BY <2>2, WalkFields
    <3> QED BY <2>3, <3>1 DEF IsAWalk
  <2>5. p \in Plots /\ hier.farm \in Farms \cup {Null} BY <1>t, <1>1, NestedIs DEF Nested
  <2>6. /\ w \in Walks /\ w.id = walkNo + 1 /\ w.scope = hier.scope /\ w.level = "stations"
        /\ w.farm = hier.farm /\ w.plot = p
    BY <2>2, <2>4, <2>5, WalkFields DEF Walks
  <2>7. /\ IsAHier(g) /\ g.scope = hier.scope /\ g.farms = hier.farms /\ g.farm = hier.farm
        /\ g.plots = hier.plots /\ g.plot = p /\ Bare(g)
    BY <1>t, <2>3, PlotPickedIs
  <2>8. Nested(g) /\ AtLevel(w, g) BY <1>t, <1>1, <2>5, <2>6, <2>7 DEF Nested, Bare, AtLevel
  <2>9. IsAHier(h) /\ SameChoice(h, g) BY <2>3, <2>7, StartedIs
  <2>10. Nested(h) /\ AtLevel(w, h) /\ h.scope = hier.scope BY <2>7, <2>8, <2>9, SameIsNested DEF SameChoice
  <2>11. Begin(w, h, visit) BY <1>1, <2>1, <2>3 DEF SelectPlot, PlotPicked
  <2>12. w # Null BY <2>6, NullIsNoObject
  <2> QED BY <1>t, <2>6, <2>9, <2>10, <2>11, <2>12, BeginKeeps
<1>2. CASE p \notin hier.plots
  <2>1. PICK c \in BOOLEAN : c = FALSE OBVIOUS
  <2>2. PICK g, h : g = PlotPicked(hier, Null) /\ h = Settled(g, c) OBVIOUS
  <2>3. /\ IsAHier(g) /\ g.scope = hier.scope /\ g.farms = hier.farms /\ g.farm = hier.farm
        /\ g.plots = hier.plots /\ g.plot = Null /\ Bare(g)
    BY <1>t, <2>2, PlotPickedIs
  <2>4. Nested(g) BY <1>t, <2>3 DEF Nested, Bare
  <2>5. IsAHier(h) /\ SameChoice(h, g) /\ ~h.loading BY <2>2, <2>3, SettledIs
  <2>6. Nested(h) /\ h.scope = hier.scope BY <2>3, <2>4, <2>5, SameIsNested DEF SameChoice
  <2>7. PICK w : w = Null OBVIOUS
  <2>8. Begin(w, h, visit) BY <1>2, <2>1, <2>2, <2>7 DEF SelectPlot, PlotPicked
  <2> QED BY <1>t, <2>5, <2>6, <2>7, <2>8, BeginKeeps
<1> QED BY <1>1, <1>2

LEMMA SelectStationKeeps ==
    ASSUME HierInv, NEW st, SelectStation(st)
    PROVE  HierInv'
<1>t. /\ IsAHier(hier) /\ Nested(hier) /\ Browsing /\ hier.plot # Null
      /\ st \in hier.stations \cup {Null} /\ UNCHANGED <<kind, hierVars>>
  BY DEF HierInv, SelectStation, Render
<1>1. PICK h : h = [hier EXCEPT !.station = st] OBVIOUS
<1>2. hier' = h /\ Browsing' BY <1>t, <1>1 DEF SelectStation, Render, Browsing
<1>3. h = [scope |-> hier.scope, farms |-> hier.farms, plots |-> hier.plots, stations |-> hier.stations,
           farm |-> hier.farm, plot |-> hier.plot, station |-> st, loading |-> hier.loading, error |-> hier.error]
  BY <1>t, <1>1 DEF IsAHier
<1>4. /\ IsAHier(h) /\ h.scope = hier.scope /\ h.farms = hier.farms /\ h.farm = hier.farm
      /\ h.plots = hier.plots /\ h.plot = hier.plot /\ h.stations = hier.stations /\ h.station = st
      /\ h.loading = hier.loading
  BY <1>3 DEF IsAHier
<1>5. Nested(h) BY <1>t, <1>4 DEF Nested
<1>6. ASSUME NEW w \in walks PROVE /\ CurrentWalk(w)' <=> CurrentWalk(w)
                                   /\ CurrentWalk(w) => AtLevel(w, h)
  <2>1. CurrentWalk(w)' <=> CurrentWalk(w) BY <1>t, <1>2, <1>4 DEF CurrentWalk, hierVars
  <2>2. CurrentWalk(w) => AtLevel(w, hier) BY <1>t DEF HierInv
  <2> QED BY <1>t, <1>4, <2>1, <2>2 DEF AtLevel, Bare
<1> QED BY <1>t, <1>2, <1>4, <1>5, <1>6 DEF HierInv, hierVars

LEMMA ScopeChangesKeeps ==
    ASSUME HierInv, NEW sc \in Scopes, ScopeChanges(sc)
    PROVE  HierInv'
<1>t. walkNo \in Nat /\ Browsing /\ wish' \in Wishes BY NoWishIs DEF HierInv, ScopeChanges
<1>1. PICK w, h : w = Walk(walkNo + 1, sc, NoWish) /\ h = InitialHierarchy(sc) OBVIOUS
<1>2. w \in Walks /\ w.id = walkNo + 1 /\ w.scope = sc /\ w.level = "farms" BY <1>t, <1>1, NoWishIs, NewWalkIs
<1>3. /\ IsAHier(h) /\ h.scope = sc /\ h.farms = {} /\ h.plots = {} /\ h.stations = {}
      /\ h.farm = Null /\ h.plot = Null /\ h.station = Null
  BY <1>1 DEF InitialHierarchy, IsAHier
<1>4. Nested(h) /\ AtLevel(w, h) BY <1>2, <1>3 DEF Nested, AtLevel, Bare
<1>5. Begin(w, h, visit) /\ w # Null BY <1>1, <1>2, NullIsNoObject DEF ScopeChanges
<1> QED BY <1>t, <1>2, <1>3, <1>4, <1>5, BeginKeeps

LEMMA ReloadStationKeeps ==
    ASSUME HierInv, Browsing, NEW v, ReloadHierarchy(v)
    PROVE  HierInv'
<1>t. IsAHier(hier) /\ Nested(hier) /\ hier.scope \in Scopes /\ walkNo \in Nat /\ wish \in Wishes BY DEF HierInv
<1>1. wish' \in Wishes
  <2>1. PICK x, y, z : x = hier.farm /\ y = hier.plot /\ z = hier.station OBVIOUS
  <2>2. x \in Farms \cup {Null} /\ y \in Plots \cup {Null} /\ z \in Spots \cup {Null} BY <1>t, <2>1, NestedIs
  <2>3. wish' = wish \/ wish' = [farm |-> x, plot |-> y, station |-> z] BY <2>1 DEF ReloadHierarchy
  <2> QED BY <1>t, <2>2, <2>3 DEF Wishes
<1>2. PICK w, g, h : w = Walk(walkNo + 1, hier.scope, wish') /\ g = NoFarms(hier) /\ h = Started(g) OBVIOUS
<1>3. w \in Walks /\ w.id = walkNo + 1 /\ w.scope = hier.scope /\ w.level = "farms"
  BY <1>t, <1>1, <1>2, NewWalkIs
<1>4. /\ IsAHier(g) /\ g.scope = hier.scope /\ g.farms = {} /\ g.farm = Null
      /\ g.plots = {} /\ g.plot = Null /\ Bare(g)
  BY <1>t, <1>2, NoFarmsIs
<1>5. Nested(g) /\ AtLevel(w, g) BY <1>3, <1>4 DEF Nested, AtLevel, Bare
<1>6. IsAHier(h) /\ SameChoice(h, g) BY <1>2, <1>4, StartedIs
<1>7. Nested(h) /\ AtLevel(w, h) /\ h.scope = hier.scope BY <1>4, <1>5, <1>6, SameIsNested DEF SameChoice
<1>8. Begin(w, h, v) /\ w # Null BY <1>2, <1>3, NullIsNoObject DEF ReloadHierarchy
<1> QED BY <1>t, <1>1, <1>3, <1>6, <1>7, <1>8, BeginKeeps

StationInv == HierInv /\ DataInv

LEMMA InitStation == StationInit => StationInv
<1> SUFFICES ASSUME StationInit PROVE StationInv OBVIOUS
<1>t. /\ told = [st \in Spots |-> 0] /\ visit = 0 /\ wish = NoWish /\ wish \in Wishes
      /\ Null \notin Spots
  BY NoWishIs, StationPagesAssumption DEF StationInit
<1>1. ASSUME kind \in {"dashboard", "monitoring"},
             NEW sc \in Scopes, hier = InitialHierarchy(sc), walks = {Walk(1, sc, NoWish)},
             walkNo = 1, data = Null, asks = {}
      PROVE  StationInv
  <2>1. PICK w : w = Walk(1, sc, NoWish) OBVIOUS
  <2>2. w \in Walks /\ w.id = 1 /\ w.scope = sc /\ w.level = "farms"
    <3>1. PICK c \in BOOLEAN : c = TRUE OBVIOUS
    <3>2. PICK n \in Nat : n = 1 OBVIOUS
    <3>3. PICK x \in Farms \cup {Null}, y \in Plots \cup {Null}, ws \in Wishes : x = Null /\ y = Null /\ ws = NoWish
      BY NoWishIs
    <3>4. w = [id |-> n, scope |-> sc, level |-> "farms", farm |-> x, plot |-> y, wish |-> ws, whole |-> c]
      BY <2>1, <3>1, <3>2, <3>3 DEF Walk
    <3>5. w \in Walks /\ w.id = n /\ w.scope = sc /\ w.level = "farms" BY <3>4 DEF Walks
    <3> QED BY <3>2, <3>5
  <2>3. /\ IsAHier(hier) /\ hier.scope = sc /\ hier.farms = {} /\ hier.plots = {} /\ hier.stations = {}
        /\ hier.farm = Null /\ hier.plot = Null /\ hier.station = Null
    BY <1>1 DEF InitialHierarchy, IsAHier
  <2>4. Nested(hier) /\ AtLevel(w, hier) /\ CurrentWalk(w)
    BY <1>1, <2>2, <2>3 DEF Nested, AtLevel, Bare, CurrentWalk
  <2>5. walks = {w} /\ Browsing BY <1>1, <2>1 DEF Browsing
  <2>6. HierInv BY <1>t, <1>1, <2>2, <2>3, <2>4, <2>5 DEF HierInv
  <2> QED BY <1>t, <1>1, <2>3, <2>6 DEF StationInv, DataInv, AskedForNow
<1>2. ASSUME kind = "detail", NEW st \in Spots, NEW sc \in Scopes,
             hier = [InitialHierarchy(sc) EXCEPT !.station = st, !.loading = FALSE],
             data = InitialData(st, 0, Null),
             asks = {[what |-> w, station |-> st, visit |-> 0, told |-> 0, active |-> TRUE] :
                       w \in {"latest", "sibling"}},
             walks = {}, walkNo = 0
      PROVE  StationInv
  <2>1. hier = [scope |-> sc, farms |-> {}, plots |-> {}, stations |-> {}, farm |-> Null, plot |-> Null,
                station |-> st, loading |-> FALSE, error |-> FALSE]
    BY <1>2 DEF InitialHierarchy
  <2>2. IsAHier(hier) /\ hier.scope = sc /\ hier.station = st /\ ~hier.loading BY <2>1 DEF IsAHier
  <2>3. ~Browsing BY <1>2 DEF Browsing
  <2>4. HierInv BY <1>t, <1>2, <2>2, <2>3 DEF HierInv
  <2>5. /\ data \in StationStates /\ data # Null /\ data.station = st /\ data.visit = 0
        /\ ShowsAfter(data, told[st])
    <3>1. PICK n : n = told OBVIOUS
    <3>2. n \in [Spots -> Nat] BY <1>t, <3>1
    <3>3. PICK z \in Nat : z = 0 OBVIOUS
    <3>4. data = InitialData(st, z, Null) BY <1>2, <3>3
    <3>5. data \in StationStates /\ data # Null /\ data.station = st /\ data.visit = z /\ ShowsAfter(data, n[st])
      BY <3>2, <3>4, InitialDataIs
    <3> QED BY <3>1, <3>3, <3>5
  <2>6. PICK x, y : /\ x = [what |-> "latest", station |-> st, visit |-> 0, told |-> 0, active |-> TRUE]
                    /\ y = [what |-> "sibling", station |-> st, visit |-> 0, told |-> 0, active |-> TRUE]
    OBVIOUS
  <2>7. asks = {x, y} BY <1>2, <2>6
  <2>8. /\ IsACall(x) /\ x.what = "latest" /\ x.station = st /\ x.visit = 0 /\ x.told = 0 /\ x.active
        /\ IsACall(y) /\ y.what = "sibling" /\ y.station = st /\ y.visit = 0 /\ y.told = 0 /\ y.active
    BY <2>6 DEF IsACall
  <2>9. told \in [Spots -> Nat] /\ told[st] = 0 BY <1>t
  <2>10. AskedForNow(asks, hier, data, visit, told) BY <1>t, <2>2, <2>7, <2>8, <2>9 DEF AskedForNow
  <2>11. Awaited(asks, "latest") /\ Awaited(asks, "sibling") BY <2>7, <2>8 DEF Awaited
  <2> QED BY <1>t, <2>2, <2>4, <2>5, <2>9, <2>10, <2>11 DEF StationInv, DataInv
<1> QED BY <1>1, <1>2 DEF StationInit

(* A browsing page: the hierarchy step keeps its part, the render the rest.*)
LEMMA BrowsingKeeps ==
    ASSUME StationInv, Browsing, UNCHANGED kind, HierInv', NEW h, NEW v \in Nat, Render(h, v)
    PROVE  StationInv'
<1>1. hier' = h /\ Browsing' BY DEF Render, Browsing
<1>2. Nested(h) BY <1>1 DEF HierInv
<1>3. h.station \in Spots \cup {Null} BY <1>2, NestedIs
<1> QED BY <1>3, RenderKeeps DEF StationInv

LEMMA NextStation == StationInv /\ [StationNext]_stationVars => StationInv'
<1> SUFFICES ASSUME StationInv, [StationNext]_stationVars PROVE StationInv' OBVIOUS
<1>t. HierInv /\ DataInv /\ visit \in Nat /\ hier.station \in Spots \cup {Null} BY DEF StationInv, DataInv
<1>1. ASSUME NEW w \in walks, WalkStep(w) PROVE StationInv'
  <2>1. Browsing BY <1>t DEF HierInv
  <2>2. HierInv' BY <1>t, <1>1, <2>1, WalkStepKeeps
  <2>3. \E h : Render(h, visit)
    BY <1>1 DEF WalkStep, FarmsArrive, PlotsArrive, StationsArrive, Finish, GoOn
  <2>4. UNCHANGED kind BY <2>3 DEF Render
  <2> QED BY <1>t, <2>1, <2>2, <2>3, <2>4, BrowsingKeeps
<1>2. ASSUME NEW f, SelectFarm(f) PROVE StationInv'
  <2>1. Browsing /\ HierInv' BY <1>t, <1>2, SelectFarmKeeps DEF SelectFarm
  <2>2. \E h : Render(h, visit) BY <1>2 DEF SelectFarm, Begin
  <2>3. UNCHANGED kind BY <2>2 DEF Render
  <2> QED BY <1>t, <2>1, <2>2, <2>3, BrowsingKeeps
<1>3. ASSUME NEW p, SelectPlot(p) PROVE StationInv'
  <2>1. Browsing /\ HierInv' BY <1>t, <1>3, SelectPlotKeeps DEF SelectPlot
  <2>2. \E h : Render(h, visit) BY <1>3 DEF SelectPlot, Begin
  <2>3. UNCHANGED kind BY <2>2 DEF Render
  <2> QED BY <1>t, <2>1, <2>2, <2>3, BrowsingKeeps
<1>4. ASSUME NEW st, SelectStation(st) PROVE StationInv'
  <2>1. Browsing /\ HierInv' BY <1>t, <1>4, SelectStationKeeps DEF SelectStation
  <2>2. \E h : Render(h, visit) BY <1>4 DEF SelectStation
  <2>3. UNCHANGED kind BY <2>2 DEF Render
  <2> QED BY <1>t, <2>1, <2>2, <2>3, BrowsingKeeps
<1>5. ASSUME NEW sc \in Scopes, ScopeChanges(sc) PROVE StationInv'
  <2>1. Browsing /\ HierInv' BY <1>t, <1>5, ScopeChangesKeeps DEF ScopeChanges
  <2>2. \E h : Render(h, visit) BY <1>5 DEF ScopeChanges, Begin
  <2>3. UNCHANGED kind BY <2>2 DEF Render
  <2> QED BY <1>t, <2>1, <2>2, <2>3, BrowsingKeeps
<1>6. ASSUME NEW v \in Nat, Browsing, ReloadHierarchy(v) PROVE StationInv'
  <2>1. HierInv' BY <1>t, <1>6, ReloadStationKeeps
  <2>2. \E h : Render(h, v) BY <1>6 DEF ReloadHierarchy, Begin
  <2>3. UNCHANGED kind BY <2>2 DEF Render
  <2> QED BY <1>t, <1>6, <2>1, <2>2, <2>3, BrowsingKeeps
<1>7. CASE RefreshPage
  <2>1. visit + 1 \in Nat /\ Browsing /\ ReloadHierarchy(visit + 1) BY <1>t, <1>7 DEF RefreshPage
  <2> QED BY <1>6, <2>1
<1>8. CASE RetryHierarchy
  <2>1. Browsing /\ ReloadHierarchy(visit) BY <1>8 DEF RetryHierarchy, Browsing
  <2> QED BY <1>t, <1>6, <2>1
<1>9. CASE Retry
  <2>1. visit + 1 \in Nat /\ Render(hier, visit + 1) /\ UNCHANGED <<kind, hier, walkNo, walks, wish>>
    BY <1>t, <1>9 DEF Retry, Render, hierVars
  <2>2. HierInv' BY <1>t, <2>1 DEF HierInv, Browsing, CurrentWalk
  <2>3. DataInv' BY <1>t, <2>1, RenderKeeps
  <2> QED BY <2>2, <2>3 DEF StationInv
<1>10. ASSUME NEW st \in Spots, OpenStation(st) PROVE StationInv'
  <2>1. PICK h : h = [hier EXCEPT !.station = st] OBVIOUS
  <2>2. Render(h, visit) /\ UNCHANGED <<kind, walkNo, walks, wish>> /\ hier' = h /\ kind = "detail"
    BY <1>10, <2>1 DEF OpenStation, Render, hierVars
  <2>3. IsAHier(hier) BY <1>t DEF HierInv
  <2>4. h = [scope |-> hier.scope, farms |-> hier.farms, plots |-> hier.plots, stations |-> hier.stations,
             farm |-> hier.farm, plot |-> hier.plot, station |-> st, loading |-> hier.loading, error |-> hier.error]
    BY <2>1, <2>3 DEF IsAHier
  <2>5. IsAHier(h) /\ h.scope = hier.scope /\ h.station = st /\ h.loading = hier.loading
    BY <2>4 DEF IsAHier
  <2>6. ~Browsing /\ ~Browsing' BY <2>2 DEF Browsing
  <2>7. HierInv' BY <1>t, <2>2, <2>5, <2>6 DEF HierInv
  <2>8. DataInv' BY <1>t, <2>2, <2>5, RenderKeeps
  <2> QED BY <2>7, <2>8 DEF StationInv
<1>11. ASSUME NEW a \in asks, NEW out \in Outcomes, DataArrives(a, out) PROVE StationInv'
  <2>1. DataInv' /\ UNCHANGED <<kind, hier, walkNo, walks, wish>> BY <1>t, <1>11, DataArrivesKeeps DEF hierVars
  <2>2. HierInv' BY <1>t, <2>1 DEF HierInv, Browsing, CurrentWalk
  <2> QED BY <2>1, <2>2 DEF StationInv
<1>12. CASE UNCHANGED stationVars
  <2>1. UNCHANGED <<kind, hier, walkNo, walks, wish, data, visit, asks, told>> BY <1>12 DEF stationVars, hierVars
  <2>2. HierInv' BY <1>t, <2>1 DEF HierInv, Browsing, CurrentWalk
  <2>3. DataInv' BY <1>t, <2>1 DEF DataInv
  <2> QED BY <2>2, <2>3 DEF StationInv
<1> QED BY <1>1, <1>2, <1>3, <1>4, <1>5, <1>7, <1>8, <1>9, <1>10, <1>11, <1>12 DEF StationNext

LEMMA StationInvTells == StationInv => StationWaits /\ StationForgotten /\ SelectionIsNested
<1> SUFFICES ASSUME StationInv PROVE StationWaits /\ StationForgotten /\ SelectionIsNested OBVIOUS
<1>t. HierInv /\ DataInv BY DEF StationInv
<1>1. ASSUME CurrentData, NEW what, Awaited(asks, what), data.latestPending \/ data.siblingPending
      PROVE  \E a \in asks : a.what = what /\ a.active /\ Takes(a)
  <2>1. PICK a \in asks : a.what = what /\ a.active BY <1>1 DEF Awaited
  <2>2. data # Null /\ data.station = a.station /\ data.visit = a.visit
    BY <1>t, <1>1, <2>1 DEF CurrentData, DataInv, AskedForNow
  <2>3. ~data.denied BY <1>t, <1>1, <2>2 DEF DataInv, ShowsAfter
  <2> QED BY <2>1, <2>2, <2>3 DEF Takes
<1>2. StationWaits BY <1>t, <1>1 DEF StationWaits, HierInv, DataInv, CurrentData
<1>3. StationForgotten
  <2>1. CASE CurrentData
    <3>1. data # Null /\ data.station = hier.station /\ ShowsAfter(data, told[hier.station])
      BY <1>t, <2>1 DEF DataInv, CurrentData
    <3> QED BY <2>1, <3>1 DEF StationForgotten, ShownReading, ShownSibling, ShowsAfter
  <2>2. CASE ~CurrentData BY <2>2 DEF StationForgotten, ShownReading, ShownSibling
  <2> QED BY <2>1, <2>2
<1>4. SelectionIsNested BY <1>t DEF SelectionIsNested, HierInv, Nested
<1> QED BY <1>2, <1>3, <1>4

================================================================================
