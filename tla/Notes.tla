--------------------------------- MODULE Notes ---------------------------------
(***************************************************************************)
(* The shared notebook of Nyan Post: the SQLite store                      *)
(* (internal/storage/notes/sqlite.go), the handlers over it and the script *)
(* of the page (discord-webhook/server.go).  A page may have a load, a save*)
(* and a deletion under way at the same time; each is a request, and the   *)
(* answer to any of them may be lost or be an error, before or after the   *)
(* store has done its part.  Other pages write to the same notebook.       *)
(***************************************************************************)
EXTENDS Naturals, Sequences, FiniteSets, SequencesExt

CONSTANTS
  Pages,        \* browser pages followed in detail
  Limit,        \* notes per load (50)
  Base,         \* the base of the fractional digits of a time (ten)
  MaxWrites,    \* bound on the saves
  MaxTime,      \* bound on the clock, in units of Base^-2 seconds
  None

ASSUME NumbersAssumption ==
  /\ {Limit, Base, MaxWrites, MaxTime} \subseteq Nat
  /\ Limit > 0 /\ Base > 1

VARIABLES
  table,      \* the notes table
  lastId,     \* sqlite_sequence: the last id AUTOINCREMENT gave out
  now,        \* the clock
  page,       \* what each page shows
  load,       \* its GET /notes under way, or None
  save,       \* its POST or PUT under way, or None
  del,        \* its DELETE under way, or None
  writes,     \* saves so far; the text of a save is its number
  committed,  \* history: texts the store has committed
  gone,       \* history: notes deleted, by the text they were created with
  told        \* history: texts a page was told are saved

store == <<table, lastId>>
requests == <<load, save, del>>
history == <<writes, committed, gone, told>>
vars == <<store, now, page, requests, history>>

Texts == 1..MaxWrites

\* born: the text a note was created with, which tells notes apart even if
\* they had the same id.
Note == [id : 1..MaxWrites, born : Texts, text : Texts, at : 0..MaxTime]

\* clean: no write since the reset load of what is shown was answered.
Page == [shown : Seq(Note), offset : 0..MaxWrites, more : BOOLEAN, clean : BOOLEAN,
         editing : Note \cup {None}]

Load == [phase : {"sent", "answered"}, offset : 0..MaxWrites,
         notes : Seq(Note), more : BOOLEAN]

\* target: the note as the page showed it, None for a new note; reload: a save
\* that waits for the load it has started.
Change == [phase : {"sent", "wrote", "answered", "reload"}, target : Note \cup {None},
           text : Texts \cup {None}, reply : {"none", "ok", "missing", "error"}]

ASSUME NothingAssumption == None \notin Note \cup Load \cup Change

TypeOK ==
  /\ table \subseteq Note
  /\ lastId \in 0..MaxWrites
  /\ now \in 0..MaxTime
  /\ page \in [Pages -> Page]
  /\ load \in [Pages -> Load \cup {None}]
  /\ save \in [Pages -> Change \cup {None}]
  /\ del \in [Pages -> Change \cup {None}]
  /\ writes \in 0..MaxWrites
  /\ committed \subseteq Texts
  /\ gone \subseteq Texts
  /\ told \subseteq Texts

Init ==
  /\ table = {} /\ lastId = 0
  /\ now = 0
  /\ page = [p \in Pages |-> [shown |-> <<>>, offset |-> 0, more |-> FALSE, clean |-> FALSE,
                              editing |-> None]]
  /\ load = [p \in Pages |-> None]
  /\ save = [p \in Pages |-> None]
  /\ del = [p \in Pages |-> None]
  /\ writes = 0 /\ committed = {} /\ gone = {} /\ told = {}

----------------------------------------------------------------------------
(* The store. *)

\* Timestamps are compared as text.  RFC3339Nano drops the trailing zeros of a
\* fraction, and its 'Z' sorts after every digit and after the point: a digit
\* dropped counts as Base.  Two digits stand for the nine of a nanosecond clock.
TextOrder(t) ==
  LET d1 == (t \div Base) % Base
      d2 == t % Base
      c1 == IF d1 = 0 /\ d2 = 0 THEN Base ELSE d1
      c2 == IF d2 = 0 THEN Base ELSE d2
  IN ((t \div (Base * Base)) * (Base + 1) + c1) * (Base + 1) + c2

\* ORDER BY updated_at DESC, id DESC
Before(m, n) ==
  \/ TextOrder(m.at) > TextOrder(n.at)
  \/ TextOrder(m.at) = TextOrder(n.at) /\ m.id > n.id

\* The rows in that order.
Listing ==
  CHOOSE s \in [1..Cardinality(table) -> table] :
    \A i, j \in DOMAIN s : i < j => Before(s[i], s[j])

\* LIMIT and OFFSET
Slice(offset, n) ==
  SubSeq(Listing, offset + 1, IF offset + n < Len(Listing) THEN offset + n ELSE Len(Listing))

With(id) == {n \in table : n.id = id}

\* Faulty: an id column without AUTOINCREMENT reuses the ids at the end.
NewId_Reused == IF table = {} THEN 1 ELSE 1 + CHOOSE k \in Texts :
                  With(k) # {} /\ \A n \in table : n.id <= k

NewId == lastId + 1

\* Whatever a page shows is out of date after a write.
Written ==
  page' = [p \in Pages |-> [page[p] EXCEPT !.clean = FALSE]]

----------------------------------------------------------------------------
(* loadNotes and GET /notes *)

\* loadNotes with no load under way; a reset starts from an empty list.
Request(p, reset) ==
  LET offset == IF reset THEN 0 ELSE page[p].offset IN
  /\ load[p] = None
  /\ load' = [load EXCEPT ![p] = [phase |-> "sent", offset |-> offset,
                                  notes |-> <<>>, more |-> FALSE]]
  /\ page' = IF reset THEN [page EXCEPT ![p].shown = <<>>, ![p].offset = 0, ![p].clean = FALSE]
             ELSE page

\* The notes tab is opened.
Open(p) ==
  /\ Request(p, TRUE)
  /\ UNCHANGED <<store, now, save, del, history>>

LoadMore(p) ==
  /\ page[p].more
  /\ Request(p, FALSE)
  /\ UNCHANGED <<store, now, save, del, history>>

\* handleListNotes asks for one note more than it returns.
ServeList(p) ==
  /\ load[p] # None /\ load[p].phase = "sent"
  /\ LET found == Slice(load[p].offset, Limit + 1) IN
       load' = [load EXCEPT ![p].phase = "answered",
                            ![p].notes = SubSeq(found, 1, IF Len(found) > Limit THEN Limit ELSE Len(found)),
                            ![p].more = Len(found) > Limit]
  /\ page' = IF load[p].offset = 0 THEN [page EXCEPT ![p].clean = TRUE] ELSE page
  /\ UNCHANGED <<store, now, save, del, history>>

\* The save that waited for this load is over.
Reloaded(p) ==
  IF save[p] # None /\ save[p].phase = "reload" THEN [save EXCEPT ![p] = None] ELSE save

\* An error status, or no answer; `finally` ends the load all the same.
ListFails(p) ==
  /\ load[p] # None
  /\ load' = [load EXCEPT ![p] = None]
  /\ page' = [page EXCEPT ![p].clean = @ /\ load[p].offset > 0]
  /\ save' = Reloaded(p)
  /\ UNCHANGED <<store, now, del, history>>

\* Faulty: the note asked for beyond the limit is counted.
NextOffset_CountsExtra(l) == l.offset + Limit + 1

\* next_offset, or what was loaded when there is no more.
NextOffset(l) == l.offset + Len(l.notes)

\* The page appends what it got.
EndLoad(p) ==
  /\ load[p] # None /\ load[p].phase = "answered"
  /\ load' = [load EXCEPT ![p] = None]
  /\ page' = [page EXCEPT ![p].shown = @ \o load[p].notes,
                          ![p].offset = NextOffset(load[p]), ![p].more = load[p].more]
  /\ save' = Reloaded(p)
  /\ UNCHANGED <<store, now, del, history>>

----------------------------------------------------------------------------
(* The editor, POST /notes and PUT /notes/{id} *)

Edit(p, note) ==
  /\ page' = [page EXCEPT ![p].editing = note]
  /\ page' # page
  /\ UNCHANGED <<store, now, requests, history>>

Sent(target, text) == [phase |-> "sent", target |-> target, text |-> text, reply |-> "none"]

\* The save button is disabled while a save, or the load after it, is under way.
Save(p) ==
  /\ save[p] = None
  /\ writes < MaxWrites
  /\ writes' = writes + 1
  /\ save' = [save EXCEPT ![p] = Sent(page[p].editing, writes + 1)]
  /\ UNCHANGED <<store, now, page, load, del, committed, gone, told>>

Under(r, phase) == r # None /\ r.phase = phase

ServeCreate(p) ==
  /\ Under(save[p], "sent") /\ save[p].target = None
  /\ table' = table \cup {[id |-> NewId, born |-> save[p].text, text |-> save[p].text, at |-> now]}
  /\ lastId' = NewId
  /\ committed' = committed \cup {save[p].text}
  /\ save' = [save EXCEPT ![p].phase = "answered", ![p].reply = "ok"]
  /\ Written
  /\ UNCHANGED <<now, load, del, writes, gone, told>>

\* The UPDATE statement, which commits on its own.
UpdateRow(p) ==
  /\ Under(save[p], "sent") /\ save[p].target # None
  /\ \E note \in With(save[p].target.id) :
       table' = (table \ {note}) \cup {[note EXCEPT !.text = save[p].text, !.at = now]}
  /\ committed' = committed \cup {save[p].text}
  /\ save' = [save EXCEPT ![p].phase = "wrote"]
  /\ Written
  /\ UNCHANGED <<lastId, now, load, del, writes, gone, told>>

\* Faulty: RowsAffected is not looked at.
UpdateMissing_NotCounted(p) ==
  /\ Under(save[p], "sent") /\ save[p].target # None
  /\ With(save[p].target.id) = {}
  /\ save' = [save EXCEPT ![p].phase = "answered", ![p].reply = "ok"]
  /\ UNCHANGED <<store, now, page, load, del, history>>

\* It changed no row.
UpdateMissing(p) ==
  /\ Under(save[p], "sent") /\ save[p].target # None
  /\ With(save[p].target.id) = {}
  /\ save' = [save EXCEPT ![p].phase = "answered", ![p].reply = "missing"]
  /\ UNCHANGED <<store, now, page, load, del, history>>

\* The SELECT that follows; the row may have been deleted since.
ReadBack(p) ==
  /\ Under(save[p], "wrote")
  /\ save' = [save EXCEPT ![p].phase = "answered",
                          ![p].reply = IF With(save[p].target.id) = {} THEN "error" ELSE "ok"]
  /\ UNCHANGED <<store, now, page, load, del, history>>

\* No answer, or an error whatever the store has done; the text stays.
SaveFails(p) ==
  /\ save[p] # None /\ save[p].phase # "reload"
  /\ save' = [save EXCEPT ![p] = None]
  /\ UNCHANGED <<store, now, page, load, del, history>>

\* Success empties the editor and loads the list afresh, unless a load is under
\* way: then nothing is loaded, and nothing is said either.
EndSave(p) ==
  /\ Under(save[p], "answered")
  /\ IF save[p].reply # "ok" \/ load[p] # None
     THEN /\ save' = [save EXCEPT ![p] = None]
          /\ page' = IF save[p].reply = "ok" THEN [page EXCEPT ![p].editing = None] ELSE page
          /\ UNCHANGED load
     ELSE /\ save' = [save EXCEPT ![p].phase = "reload"]
          /\ load' = [load EXCEPT ![p] = [phase |-> "sent", offset |-> 0,
                                          notes |-> <<>>, more |-> FALSE]]
          /\ page' = [page EXCEPT ![p].editing = None, ![p].shown = <<>>, ![p].offset = 0,
                                  ![p].clean = FALSE]
  /\ told' = IF save[p].reply = "ok" THEN told \cup {save[p].text} ELSE told
  /\ UNCHANGED <<store, now, del, writes, committed, gone>>

----------------------------------------------------------------------------
(* DELETE /notes/{id} *)

Delete(p, note) ==
  /\ del[p] = None
  /\ del' = [del EXCEPT ![p] = Sent(note, None)]
  /\ UNCHANGED <<store, now, page, load, save, history>>

\* Store.Delete reads and deletes the row in one transaction.
ServeDelete(p) ==
  /\ Under(del[p], "sent")
  /\ LET found == With(del[p].target.id) IN
       /\ table' = table \ found
       /\ gone' = gone \cup {n.born : n \in found}
       /\ del' = [del EXCEPT ![p].phase = "answered",
                             ![p].reply = IF found = {} THEN "missing" ELSE "ok"]
       /\ IF found = {} THEN UNCHANGED page ELSE Written
  /\ UNCHANGED <<lastId, now, load, save, writes, committed, told>>

DeleteFails(p) ==
  /\ del[p] # None
  /\ del' = [del EXCEPT ![p] = None]
  /\ UNCHANGED <<store, now, page, load, save, history>>

EndDelete(p) ==
  /\ Under(del[p], "answered")
  /\ del' = [del EXCEPT ![p] = None]
  /\ IF del[p].reply = "ok" /\ load[p] = None THEN Request(p, TRUE) ELSE UNCHANGED <<page, load>>
  /\ UNCHANGED <<store, now, save, history>>

----------------------------------------------------------------------------
(* The requests of other pages, as far as this notebook sees them. *)

CreateElsewhere ==
  /\ writes < MaxWrites
  /\ writes' = writes + 1
  /\ table' = table \cup {[id |-> NewId, born |-> writes', text |-> writes', at |-> now]}
  /\ lastId' = NewId
  /\ committed' = committed \cup {writes'}
  /\ Written
  /\ UNCHANGED <<now, requests, gone, told>>

UpdateElsewhere(note) ==
  /\ writes < MaxWrites
  /\ writes' = writes + 1
  /\ table' = (table \ {note}) \cup {[note EXCEPT !.text = writes', !.at = now]}
  /\ committed' = committed \cup {writes'}
  /\ Written
  /\ UNCHANGED <<lastId, now, requests, gone, told>>

DeleteElsewhere(note) ==
  /\ table' = table \ {note}
  /\ gone' = gone \cup {note.born}
  /\ Written
  /\ UNCHANGED <<lastId, now, requests, writes, committed, told>>

----------------------------------------------------------------------------
Tick ==
  /\ now < MaxTime
  /\ now' = now + 1
  /\ UNCHANGED <<store, page, requests, history>>

\* What the user of a page does.
Use(p) ==
  \/ Open(p) \/ LoadMore(p) \/ Save(p)
  \/ Edit(p, None)
  \/ \E i \in DOMAIN page[p].shown : Edit(p, page[p].shown[i]) \/ Delete(p, page[p].shown[i])

\* What a request under way does.
ListStep(p) == ServeList(p) \/ ListFails(p) \/ EndLoad(p)
SaveStep(p) ==
  ServeCreate(p) \/ UpdateRow(p) \/ UpdateMissing(p) \/ ReadBack(p) \/ SaveFails(p) \/ EndSave(p)
DeleteStep(p) == ServeDelete(p) \/ DeleteFails(p) \/ EndDelete(p)

Next ==
  \/ \E p \in Pages : Use(p) \/ ListStep(p) \/ SaveStep(p) \/ DeleteStep(p)
  \/ CreateElsewhere
  \/ \E note \in table : UpdateElsewhere(note) \/ DeleteElsewhere(note)
  \/ Tick

Spec == Init /\ [][Next]_vars

----------------------------------------------------------------------------
(* Properties *)

\* Loading page after page to the end, with no write in between, shows every
\* note exactly once, in the order of the store: no page boundary loses or
\* repeats one, whatever loads failed on the way.
PagesAddUp ==
  \A p \in Pages :
    page[p].clean /\ load[p] = None /\ ~page[p].more => page[p].shown = Listing

\* A page that is out of date never hits a note other than the one it showed:
\* an edit or a deletion changes only the note the request was made for, though
\* the request carries nothing but an id.
HitsItsNote ==
  \A p \in Pages : \A n \in table \ table' :
    /\ save'[p] # save[p] => save[p].target.born = n.born
    /\ del'[p] # del[p] => del[p].target.born = n.born

StaleRequestsHitTheirNote == [][HitsItsNote]_vars

\* The user is told the truth: "saved" after the text was committed, "deleted"
\* after the note was deleted, "not found" only of a note that is really gone.
AnswersAreTrue ==
  \A p \in Pages :
    /\ Under(save[p], "answered") =>
         /\ save[p].reply = "ok" => save[p].text \in committed
         /\ save[p].reply = "missing" => save[p].target.born \in gone
    /\ Under(del[p], "answered") => del[p].target.born \in gone

\* The claim "newly saved notes to appear without a full page reload": a page
\* with nothing under way that shows notes shows those it said were saved (all
\* fit in one load).
NewNotesAppear ==
  \A p \in Pages :
    load[p] = None /\ save[p] = None /\ del[p] = None /\ page[p].shown # <<>>
      => \A n \in table : n.text \in told => n \in ToSet(page[p].shown)

\* The claim "notes listed newest first".
NewestFirst ==
  \A p \in Pages :
    load[p] # None =>
      \A i, j \in DOMAIN load[p].notes : i < j => load[p].notes[i].at >= load[p].notes[j].at
=============================================================================
