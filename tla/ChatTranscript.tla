---------------------------- MODULE ChatTranscript ----------------------------
(***************************************************************************)
(* One conversation of the chat tab: the append-only transcript.jsonl of    *)
(* src/arail/chat/conversations.py, the /api/chat/stream handler that        *)
(* writes a turn's first and last event, the orphan sweep a booting portal   *)
(* runs in a worker thread beside it, and delete.                            *)
(*                                                                         *)
(* A record is one line. An append can be cut short, by the death of the     *)
(* machine or a full disk: anywhere in the line, inside a character that     *)
(* takes several bytes, or just before its newline; what is appended next    *)
(* goes on where the file ends. The handlers run on the event loop, an append *)
(* and its rewrite of meta.json in one go; the sweep's thread takes them one   *)
(* by one. Other conversations touch this one only through the sweep, which   *)
(* goes over all of them and stops at the first it cannot read or write. Of   *)
(* meta.json the model keeps whether it can be read: two rewrites of it that  *)
(* overlap count as one after the other. All turns here are of one branch.    *)
(***************************************************************************)
EXTENDS Naturals, Sequences, FiniteSets

CONSTANTS Turns,      \* turn ids; start_turn mints a new one each time
          NoTurn,     \* the turn of a line that does not parse
          MaxCrashes, \* times the portal dies
          MaxFaults   \* appends that raise

ASSUME NoTurnAssumption == NoTurn \notin Turns
ASSUME BoundsAssumption == MaxCrashes \in Nat /\ MaxFaults \in Nat

VARIABLES up,       \* the portal process is running
          dir,      \* the conversation's directory and its transcript exist
          meta,     \* get_meta finds a meta.json it can read
          log,      \* the lines of transcript.jsonl
          whole,    \* the last line ends in a newline
          gen,      \* _generate of each turn: "new", "live" or "over"
          sweep,    \* sweep_orphans of this process: "off", "due", "on", "wrote"
                    \* (an event), "stamps" (it has read meta.json), "done"
          orphans,  \* turns it found in flight and has not written for
          old,      \* history: turns started in an earlier process
          sound,    \* history: no line was cut since before this boot, no sweep failed
          acked,    \* history: records whose append returned
          deleted,  \* history: DELETE was answered
          overtaken,\* history: ... after the sweep had read meta.json, to rewrite it
          crashes, faults

file == <<dir, meta, log, whole>>
sweeper == <<sweep, orphans>>
gone == <<deleted, overtaken>>
history == <<old, sound, acked, gone>>
counters == <<crashes, faults>>
vars == <<up, file, gen, sweeper, history, counters>>

Terminal == {"completed", "failed", "interrupted"}
Line == [kind : {"started", "progress"} \cup Terminal, turn : Turns]
Bad == [kind |-> "bad", turn |-> NoTurn]      \* does not parse
Torn == [kind |-> "torn", turn |-> NoTurn]    \* is not UTF-8

TypeOK ==
    /\ up \in BOOLEAN /\ dir \in BOOLEAN /\ meta \in BOOLEAN
    /\ log \in Seq(Line \cup {Bad, Torn})
    /\ whole \in BOOLEAN
    /\ gen \in [Turns -> {"new", "live", "over"}]
    /\ sweep \in {"off", "due", "on", "wrote", "stamps", "done"}
    /\ orphans \subseteq Turns
    /\ old \subseteq Turns /\ sound \in BOOLEAN
    /\ acked \subseteq Line /\ deleted \in BOOLEAN /\ overtaken \in BOOLEAN
    /\ crashes \in 0..MaxCrashes /\ faults \in 0..MaxFaults

\* Just created.
Init ==
    /\ up = TRUE
    /\ dir = TRUE /\ meta = TRUE /\ log = <<>> /\ whole = TRUE
    /\ gen = [t \in Turns |-> "new"]
    /\ sweep = "done" /\ orphans = {}
    /\ old = {} /\ sound = TRUE /\ acked = {} /\ deleted = FALSE /\ overtaken = FALSE
    /\ crashes = 0 /\ faults = 0

-----------------------------------------------------------------------------
(* fold *)

\* The records a reader gets; lines that do not parse are skipped.
\* Mutant: the first of them ends the reading.
RecordsBeforeDamage ==
    {log[i] : i \in {j \in 1..Len(log) : \A k \in 1..j : log[k] \in Line}}

Records == {log[i] : i \in {j \in 1..Len(log) : log[j] \in Line}}

\* fold reads in strict UTF-8, outside its try: a torn line raises.
Readable == \A i \in 1..Len(log) : log[i] # Torn

\* The last terminal record of a turn is its status.
Status(t) ==
    LET ends == {i \in 1..Len(log) : log[i].turn = t /\ log[i].kind \in Terminal}
    IN  IF ends # {} THEN log[CHOOSE i \in ends : \A j \in ends : j <= i].kind
        ELSE IF \E r \in Records : r.turn = t THEN "in_flight"
        ELSE "none"

InFlight == {t \in Turns : Status(t) = "in_flight"}

-----------------------------------------------------------------------------
(* append_event: the directory is made when it is not there *)

Rec(k, t) == [kind |-> k, turn |-> t]

\* The lines after a line r: one that goes on an unfinished line is lost with it.
With(r) ==
    IF whole THEN Append(log, r)
    ELSE [log EXCEPT ![Len(log)] = IF Torn \in {r, @} THEN Torn ELSE Bad]

\* Mutant: meta.json is written whether or not there is one.
WriteBringsBack(r) ==
    /\ dir' = TRUE /\ meta' = TRUE
    /\ log' = With(r)
    /\ whole' = TRUE
    /\ acked' = acked \cup {r}

Write(r) ==
    /\ dir' = TRUE
    /\ log' = With(r)
    /\ whole' = TRUE
    /\ acked' = acked \cup {r}
    /\ UNCHANGED meta

\* An append that does not come to its end: nothing, a piece, or all but the
\* newline is in the file, or all of it and the rewriting of meta.json is cut.
CutShort(r) ==
    /\ dir' = TRUE
    /\ \/ UNCHANGED <<log, whole, meta>>
       \/ \E b \in {Bad, Torn} : log' = With(b) /\ whole' = FALSE /\ UNCHANGED meta
       \/ log' = With(r) /\ whole' = FALSE /\ UNCHANGED meta
       \/ log' = With(r) /\ whole' = TRUE /\ meta' = FALSE
    /\ UNCHANGED acked

\* Does every line still end in a newline?
Watch == sound' = (sound /\ whole')

Fault(r) == faults < MaxFaults /\ faults' = faults + 1 /\ CutShort(r)

-----------------------------------------------------------------------------
(* POST /api/chat/stream with the conversation's id, on the event loop *)

\* Without a readable meta.json the turn is not recorded at all.
MayStart(t) == up /\ gen[t] = "new" /\ meta

StartTurn(t) ==
    /\ MayStart(t)
    /\ Write(Rec("started", t))
    /\ gen' = [gen EXCEPT ![t] = "live"]
    /\ UNCHANGED <<up, sweeper, old, sound, gone, counters>>

\* start_turn raised: the chat goes on unrecorded.
StartTurnFails(t) ==
    /\ MayStart(t)
    /\ Fault(Rec("started", t)) /\ Watch
    /\ gen' = [gen EXCEPT ![t] = "over"]
    /\ UNCHANGED <<up, sweeper, old, gone, crashes>>

\* Mutant: the failure is recorded in a finally, after the answer as well.
EndTurnTwice(t, k) ==
    /\ up /\ gen[t] \in {"live", "over"}
    /\ gen[t] = "over" => k = "failed" /\ Status(t) = "completed"
    /\ Write(Rec(k, t))
    /\ gen' = [gen EXCEPT ![t] = "over"]
    /\ UNCHANGED <<up, sweeper, old, sound, gone, counters>>

\* complete_turn or fail_turn, after the last event went to the client.
EndTurn(t, k) ==
    /\ up /\ gen[t] = "live"
    /\ Write(Rec(k, t))
    /\ gen' = [gen EXCEPT ![t] = "over"]
    /\ UNCHANGED <<up, sweeper, old, sound, gone, counters>>

EndTurnFails(t, k) ==
    /\ up /\ gen[t] = "live"
    /\ Fault(Rec(k, t)) /\ Watch
    /\ gen' = [gen EXCEPT ![t] = "over"]
    /\ UNCHANGED <<up, sweeper, old, gone, crashes>>

\* The client goes away, or the stream raises: the generator is closed at its
\* yield and nothing more is recorded.
Closed(t) ==
    /\ up /\ gen[t] = "live"
    /\ gen' = [gen EXCEPT ![t] = "over"]
    /\ UNCHANGED <<up, file, sweeper, history, counters>>

\* DELETE /api/chat/conversations/{cid}
Delete ==
    /\ up /\ dir
    /\ dir' = FALSE /\ meta' = FALSE /\ log' = <<>> /\ whole' = TRUE
    /\ acked' = {} /\ deleted' = TRUE
    /\ overtaken' = (overtaken \/ sweep = "stamps")
    /\ UNCHANGED <<up, gen, sweeper, old, sound, counters>>

\* rmtree raises part way: a file cannot be removed, or the sweep made one in the
\* directory meanwhile.
DeleteFails ==
    /\ up /\ dir
    /\ faults < MaxFaults /\ faults' = faults + 1
    /\ \/ meta' = FALSE /\ UNCHANGED <<log, whole, acked>>
       \/ /\ log' = <<>> /\ whole' = TRUE /\ acked' = {}
          /\ meta' \in {meta, FALSE}
    /\ UNCHANGED <<up, dir, gen, sweeper, old, sound, gone, crashes>>

-----------------------------------------------------------------------------
(* sweep_orphans, in a worker thread beside the handlers *)

SweepFolds ==
    /\ up /\ sweep = "due" /\ Readable
    /\ orphans' = InFlight
    /\ sweep' = "on"
    /\ UNCHANGED <<up, file, gen, history, counters>>

\* fold raises, and the boot task swallows that.
SweepCannotRead ==
    /\ up /\ sweep = "due" /\ ~Readable
    /\ sweep' = "done" /\ sound' = FALSE
    /\ UNCHANGED <<up, file, gen, orphans, old, acked, gone, counters>>

SweepWrites(t) ==
    /\ up /\ sweep = "on" /\ t \in orphans
    /\ Write(Rec("interrupted", t))
    /\ orphans' = orphans \ {t}
    /\ sweep' = "wrote"
    /\ UNCHANGED <<up, gen, old, sound, gone, counters>>

\* Then append_event reads meta.json, and rewrites it if it was there ...
SweepReadsMeta ==
    /\ up /\ sweep = "wrote"
    /\ sweep' = IF meta THEN "stamps" ELSE "on"
    /\ UNCHANGED <<up, file, gen, orphans, history, counters>>

\* ... whatever happened to it since.
SweepStamps ==
    /\ up /\ sweep = "stamps" /\ dir
    /\ meta' = TRUE
    /\ sweep' = "on"
    /\ UNCHANGED <<up, dir, log, whole, gen, orphans, history, counters>>

\* Before it comes here it stops at another conversation, whose transcript it
\* cannot read or append to; the last process may have cut a line there as here.
SweepStopsElsewhere ==
    /\ up /\ sweep = "due"
    /\ sweep' = "done" /\ sound' = FALSE
    /\ UNCHANGED <<up, file, gen, orphans, old, acked, gone, counters>>

\* Mutant: a failed sweep has a state of its own.
SweepFailsAsFailed(t) ==
    /\ up /\ sweep = "on" /\ t \in orphans
    /\ Fault(Rec("interrupted", t))
    /\ sweep' = "failed" /\ orphans' = {} /\ sound' = FALSE
    /\ UNCHANGED <<up, gen, old, gone, crashes>>

\* A DELETE came between the mkdir and the open of the append, or before the
\* rewrite of meta.json: the open raises.
SweepLosesDirectory ==
    /\ up /\ ~dir
    /\ sweep = "stamps" \/ (sweep = "on" /\ orphans # {})
    /\ sweep' = "done" /\ orphans' = {} /\ sound' = FALSE
    /\ UNCHANGED <<up, file, gen, old, acked, gone, counters>>

\* The rewrite of meta.json raises when the file is already cut to nothing.
SweepStampFails ==
    /\ up /\ sweep = "stamps" /\ faults < MaxFaults
    /\ faults' = faults + 1
    /\ meta' = FALSE
    /\ sweep' = "done" /\ orphans' = {} /\ sound' = FALSE
    /\ UNCHANGED <<up, dir, log, whole, gen, old, acked, gone, crashes>>

\* An append raises.
SweepFails(t) ==
    /\ up /\ sweep = "on" /\ t \in orphans
    /\ Fault(Rec("interrupted", t))
    /\ sweep' = "done" /\ orphans' = {} /\ sound' = FALSE
    /\ UNCHANGED <<up, gen, old, gone, crashes>>

\* Mutant: it stops at the first orphan.
SweepEndsEarly ==
    /\ up /\ sweep = "on"
    /\ sweep' = "done" /\ orphans' = {}
    /\ UNCHANGED <<up, file, gen, history, counters>>

SweepEnds ==
    /\ up /\ sweep = "on" /\ orphans = {}
    /\ sweep' = "done"
    /\ UNCHANGED <<up, file, gen, orphans, history, counters>>

-----------------------------------------------------------------------------
(* The process *)

Dies ==
    /\ up /\ crashes < MaxCrashes
    /\ up' = FALSE
    /\ crashes' = crashes + 1
    /\ gen' = [t \in Turns |-> IF gen[t] = "live" THEN "over" ELSE gen[t]]
    /\ sweep' = "off" /\ orphans' = {}
    /\ UNCHANGED <<old, gone, faults>>

Crash == Dies /\ UNCHANGED <<file, sound, acked>>

\* ... in the middle of an append
CrashIn(r) == Dies /\ CutShort(r) /\ Watch

\* ... or of the sweep's rewrite of meta.json
CrashInStamp ==
    /\ sweep = "stamps" /\ Dies
    /\ meta' = FALSE
    /\ UNCHANGED <<dir, log, whole, sound, acked>>

Writable ==
    {Rec("started", t) : t \in {u \in Turns : MayStart(u)}}
        \cup {Rec(k, t) : k \in {"completed", "failed"}, t \in {u \in Turns : gen[u] = "live"}}
        \cup {Rec("interrupted", t) : t \in {u \in orphans : sweep = "on"}}

\* The boot schedules the sweep and goes on to serve.
Restart ==
    /\ ~up
    /\ up' = TRUE
    /\ sweep' = "due"
    /\ old' = {t \in Turns : gen[t] # "new"}
    /\ sound' = whole
    /\ UNCHANGED <<file, gen, orphans, acked, gone, counters>>

Next ==
    \/ \E t \in Turns :
        \/ StartTurn(t) \/ StartTurnFails(t) \/ Closed(t)
        \/ \E k \in {"completed", "failed"} : EndTurn(t, k) \/ EndTurnFails(t, k)
        \/ SweepWrites(t) \/ SweepFails(t)
    \/ Delete \/ DeleteFails
    \/ SweepFolds \/ SweepCannotRead \/ SweepStopsElsewhere
    \/ SweepReadsMeta \/ SweepStamps \/ SweepStampFails \/ SweepLosesDirectory \/ SweepEnds
    \/ Crash \/ CrashInStamp \/ \E r \in Writable : CrashIn(r)
    \/ Restart

Spec == Init /\ [][Next]_vars

-----------------------------------------------------------------------------
(* Properties *)

\* Each append that was cut costs the file at most one record a caller was
\* told is written: the one that went on the unfinished line.
DamageIsBounded == Cardinality(acked \ Records) <= crashes + faults

\* A booted portal that found no unfinished line here, and whose sweep came here
\* and through, has no orphan of an earlier process left once the sweep is done.
\* It does not come here when another conversation stops it, nor through when an
\* append or a rewrite of meta.json raises, also because the directory is gone.
SoundSweepLeavesNoOrphans == sweep = "done" /\ sound => InFlight \cap old = {}

\* An answer that is in the transcript stays the turn's answer, unless a sweep
\* that saw the turn in flight comes late, or the line was never finished.
AnswerStands ==
    [][\A t \in Turns : Status(t) = "completed" /\ whole /\ log' # <<>> /\ t \notin orphans
            => Status(t)' = "completed"]_vars

\* A deleted conversation never comes back to the API, though the end of a turn
\* that outlived it, or a sweep under way, makes its directory again; unless the
\* DELETE fell between the sweep's reading of meta.json and its rewriting.
DeletedStaysHidden == deleted /\ ~overtaken => ~meta

\* "A turn.completed record is immutable" (docs/conversation-memory.md:83). The
\* sweep of a booting portal runs beside the first turns of that portal, and
\* what it appends to a turn that completed meanwhile is the turn's last word.
CompletedIsImmutable ==
    [][\A t \in Turns : Status(t) = "completed" /\ whole /\ log' # <<>> => Status(t)' = "completed"]_vars

\* "One bad line never eats the log" (docs/conversation-memory.md:85): what a
\* caller was told is written can be read, but for one record for each cut.
OneBadLineNeverEatsTheLog ==
    Cardinality(acked \ (IF Readable THEN Records ELSE {})) <= crashes + faults

\* "so the sweep is idempotent" (conversations.py:17): when it is over, nothing
\* of an earlier process is in flight in a file that can be read, and a second
\* one finds nothing.
SweepLeavesNoOrphans == sweep = "done" /\ Readable => InFlight \cap old = {}

\* "At most one in-flight turn" (docs/conversation-memory.md:79)
OneInFlight == Cardinality(InFlight) <= 1

\* "rm the dir, it is forgotten" (conversations.py, delete)
ForgottenStaysForgotten == deleted => ~dir
=============================================================================
