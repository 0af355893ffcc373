----------------------------- MODULE Onboarding -----------------------------
(***************************************************************************)
(* The conversation of one user with the bot about search profiles: the    *)
(* prompt that waits for a text (app.py), drafts from a description with   *)
(* the shared analysis cache (ProfileOnboardingService), and the drafts    *)
(* and settings that are edited and confirmed by revision                  *)
(* (ProfileConfirmationService over SearchProfileRepository).  Telethon    *)
(* runs the handlers of several messages at once, so that every await is   *)
(* a place where others go on.                                             *)
(***************************************************************************)
EXTENDS Naturals

CONSTANTS
    Profiles, NoProfile,
    Descriptions,       \* texts, as the cache tells them apart
    Answers,            \* what the analyzer may make of one
    TermFields,         \* fields of a draft: roles, skills, categories
    PreferenceFields,   \* settings: work types, budget, languages, ...
    Handlers,           \* messages and callbacks in progress at once
    MaxRevision         \* bound on the revisions of a profile

Fields == TermFields \cup PreferenceFields

ASSUME OnboardingAssumption ==
    /\ NoProfile \notin Profiles
    /\ TermFields \cap PreferenceFields = {}
    /\ {"none", "manual"} \cap (Descriptions \cup Answers \cup Fields) = {}
    /\ MaxRevision \in Nat \ {0}

VARIABLES
    pending,    \* _pending_navigation_inputs of the user, in the memory of the process
    handler,    \* what each handler is at
    cache,      \* search_profile_analysis_cache
    profile,    \* search_profiles; written[f] is the revision that set field f
    asked,      \* history: the prompt the user has open
    overlapped, \* history: a text sent under an earlier one was in progress when it opened
    accepted,   \* history: the revision of the last accepted edit of each field
    confirmedAs,\* history: the revision on the button that confirmed a profile
    ahead       \* history: profiles edited under a revision that did not exist yet

vars == <<pending, handler, cache, profile, asked, overlapped, accepted, confirmedAs, ahead>>
history == <<asked, overlapped, accepted, confirmedAs, ahead>>
rows == <<cache, profile>>

Revisions == 0..MaxRevision
Prompt == [kind : {"none", "ai", "field"}, of : Profiles \cup {NoProfile}, revision : Revisions,
           field : Fields \cup {"none"}]
NoPrompt == [kind |-> "none", of |-> NoProfile, revision |-> 0, field |-> "none"]
Row == [status : {"absent", "draft", "confirmed"}, revision : Revisions,
        from : Descriptions \cup {"none", "manual"}, answer : Answers \cup {"none"},
        written : [Fields -> Revisions]]
Handler == [pc : {"idle", "look", "ask", "save", "create", "load", "check", "store", "reply"},
            op : {"none", "draft", "edit", "prefer", "confirm"}, prompt : Prompt,
            of : Profiles \cup {NoProfile}, revision : Revisions,
            field : Fields \cup {"none"}, text : Descriptions \cup {"none", "manual"},
            answer : Answers \cup {"none"}, read : [Fields -> Revisions], readAt : Revisions]
Idle == [pc |-> "idle", op |-> "none", prompt |-> NoPrompt, of |-> NoProfile, revision |-> 0,
         field |-> "none", text |-> "none", answer |-> "none",
         read |-> [f \in Fields |-> 0], readAt |-> 0]
Absent == [status |-> "absent", revision |-> 0, from |-> "none", answer |-> "none",
           written |-> [f \in Fields |-> 0]]

Init == /\ pending = NoPrompt /\ asked = NoPrompt /\ overlapped = FALSE
        /\ handler = [h \in Handlers |-> Idle]
        /\ cache = [d \in Descriptions |-> "none"]
        /\ profile = [p \in Profiles |-> Absent]
        /\ accepted = [p \in Profiles |-> [f \in Fields |-> 0]]
        /\ confirmedAs = [p \in Profiles |-> 0]
        /\ ahead = {}

Exists(p) == profile[p].status # "absent"
Operation(f) == IF f \in TermFields THEN "edit" ELSE "prefer"
Ends(h) == handler' = [handler EXCEPT ![h] = Idle]
Goes(h, pc) == handler' = [handler EXCEPT ![h].pc = pc]
Done(h) == handler' = [handler EXCEPT ![h] = [Idle EXCEPT !.pc = "reply", !.prompt = handler[h].prompt]]

-----------------------------------------------------------------------------
(* What the user does.  A button carries the revision its screen showed; a *)
(* screen that is older by the time is one pressed early and handled late. *)
(* A command may name the next revision as well.                           *)

Opens(q) ==
    /\ pending' = q /\ asked' = q
    /\ overlapped' = (q # NoPrompt /\ \E h \in Handlers : handler[h].prompt # NoPrompt)
Closes == Opens(NoPrompt)

(* nav:profile:new and nav:edit; nav:home, nav:cancel and the other menus. *)
OpensPrompt ==
    /\ \/ Opens([NoPrompt EXCEPT !.kind = "ai"])
       \/ \E p \in {q \in Profiles : Exists(q)}, f \in Fields :
             Opens([kind |-> "field", of |-> p, revision |-> profile[p].revision, field |-> f])
       \/ Closes
    /\ UNCHANGED <<handler, rows, accepted, confirmedAs, ahead>>

(* Bounds: a draft is begun while there is a profile left to be made, and  *)
(* no revision is named that cannot be edited.                              *)
Starts(h, task) ==
    /\ handler[h].pc = "idle" /\ handler' = [handler EXCEPT ![h] = task]
    /\ task.op = "draft" => \E p \in Profiles : ~Exists(p)
    /\ task.revision < MaxRevision

(* navigation_text_input: the prompt is read and stays open.               *)
TextArrives(h) ==
    /\ \/ /\ pending.kind = "ai"
          /\ \E d \in Descriptions :
                Starts(h, [Idle EXCEPT !.pc = "look", !.op = "draft", !.prompt = pending, !.text = d])
       \/ /\ pending.kind = "field"
          /\ Starts(h, [Idle EXCEPT !.pc = "load", !.op = Operation(pending.field),
                           !.prompt = pending, !.of = pending.of,
                           !.revision = pending.revision, !.field = pending.field])
    /\ UNCHANGED <<pending, rows, history>>

(* /profile, /profile_edit, /profile_setting and the buttons of a profile. *)
(* /profile_manual and the buttons of the menus close the prompt first;    *)
(* there are buttons for work types and for the confirmation.              *)
CommandArrives(h) ==
    /\ \/ \E d \in Descriptions :
            Starts(h, [Idle EXCEPT !.pc = "look", !.op = "draft", !.text = d])
       \/ Starts(h, [Idle EXCEPT !.pc = "create", !.op = "draft", !.text = "manual"])
       \/ \E p \in {q \in Profiles : Exists(q)} : \E r \in {profile[p].revision, profile[p].revision + 1} :
            \/ \E f \in Fields :
                 Starts(h, [Idle EXCEPT !.pc = "load", !.op = Operation(f), !.of = p,
                               !.revision = r, !.field = f])
            \/ Starts(h, [Idle EXCEPT !.pc = "load", !.op = "confirm", !.of = p, !.revision = r])
    /\ \/ handler'[h].pc \in {"create", "load"} /\ handler'[h].op # "edit" /\ Closes
       \/ handler'[h].pc # "create" /\ UNCHANGED <<pending, asked, overlapped>>
    /\ UNCHANGED <<rows, accepted, confirmedAs, ahead>>

-----------------------------------------------------------------------------
(* create_from_description                                                 *)

(* A cached analysis of the description is used; else the analyzer is asked. *)
LooksUp(h) ==
    LET t == handler[h]
    IN  /\ t.pc = "look"
        /\ handler' = [handler EXCEPT ![h].pc = IF cache[t.text] = "none" THEN "ask" ELSE "create",
                                      ![h].answer = cache[t.text]]
        /\ UNCHANGED <<pending, rows, history>>

Asks(h) ==
    /\ handler[h].pc = "ask"
    /\ \E a \in Answers : handler' = [handler EXCEPT ![h].pc = "save", ![h].answer = a]
    /\ UNCHANGED <<pending, rows, history>>

KeptOwn(d, a) == a            \* the handler goes on with its own answer
(* The record that is in the cache afterwards, whoever wrote it.           *)
Kept(d, a) == IF cache[d] = "none" THEN a ELSE cache[d]

SavesAnalysis(h) ==
    LET t == handler[h]
    IN  /\ t.pc = "save"
        /\ cache' = [cache EXCEPT ![t.text] = IF @ = "none" THEN t.answer ELSE @]
        /\ handler' = [handler EXCEPT ![h].pc = "create", ![h].answer = Kept(t.text, t.answer)]
        /\ UNCHANGED <<pending, profile, history>>

(* The draft under a new identifier, with the terms of the analysis.       *)
CreatesDraft(h) ==
    LET t == handler[h]
    IN  /\ t.pc = "create"
        /\ \E p \in Profiles :
             /\ ~Exists(p)
             /\ profile' = [profile EXCEPT ![p] =
                   [status |-> "draft", revision |-> 1, from |-> t.text, answer |-> t.answer,
                    written |-> [f \in Fields |-> 1]]]
             /\ accepted' = [accepted EXCEPT ![p] = [f \in Fields |-> 1]]
        /\ Done(h)
        /\ UNCHANGED <<pending, cache, asked, overlapped, confirmedAs, ahead>>

-----------------------------------------------------------------------------
(* Edits, settings and confirmation: the row is read, then updated under a *)
(* condition on what it is by then.                                        *)

(* An edit is made of the terms it reads, a setting of the other settings. *)
Read(t) == [f \in Fields |-> IF Operation(f) = t.op THEN profile[t.of].written[f] ELSE 0]

(* edit_terms and update_preferences read the row the new one is made of.  *)
LoadsRow(h) ==
    LET t == handler[h]
    IN  /\ t.pc = "load" /\ t.op \in {"edit", "prefer"}
        /\ handler' = [handler EXCEPT ![h].pc = IF t.op = "edit" THEN "check" ELSE "store",
                                      ![h].read = Read(t),
                                      ![h].readAt = profile[t.of].revision]
        /\ UNCHANGED <<pending, rows, history>>

(* edit reads it again, for the status and the settings.                   *)
ChecksDraft(h) ==
    LET t == handler[h]
    IN  /\ t.pc = "check" /\ profile[t.of].status = "draft"
        /\ handler' = [handler EXCEPT ![h].pc = "store",
              ![h].read = [f \in Fields |-> IF f \in TermFields THEN t.read[f]
                                            ELSE profile[t.of].written[f]]]
        /\ UNCHANGED <<pending, rows, history>>

(* confirm: a confirmed profile is answered as it is.                      *)
LoadsForConfirmation(h) ==
    LET t == handler[h]
    IN  /\ t.pc = "load" /\ t.op = "confirm"
        /\ \/ profile[t.of].status = "confirmed" /\ Done(h)
           \/ /\ profile[t.of].status = "draft" /\ profile[t.of].revision = t.revision
              /\ Goes(h, "store")
        /\ UNCHANGED <<pending, rows, history>>

MatchesAny(t) == profile[t.of].status = "draft" \/ t.op = "prefer"
MatchesUnconfirmed(t) == profile[t.of].revision = t.revision
(* The WHERE clause of the update.                                         *)
Matches(t) == /\ profile[t.of].revision = t.revision
              /\ profile[t.of].status = "draft" \/ t.op = "prefer"

Updated(t) ==
    CASE t.op = "confirm" -> [profile[t.of] EXCEPT !.status = "confirmed", !.revision = @ + 1]
      [] t.op = "edit"    -> [profile[t.of] EXCEPT !.revision = @ + 1,
                                !.written = [t.read EXCEPT ![t.field] = profile[t.of].revision + 1]]
      [] t.op = "prefer"  -> [profile[t.of] EXCEPT !.revision = @ + 1,
                                !.written = [f \in Fields |->
                                   CASE f = t.field -> profile[t.of].revision + 1
                                     [] f \in TermFields -> @[f]
                                     [] OTHER -> t.read[f]]]

StoresRow(h) ==
    LET t == handler[h]
    IN  /\ t.pc = "store" /\ Matches(t) /\ profile[t.of].revision < MaxRevision
        /\ profile' = [profile EXCEPT ![t.of] = Updated(t)]
        /\ accepted' = IF t.op = "confirm" THEN accepted
                       ELSE [accepted EXCEPT ![t.of][t.field] = profile[t.of].revision + 1]
        /\ confirmedAs' = IF t.op = "confirm" THEN [confirmedAs EXCEPT ![t.of] = t.revision]
                          ELSE confirmedAs
        /\ ahead' = IF t.op # "confirm" /\ t.readAt < t.revision THEN ahead \cup {t.of} ELSE ahead
        /\ Done(h)
        /\ UNCHANGED <<pending, cache, asked, overlapped>>

ConfirmedMeanwhile(h) ==
    LET t == handler[h]
    IN  /\ t.pc = "store" /\ t.op = "confirm" /\ profile[t.of].status = "confirmed"
        /\ Done(h)
        /\ UNCHANGED <<pending, rows, history>>

(* activate_primary and deactivate, which lock the row; their other        *)
(* effects are those of Matching.                                          *)
SwitchesSearch(p) ==
    /\ profile[p].status = "confirmed" /\ profile[p].revision < MaxRevision
    /\ profile' = [profile EXCEPT ![p].revision = @ + 1]
    /\ UNCHANGED <<pending, handler, cache, history>>

-----------------------------------------------------------------------------
(* The end of a handler                                                    *)

(* pop: the prompt that is open now, which need not be the one it read.    *)
ClosesPrompt(h) ==
    IF handler[h].prompt = NoPrompt THEN UNCHANGED <<pending, asked, overlapped>>
    ELSE /\ pending' = NoPrompt /\ overlapped' = FALSE
         /\ asked' = IF overlapped \/ asked = handler[h].prompt THEN NoPrompt ELSE asked

Replies(h) ==
    /\ handler[h].pc = "reply"
    /\ ClosesPrompt(h) /\ Ends(h)
    /\ UNCHANGED <<rows, accepted, confirmedAs, ahead>>

(* SearchProfileEditConflict: the row has changed, or is confirmed.        *)
MeetsConflict(h) ==
    LET t == handler[h]
    IN  /\ \/ t.pc = "check" /\ profile[t.of].status # "draft"
           \/ t.pc = "load" /\ t.op = "confirm" /\ profile[t.of].status = "draft"
                /\ profile[t.of].revision # t.revision
           \/ t.pc = "store" /\ ~Matches(t)
                /\ ~(t.op = "confirm" /\ profile[t.of].status = "confirmed")
        /\ ClosesPrompt(h) /\ Ends(h)
        /\ UNCHANGED <<rows, accepted, confirmedAs, ahead>>

LeavesAndCloses(h) == pending' = NoPrompt /\ UNCHANGED <<asked, overlapped>>
LeavesPrompt(h) == UNCHANGED <<pending, asked, overlapped>>

(* The analyzer fails, the value is refused, a statement fails, also after *)
(* the update: the user may send the text again.                           *)
GivesUp(h) ==
    /\ handler[h].pc # "idle"
    /\ LeavesPrompt(h) /\ Ends(h)
    /\ UNCHANGED <<rows, accepted, confirmedAs, ahead>>

Restarts ==
    /\ handler' = [h \in Handlers |-> Idle]
    /\ Closes
    /\ UNCHANGED <<rows, accepted, confirmedAs, ahead>>

Next ==
    \/ OpensPrompt \/ Restarts
    \/ \E p \in Profiles : SwitchesSearch(p)
    \/ \E h \in Handlers :
         \/ TextArrives(h) \/ CommandArrives(h)
         \/ LooksUp(h) \/ Asks(h) \/ SavesAnalysis(h) \/ CreatesDraft(h)
         \/ LoadsRow(h) \/ ChecksDraft(h) \/ LoadsForConfirmation(h)
         \/ StoresRow(h) \/ ConfirmedMeanwhile(h)
         \/ Replies(h) \/ MeetsConflict(h) \/ GivesUp(h)

Spec == Init /\ [][Next]_vars

-----------------------------------------------------------------------------
(* Rows are those the tables allow: a profile that exists has a revision,  *)
(* and no field was set later than that.                                   *)
TypeOK ==
    /\ {pending, asked} \subseteq Prompt /\ overlapped \in BOOLEAN
    /\ handler \in [Handlers -> Handler]
    /\ cache \in [Descriptions -> Answers \cup {"none"}]
    /\ profile \in [Profiles -> Row]
    /\ \A p \in Profiles : /\ Exists(p) <=> profile[p].revision > 0
                           /\ \A f \in Fields : profile[p].written[f] <= profile[p].revision
    /\ accepted \in [Profiles -> [Fields -> Revisions]]
    /\ confirmedAs \in [Profiles -> Revisions]
    /\ ahead \subseteq Profiles

(* Every edit and setting that was accepted is still there, however edits  *)
(* of other fields, settings and confirmations met it.  The update         *)
(* compares the revision the user named and not the one it read, so an     *)
(* edit sent ahead, under the revision its predecessor is about to make,   *)
(* may write back what it read before (edit_terms, _update_preferences).   *)
EditsAreNotLost ==
    \A p \in Profiles : p \notin ahead => profile[p].written = accepted[p]

(* A confirmed profile has the terms of the revision on the button that    *)
(* confirmed it: no edit that was in progress comes in after (confirm and  *)
(* edit of SearchProfileRepository).                                       *)
ConfirmedAsShown ==
    \A p \in Profiles : profile[p].status = "confirmed"
        => \A f \in TermFields : profile[p].written[f] <= confirmedAs[p]

(* Two users, or one in two messages, may have one description analysed at *)
(* once and differently: both drafts have the terms of the analysis they   *)
(* name, the one in the cache (create_from_description).                   *)
DraftKeepsItsAnalysis ==
    \A p \in Profiles : profile[p].from \in Descriptions
        => profile[p].answer = cache[profile[p].from]

(* A prompt stays open until its text was accepted or met a conflict, the  *)
(* user leaves it or the bot restarts: after a failure the text can be     *)
(* sent again.  It is closed unasked only if, when it was opened, a text    *)
(* sent under an earlier prompt was in progress (navigation_text_input).   *)
PromptStaysOpen == pending = asked \/ overlapped
=============================================================================
