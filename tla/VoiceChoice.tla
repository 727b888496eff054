---------------------------- MODULE VoiceChoice ----------------------------
(***************************************************************************)
(* What may change the voice of a profile, all at once: the setup of a     *)
(* voice, the voice browser, the wizard that takes the user's own voice    *)
(* (onboarding/, core/audioValidation.ts) and the profile editor           *)
(* (views/profileEditor/, media/profileEditor/).                           *)
(*                                                                         *)
(* One profile is selected and edited.  Writing it is one step here;       *)
(* ProfileStore.tla takes it apart.  The voice stands for every field that *)
(* the form shows and writes as it is shown, the reference for every field *)
(* it does not show and carries over; the parameters, and what the form    *)
(* writes of the Markdown without asking, are fields of their own.         *)
(***************************************************************************)
EXTENDS Integers

CONSTANTS
  Wizards        \* bound: runs of the own voice wizard under way at once

VARIABLES
  selected,      \* the selected profile
  recording,     \* for each run, the file a recorder is told to write
  wizard,        \* the runs of the wizard
  form           \* the profile editor

voiceVars == << selected, recording, wizard, form >>

(* A sample is a quality: too short to be used, usable, useless (silent or *)
(* too long), or in a format that cannot be looked into.  "none": there is *)
(* no file.                                                                *)
Quality  == {"none", "short", "usable", "useless", "opaque"}
Voice    == {"none", "picked"}

(* A reference: what its file holds, and, as history, whether the recorder *)
(* was still writing it and whether the user took it unverified.           *)
Reference   == [holds : Quality, live : BOOLEAN, waived : BOOLEAN]
NoReference == [holds |-> "none", live |-> FALSE, waived |-> FALSE]

(* The parameters of the voice: none at all, those the provider describes  *)
(* as its defaults, others.  Headings, links and front matter are read the *)
(* usual way or not.                                                       *)
VoiceProfile == [voice : Voice, reference : Reference,
                 parameters : {"none", "defaults", "own"}, markdown : {"usual", "own"}]
Wizard  == [at : {"idle", "wait", "located", "checked"}, holds : Quality, recorded : BOOLEAN,
            copied : BOOLEAN, waived : BOOLEAN]
NoWizard == [at |-> "idle", holds |-> "none", recorded |-> FALSE, copied |-> FALSE, waived |-> FALSE]

(* `base` is loadedProfile, `listed` tells whether the provider described  *)
(* the parameters.  `since`, history: nothing has become of the profile    *)
(* since, or the form has saved it, or others have changed it.             *)
Form == [at : {"closed", "open", "saving"}, base : VoiceProfile, shown : VoiceProfile,
         listed : BOOLEAN, since : {"nothing", "saved", "changed"}]
NoProfile == [voice |-> "none", reference |-> NoReference, parameters |-> "none", markdown |-> "usual"]
NoForm    == [at |-> "closed", base |-> NoProfile, shown |-> NoProfile, listed |-> FALSE,
              since |-> "nothing"]

VoiceInit ==
  /\ selected \in VoiceProfile /\ selected.reference = NoReference
  /\ recording = [w \in Wizards |-> "none"] /\ wizard = [w \in Wizards |-> NoWizard]
  /\ form = NoForm

(* profiles.update() for the selected profile.                             *)
Update(p) ==
  selected' = p /\ form' = IF form.at = "closed" THEN form ELSE [form EXCEPT !.since = "changed"]

Takes(w, r) == wizard' = [wizard EXCEPT ![w] = r]
-----------------------------------------------------------------------------
(* setupVoice(): the choice replaces the whole binding at once, whatever   *)
(* becomes of the dialog or of the installation that follows.              *)
SetupVoice ==
  /\ Update([NoProfile EXCEPT !.markdown = selected.markdown])
  /\ UNCHANGED << recording, wizard >>

(* browseVoices(), once a voice is picked: only the voice is replaced.     *)
BrowseVoices ==
  /\ Update([selected EXCEPT !.voice = "picked"])
  /\ UNCHANGED << recording, wizard >>
-----------------------------------------------------------------------------
(* The recorder, in a terminal of the user's.  What it writes once the run *)
(* it was started for is over is left out: nobody reads it.                *)
Recorder(w) ==
  /\ \E holds \in {"short", "usable", "useless"} :
       /\ << recording[w], holds >> \in
            {<< "none", "short" >>, << "short", "usable" >>, << "short", "useless" >>, << "usable", "useless" >>}
       /\ wizard[w].at # "idle" /\ (recording[w] = "none" => wizard[w].at = "wait")
       /\ recording' = [recording EXCEPT ![w] = holds]
  /\ UNCHANGED << selected, wizard, form >>

(* useOwnVoice(): consent, then a file of the user's or a recording, which *)
(* has a path of its own.                                                  *)
Begins(w, holds) ==
  /\ wizard[w].at = "idle"
  /\ Takes(w, IF holds = "none" THEN [NoWizard EXCEPT !.at = "wait", !.recorded = TRUE]
              ELSE [NoWizard EXCEPT !.at = "located", !.holds = holds])
  /\ UNCHANGED << selected, recording, form >>

(* waitForFile(): until the file is there, finished or not.                *)
Appeared(w) ==
  /\ wizard[w].at = "wait" /\ recording[w] # "none"
  /\ Takes(w, [wizard[w] EXCEPT !.at = "located", !.holds = recording[w]])
  /\ UNCHANGED << selected, recording, form >>

(* The wizard is left: a dialog is dismissed, the time is up, an error.    *)
Leaves(w) ==
  /\ wizard[w].at # "idle" /\ Takes(w, NoWizard)
  /\ recording' = [recording EXCEPT ![w] = "none"]
  /\ UNCHANGED << selected, form >>

Now(w) == IF wizard[w].recorded THEN recording[w] ELSE wizard[w].holds

(* ffmpeg, where there is one, makes a copy that does not grow any more,   *)
(* and can be looked into.  Everything that can be is validated; the rest  *)
(* only if the user insists.  Faulty variant: it is taken as it is.        *)
SufficientAnyway(holds) == TRUE
Sufficient(holds)       == holds = "usable"

Validated(w, converted) ==
  LET r == wizard[w] IN
  /\ r.at = "located"
  /\ \E holds \in IF Now(w) = "opaque" /\ converted THEN {"short", "usable", "useless"} ELSE {Now(w)} :
        /\ holds = "opaque" \/ Sufficient(holds)
        /\ Takes(w, [r EXCEPT !.at = "checked", !.holds = holds, !.copied = converted,
                              !.waived = holds = "opaque"])
  /\ UNCHANGED << selected, recording, form >>

(* What was not converted is copied now, and the profile selected by now   *)
(* gets it; then the voice is previewed.                                   *)
Applied(w) ==
  LET r     == wizard[w]
      holds == IF r.copied THEN r.holds ELSE Now(w)
  IN
  /\ r.at = "checked" /\ Takes(w, NoWizard)
  /\ Update([selected EXCEPT !.reference =
              [holds |-> holds, live |-> holds # r.holds, waived |-> r.waived]])
  /\ recording' = [recording EXCEPT ![w] = "none"]
-----------------------------------------------------------------------------
(* sendLoad(): the profile, and its parameters if the provider answers.    *)
OpenForm(listed) ==
  /\ form.at = "closed"
  /\ form' = [NoForm EXCEPT !.at = "open", !.base = selected, !.shown = selected, !.listed = listed]
  /\ UNCHANGED << selected, recording, wizard >>

(* The fields, and the voice that its own browser selected.                *)
EditForm ==
  /\ form.at = "open"
  /\ \E v \in Voice : form' = [form EXCEPT !.shown.voice = v]
  /\ UNCHANGED << selected, recording, wizard >>

(* There is an input for each parameter that was described, and no other.  *)
collectParameterValues ==
  IF ~ form.listed THEN "none" ELSE IF form.base.parameters = "own" THEN "own" ELSE "defaults"

(* collectFormProfile(): what the form shows, over the profile it loaded.  *)
(* Faulty variant: not over anything.                                      *)
CollectShown ==
  [voice |-> form.shown.voice, reference |-> NoReference,
   parameters |-> collectParameterValues, markdown |-> "usual"]
CollectFormProfile ==
  [form.base EXCEPT !.voice = form.shown.voice,
                    !.parameters = collectParameterValues, !.markdown = "usual"]

(* Bound: one save under way at a time, which the page does not ensure.    *)
Submit ==
  /\ form.at = "open" /\ form' = [form EXCEPT !.at = "saving", !.shown = CollectFormProfile]
  /\ UNCHANGED << selected, recording, wizard >>

(* handleSave(): refused, or written over the profile there is by now; the *)
(* form stays open, on the profile it loaded first.                        *)
HandleSave ==
  /\ form.at = "saving"
  /\ \/ UNCHANGED selected /\ form' = [form EXCEPT !.at = "open"]
     \/ /\ selected' = form.shown
        /\ form' = [form EXCEPT !.at = "open", !.since = IF @ = "nothing" THEN "saved" ELSE @]
  /\ UNCHANGED << recording, wizard >>

CloseForm ==
  /\ form.at = "open" /\ form' = NoForm
  /\ UNCHANGED << selected, recording, wizard >>

VoiceNext ==
  \/ SetupVoice \/ BrowseVoices
  \/ \E w \in Wizards :
       \/ Recorder(w) \/ Appeared(w) \/ Leaves(w) \/ Applied(w)
       \/ \E holds \in Quality : Begins(w, holds)
       \/ \E converted \in BOOLEAN : Validated(w, converted)
  \/ \E listed \in BOOLEAN : OpenForm(listed)
  \/ EditForm \/ Submit \/ HandleSave \/ CloseForm

VoiceSpec == VoiceInit /\ [][VoiceNext]_voiceVars
-----------------------------------------------------------------------------
VoiceTypeOK ==
  /\ selected \in VoiceProfile /\ recording \in [Wizards -> Quality \ {"opaque"}]
  /\ wizard \in [Wizards -> Wizard] /\ form \in Form

(* A reference the profile ever gets is a sample that was found usable, or *)
(* that the user took unverified, unless its recorder was still at work    *)
(* when it was copied (runUseOwnVoiceFlow): neither the editor nor another *)
(* run of the wizard brings a refused one in.                              *)
ReferenceSound ==
  selected.reference # NoReference =>
     \/ selected.reference.holds = "usable" \/ selected.reference.live
     \/ selected.reference.waived /\ selected.reference.holds = "opaque"

(* collectFormProfile(), over any number of saves of one form, as long as  *)
(* nobody else changes the profile: the reference stays, parameters of the *)
(* user's own stay if the provider described them, and from the second     *)
(* save on nothing changes but what the form shows.  The first one gives   *)
(* the profile the parameters that were described, none if none were, and  *)
(* the usual headings, links and front matter whatever they were           *)
(* (profileEditor.js:165-178): not all "fields this form does not expose   *)
(* [...] are carried over unchanged" (profileEditor.js:37).                *)
FormKeepsTheRest ==
  [][form.at = "saving" /\ form'.at = "open" /\ form.since # "changed" =>
       /\ selected'.reference = selected.reference
       /\ form.listed /\ selected.parameters = "own" => selected'.parameters = "own"
       /\ form.since = "saved" => selected' = [selected EXCEPT !.voice = selected'.voice]]_voiceVars

(* Both, of the voice of a profile whoever changes it.                     *)
VoiceKept == []ReferenceSound /\ FormKeepsTheRest
=============================================================================
