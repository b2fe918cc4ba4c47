------------------------------- MODULE Frontend -------------------------------
(***************************************************************************)
(* The page (frontend/src: App.js, pages/create.js, pages/list.js) and the *)
(* palette handler it talks to: Palette, composed with one browser.  The   *)
(* page has a text, a button that fetches a palette for it, a place where  *)
(* the last palette is shown, and a second tab with a button that lists    *)
(* all of them.  Both tabs are mounted; what their effects put into the    *)
(* document by hand React knows nothing of.                                *)
(*                                                                         *)
(* React renders an update of a click or a key stroke, and runs its        *)
(* effects, before the next event; an update of a promise waits for a task *)
(* of its own, and keys may be pressed before that.  An exception in an    *)
(* effect takes the whole page away: there is no error boundary.           *)
(***************************************************************************)
EXTENDS Palette, SequencesExt

CONSTANTS
  Texts,      \* what the user may type
  MaxAsked,   \* bound: requests, of the page and of others
  MaxListed   \* bound: palettes in the list

ASSUME BrowserAssumption ==
  Texts \subseteq Bodies /\ MaxAsked \in Nat /\ MaxListed \in Nat

VARIABLES
  page,      \* "up", or "blank"
  text,      \* input_text
  asked,     \* the number of requests so far
  fetches,   \* bodies of requests on their way to the server
  own,       \* the request that the handler serves is one of the page's
  answers,   \* responses on their way to the page
  palettes,  \* palettes; render_json is true when there is one
  pending,   \* what setData was last given, if it has not been rendered
  data,      \* data as rendered
  shown,     \* the palettes whose items are in ".palette"
  listed     \* the palettes whose items are in ".listPalette"

network == <<fetches, own, answers>>
state   == <<page, text, asked, palettes, pending, data, shown, listed>>
appVars == <<vars, network, state>>

\* Neither the initial [] nor the undefined that an answer other than 200 leaves
\* is text that JSON.parse takes.
NoPalette == <<>>
Post(r)   == IF r.code = 200 THEN r.pairs ELSE NoPalette

AppInit ==
  /\ Init
  /\ page = "up" /\ text = <<>> /\ asked = 0
  /\ fetches = <<>> /\ own = FALSE /\ answers = <<>>
  /\ palettes = <<>> /\ pending = <<>> /\ data = NoPalette
  /\ shown = <<>> /\ listed = <<>>

-----------------------------------------------------------------------------
(* The effects. *)

Blank == page' = "blank" /\ shown' = <<>> /\ listed' = <<>>

\* Mutant: the items of the last palette are not removed.
ShowMore(p) ==
  IF palettes = <<>> THEN UNCHANGED <<page, shown, listed>>
  ELSE IF p = NoPalette THEN Blank
  ELSE shown' = Append(shown, p) /\ listed' = <<>> /\ UNCHANGED page

\* ShowPalette: nothing before render_json; after it every ".palette_item" of
\* the document goes, those of the list too.
ShowPalette(p) ==
  IF palettes = <<>> THEN UNCHANGED <<page, shown, listed>>
  ELSE IF p = NoPalette THEN Blank
  ELSE shown' = <<p>> /\ listed' = <<>> /\ UNCHANGED page

\* ShowPalettes: once more all of them, behind those that are there.
ShowPalettes ==
  IF NoPalette \in Range(palettes) THEN Blank
  ELSE listed' = listed \o palettes /\ UNCHANGED <<page, shown>>

-----------------------------------------------------------------------------
(* The page. *)

\* A key stroke renders CreateHeader with the data it has.
Type(t) ==
  /\ page = "up" /\ t # text
  /\ text' = t
  /\ ShowPalette(data)
  /\ UNCHANGED <<vars, network, asked, palettes, pending, data>>

\* create_palette
Generate ==
  /\ page = "up" /\ text # <<>> /\ asked < MaxAsked
  /\ asked' = asked + 1
  /\ fetches' = Append(fetches, text)
  /\ UNCHANGED <<vars, own, answers, page, text, palettes, pending, data, shown, listed>>

\* Mutant: an answer other than 200 is rendered, but is none of the palettes.
ArriveUnlisted(n) ==
  /\ answers' = RemoveAt(answers, n)
  /\ pending' = <<Post(answers[n])>>
  /\ palettes' = IF answers[n].code = 200 THEN Append(palettes, Post(answers[n]))
                 ELSE palettes
  /\ UNCHANGED <<vars, fetches, own, page, text, asked, data, shown, listed>>

\* The promise of create_palette: an answer other than 200 is undefined, and a
\* palette like the others.
Arrive(n) ==
  /\ answers' = RemoveAt(answers, n)
  /\ pending' = <<Post(answers[n])>>
  /\ palettes' = Append(palettes, Post(answers[n]))
  /\ UNCHANGED <<vars, fetches, own, page, text, asked, data, shown, listed>>

\* The connection breaks, or there is no server: nobody catches the rejection,
\* and nothing changes.
Reject ==
  /\ \/ /\ \E n \in DOMAIN fetches : fetches' = RemoveAt(fetches, n)
        /\ UNCHANGED answers
     \/ /\ \E n \in DOMAIN answers : answers' = RemoveAt(answers, n)
        /\ UNCHANGED fetches
  /\ UNCHANGED <<vars, own, state>>

\* React's own task.
Render ==
  /\ page = "up" /\ pending # <<>>
  /\ data' = pending[1] /\ pending' = <<>>
  /\ ShowPalette(data')
  /\ UNCHANGED <<vars, network, text, asked, palettes>>

\* forceUpdate renders ListContainer.
List ==
  /\ page = "up" /\ Len(listed) + Len(palettes) <= MaxListed
  /\ ShowPalettes
  /\ UNCHANGED <<vars, network, text, asked, palettes, pending, data>>

-----------------------------------------------------------------------------
(* The server. *)

Take(n) ==
  /\ HandleRequest("POST", fetches[n])
  /\ fetches' = RemoveAt(fetches, n) /\ own' = TRUE
  /\ UNCHANGED <<answers, state>>

TakeAnother ==
  /\ asked < MaxAsked /\ asked' = asked + 1
  /\ \E b \in Bodies, m \in {"GET", "POST"} : HandleRequest(m, b)
  /\ own' = FALSE
  /\ UNCHANGED <<fetches, answers, page, text, palettes, pending, data, shown, listed>>

Work ==
  /\ GetColor \/ GetPalette \/ NameFails \/ NameIsNonsense \/ GetName \/ NamesDone \/ Respond
  /\ UNCHANGED <<network, state>>

Reply ==
  /\ Return
  /\ answers' = IF own THEN Append(answers, reply) ELSE answers
  /\ own' = FALSE
  /\ UNCHANGED <<fetches, state>>

\* Nobody asks any more.
AppDone ==
  /\ phase = "died" \/ (phase = "idle" /\ asked = MaxAsked)
  /\ fetches = <<>> /\ answers = <<>>
  /\ UNCHANGED appVars

AppNext ==
  \/ \E t \in Texts : Type(t)
  \/ Generate \/ Reject \/ Render \/ List
  \/ \E n \in DOMAIN answers : Arrive(n)
  \/ \E n \in DOMAIN fetches : Take(n)
  \/ TakeAnother \/ Work \/ Reply \/ AppDone

\* Sockets are served in turn; a service, the network and React take their time;
\* where there is no server a fetch fails.
AppSpec ==
  /\ AppInit /\ [][AppNext]_appVars
  /\ WF_appVars(Work) /\ WF_appVars(Reply)
  /\ WF_appVars(\E n \in DOMAIN fetches : Take(n))
  /\ WF_appVars(\E n \in DOMAIN answers : Arrive(n))
  /\ WF_appVars(phase = "died" /\ Reject)
  /\ WF_appVars(Render)

-----------------------------------------------------------------------------
(* What the code keeps true. *)

\* Only an answer other than 200 takes the page away (a text the server refuses
\* is enough), or a key that is pressed between the first palette's arrival and
\* its rendering.
PageKept ==
  [][page' # page => NoPalette \in Range(palettes) \/ data = NoPalette]_appVars

\* The page shows the palette that arrived last, and only that, whatever is
\* typed or listed meanwhile; answers may overtake each other.
ShowsLatest ==
  page = "up" /\ pending = <<>> /\ palettes # <<>> => shown = <<Last(palettes)>>

\* Whatever is asked, by whomever, every fetch of the page ends: none stays on
\* its way, in the handler, unless the server has died of it, or on its way back,
\* and the last that was answered is rendered, unless the page is gone.
Settles ==
  <>[](/\ fetches = <<>> /\ answers = <<>>
       /\ (own => phase = "died")
       /\ (pending = <<>> \/ page = "blank"))
=============================================================================
