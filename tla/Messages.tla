------------------------------ MODULE Messages ------------------------------
(***************************************************************************)
(* Window_Message and the interpreters that speak through it: the frame of *)
(* Game_Map::Update with the parallel interpreters first, the window after *)
(* them and the foreground interpreter last, all on one message window.    *)
(*                                                                         *)
(* A text is a sequence of tokens: a narrow and a wide glyph "c" and "w",  *)
(* the pause "!", the code "^" that ends a page without a key, line break  *)
(* "n" and page break "f". How long a token waits is a choice out of Waits *)
(* (speed, width and place on the line decide in the code). Faces, colours *)
(* and the gold window are left out, so are the keys of the debug mode.    *)
(***************************************************************************)
EXTENDS Naturals, Sequences, SequencesExt

CONSTANTS
  Foreground,  \* the foreground interpreter
  Parallels,   \* the parallel interpreters of map events, in their order
  Changing,    \* those of them that have several pages
  Says,        \* what each of them may say
  MaxLines,    \* GetMaxLinesPerPage
  OpenFrames,  \* message_animation_frames, on the map
  Waits,       \* bound: the frames that a token may wait
  NoOne

ASSUME MessagesAssumption ==
  /\ Parallels \in Seq(ToSet(Parallels)) /\ Parallels # <<>>
  /\ Changing \subseteq ToSet(Parallels)
  /\ MaxLines \in Nat \ {0} /\ OpenFrames \in Nat \ {0, 1} /\ Waits \subseteq Nat
  /\ Foreground \notin ToSet(Parallels) /\ NoOne \notin ToSet(Parallels) \cup {Foreground}

Speakers == ToSet(Parallels) \cup {Foreground}

VARIABLES
  pc, who,  \* where in the frame, and which parallel interpreter
  inn,      \* where the frame goes on after the night at an inn, or "none"
  window,   \* Window_Message
  text,     \* its text from text_index on
  message,  \* its pending_message, and whether its speaker's page has changed
  speaker,  \* the interpreters: where each is and its subcommand index
  drawn,    \* history: the glyphs of the message drawn so far
  page,     \* history: rows of the page, the player has read it, "^" was met
  answer,   \* history: what the player chose when a speaker asked last
  outdated  \* history: the subcommand index is an answer to a former page

history == <<drawn, page, answer, outdated>>
shown == <<window, text, message, drawn, page>>
vars == <<pc, who, inn, shown, speaker, answer, outdated>>

subcommand_sentinel == 255
Silence == [kind |-> "talk", lines |-> <<>>, choices |-> <<>>, cancel |-> 0, digits |-> 0]
NoMessage == [asker |-> NoOne, say |-> Silence, former |-> FALSE]

-----------------------------------------------------------------------------
(* The text of a message *)

Tokens == {"c", "w", "!", "^", "n", "f"}
IsGlyph(t) == t \in {"c", "w"}

AppendLine(acc, line) ==
  LET force_page_break == line # <<>> /\ Last(line) = "f"
      full == force_page_break \/ acc.rows + 1 = MaxLines
  IN [text |-> acc.text \o (IF force_page_break THEN Front(line) ELSE line)
                 \o (IF full THEN <<"n", "f">> ELSE <<"n">>),
      rows |-> IF full THEN 0 ELSE acc.rows + 1]

(* A choice is one more line, of one glyph. *)
LinesOf(say) == say.lines \o [i \in DOMAIN say.choices |-> <<"c">>]

AppendLines(lines) ==
  LET upTo[n \in 0 .. Len(lines)] ==
        IF n = 0 THEN [text |-> <<>>, rows |-> 0] ELSE AppendLine(upTo[n - 1], lines[n])
  IN upTo[Len(lines)]

TextOf(say) ==
  LET t == AppendLines(LinesOf(say)).text
  IN IF t # <<>> /\ Last(t) = "f" THEN t ELSE Append(t, "f")

IsActive(say) == LinesOf(say) # <<>> \/ say.digits > 0

(* A question that does not fit below the lines becomes a message of its   *)
(* own.                                                                    *)
Fits(say) == IF say.digits > 0 THEN Len(say.lines) < MaxLines
             ELSE Len(say.choices) <= MaxLines - Len(say.lines)
Shown(say) == IF say.lines = <<>> \/ Fits(say) THEN say
              ELSE [say EXCEPT !.choices = <<>>, !.digits = 0]
Left(say) == IF Shown(say) = say THEN Silence ELSE [say EXCEPT !.lines = <<>>]

Options(say) == {i - 1 : i \in DOMAIN say.choices} \cup (IF say.cancel = 5 THEN {4} ELSE {})

(* What an interpreter may say: PushLineImpl takes control characters out  *)
(* of a line, PushPageEnd puts a page break at its end; the choices of an  *)
(* inn fit below its lines, and one that is free says nothing; a raise in  *)
(* level asks nothing; and canceling a question, where it is allowed, has  *)
(* an option in the commands.                                              *)
Sayings == [kind : {"talk", "inn", "free inn", "level"}, lines : Seq(Seq(Tokens \ {"n"})),
            choices : Seq(BOOLEAN), cancel : 0 .. 5, digits : Nat]
Sayable(say) ==
  /\ say \in Sayings
  /\ \A i \in DOMAIN say.lines :
       \A j \in DOMAIN say.lines[i] : say.lines[i][j] = "f" => j = Len(say.lines[i])
  /\ say.kind = "inn" => Len(say.choices) = 2 /\ say.digits = 0 /\ Fits(say)
  /\ say.kind = "free inn" => say = [Silence EXCEPT !.kind = "free inn"]
  /\ say.kind = "level" => say.choices = <<>> /\ say.digits = 0
  /\ say.choices # <<>> => say.cancel \in {0, 5} \cup DOMAIN say.choices

ASSUME SaysAssumption == \A s \in Speakers : \A say \in Says[s] : Sayable(say)

-----------------------------------------------------------------------------
(* The window. frames counts its animation, choosing stands for an index   *)
(* that is not -1 and number for an active number_input_window.            *)

Closed == [visible |-> FALSE, closing |-> FALSE, frames |-> 0, wait |-> 0,
           pause |-> FALSE, choosing |-> FALSE, number |-> FALSE, kill |-> FALSE,
           printable |-> FALSE, waited |-> TRUE,
           close_started |-> FALSE, close_finished |-> FALSE]

IsClosing == window.frames > 0 /\ window.closing
IsMessagePending == window.visible /\ ~IsClosing
IsMessageActive == window.visible \/ window.close_finished
(* mutant of CanShowMessage *)
ToAll(foreground) == ~window.visible \/ window.close_started
CanShowMessage(foreground) == ~IsMessageActive \/ (foreground /\ window.close_started)

(* Window::Update *)
Animate(w) ==
  IF w.frames = 0 THEN w
  ELSE IF w.closing /\ w.frames = 1
       THEN [w EXCEPT !.frames = 0, !.closing = FALSE, !.visible = FALSE]
       ELSE [w EXCEPT !.frames = @ - 1]

InsertNewPage(w, say) ==
  [w EXCEPT !.choosing = FALSE, !.pause = FALSE, !.kill = FALSE,
            !.number = say.digits > 0 /\ LinesOf(say) = <<>>,
            !.printable = FALSE, !.waited = TRUE]
NewPage == [rows |-> 0, read |-> FALSE, killed |-> FALSE]

(* StartMessageProcessing: a message without a line or a number only       *)
(* empties the text.                                                       *)
StartMessage(s, say) ==
  /\ message' = [asker |-> s, say |-> say, former |-> FALSE]
  /\ drawn' = <<>> /\ page' = NewPage
  /\ IF ~IsActive(say)
     THEN text' = <<>> /\ UNCHANGED window
     ELSE /\ text' = TextOf(say)
          /\ LET opened == [window EXCEPT !.visible = TRUE, !.closing = FALSE,
                              !.frames = IF window.visible THEN 0 ELSE OpenFrames]
             IN window' = InsertNewPage(opened, say)

-----------------------------------------------------------------------------
(* The interpreters. A speaker is idle with its next command, wants to say *)
(* something, or waits until it has been said. That of a parallel event    *)
(* whose page has changed is cleared, and given its commands in the next   *)
(* frame ("new") unless the page is none for parallels ("gone").           *)

NoCommands(at) == [at |-> at, say |-> Silence, asks |-> {}, sub |-> subcommand_sentinel]

Updating == pc \in {"units", "foreground"}
Now == IF pc = "foreground" THEN Foreground ELSE Parallels[who]
Me == speaker[Now]

(* The breaks at the head of the loop of Game_Interpreter::Update;         *)
(* show_message of a parallel one is set while it waits.                   *)
Held(s) == IF s = Foreground THEN IsMessagePending
           ELSE IsMessageActive /\ speaker[s].at = "waits"
Runs == Updating /\ Me.at \notin {"new", "gone"} /\ ~Held(Now)

EndUpdate ==
  IF pc = "foreground" THEN pc' = "units" /\ who' = 1
  ELSE IF who < Len(Parallels) THEN pc' = pc /\ who' = who + 1
  ELSE pc' = "window" /\ who' = who

Stays == UNCHANGED <<inn, shown, answer, outdated>>

(* Game_Event::Update gives its interpreter the commands of a new page.    *)
PushPage ==
  /\ Updating /\ Me.at = "new"
  /\ speaker' = [speaker EXCEPT ![Now].at = "idle"]
  /\ Stays /\ UNCHANGED <<pc, who>>

Breaks ==
  /\ Updating /\ (Me.at = "gone" \/ (Me.at # "new" /\ Held(Now)))
  /\ EndUpdate /\ Stays /\ UNCHANGED speaker

(* The commands come to a wait or to their end. *)
Rests ==
  /\ Runs /\ Me.at = "idle"
  /\ EndUpdate /\ Stays /\ UNCHANGED speaker

(* They come to a message, a question, an inn or a raise in level. *)
WantsToSay ==
  /\ Runs /\ Me.at = "idle"
  /\ \E say \in Says[Now] :
       speaker' = [speaker EXCEPT ![Now].at = "wants", ![Now].say = say]
  /\ Stays /\ UNCHANGED <<pc, who>>

(* They change what the page of an event depends on: Game_Map::Refresh     *)
(* clears its interpreter, at the next command of this one.                *)
ChangesPage ==
  /\ Runs /\ Me.at = "idle"
  /\ \E p \in Changing, at \in {"new", "gone"} :
       /\ speaker' = [speaker EXCEPT ![p] = NoCommands(at)]
       /\ answer' = [answer EXCEPT ![p] = subcommand_sentinel]
       /\ outdated' = [outdated EXCEPT ![p] = FALSE]
       /\ message' = [message EXCEPT !.former = @ \/ message.asker = p]
       /\ IF p = Now THEN EndUpdate ELSE UNCHANGED <<pc, who>>
  /\ UNCHANGED <<inn, window, text, drawn, page>>

Allowed(s, say) ==
  CASE say.kind = "level" -> CanShowMessage(TRUE)
    [] say.kind = "inn" -> s # Foreground \/ CanShowMessage(TRUE)
    [] say.kind = "free inn" -> ~IsMessageActive
    [] OTHER -> CanShowMessage(s = Foreground)

(* CommandShowMessage, CommandShowChoices, CommandInputNumber, CommandShowInn *)
Speaks ==
  /\ Runs /\ Me.at = "wants" /\ Me.say.kind \in {"talk", "inn"} /\ Allowed(Now, Me.say)
  /\ StartMessage(Now, Shown(Me.say))
  /\ speaker' = [speaker EXCEPT ![Now].at = "waits", ![Now].say = Left(Me.say),
                                ![Now].asks = Options(Shown(Me.say))]
  /\ answer' = [answer EXCEPT ![Now] = subcommand_sentinel]
  /\ UNCHANGED <<pc, who, inn, outdated>>

(* CommandShowInn, where nothing is to be paid: nobody is asked, the party  *)
(* stays, and the frame is suspended in the interpreter.                   *)
StaysForFree ==
  /\ Runs /\ Me.at = "wants" /\ Me.say.kind = "free inn" /\ Allowed(Now, Me.say)
  /\ speaker' = [speaker EXCEPT ![Now] = [at |-> "waits", say |-> Silence,
                                         asks |-> {0, 1}, sub |-> 0]]
  /\ answer' = [answer EXCEPT ![Now] = 0] /\ outdated' = [outdated EXCEPT ![Now] = FALSE]
  /\ inn' = pc /\ pc' = "inn"
  /\ UNCHANGED <<who, shown>>

(* CommandChangeExp: the text is the foreground's (ForegroundTextPush), and *)
(* whoever raised the level goes on.                                       *)
RaisesLevel ==
  /\ Runs /\ Me.at = "wants" /\ Me.say.kind = "level" /\ Allowed(Now, Me.say)
  /\ StartMessage(Foreground, Me.say)
  /\ speaker' = [speaker EXCEPT ![Now].at = "idle", ![Now].say = Silence]
  /\ UNCHANGED <<pc, who, inn, answer, outdated>>

(* A command that may not show its message is repeated in the next frame.  *)
MayNotShow ==
  /\ Runs /\ Me.at = "wants" /\ ~Allowed(Now, Me.say)
  /\ EndUpdate /\ Stays /\ UNCHANGED speaker

(* After the message come the options (CommandOptionGeneric), or what did  *)
(* not fit.                                                                *)
GoesOn ==
  /\ Runs /\ Me.at = "waits"
  /\ LET taken == Me.sub \in Me.asks
         next == [Me EXCEPT !.at = IF Me.say = Silence THEN "idle" ELSE "wants",
                            !.asks = {},
                            !.sub = IF taken THEN subcommand_sentinel ELSE @]
     IN /\ speaker' = [speaker EXCEPT ![Now] = next]
        /\ answer' = [answer EXCEPT ![Now] = subcommand_sentinel]
        /\ outdated' = [outdated EXCEPT ![Now] = @ /\ ~taken]
  /\ UNCHANGED <<pc, who, inn, shown>>

Interpret == PushPage \/ Breaks \/ Rests \/ WantsToSay \/ ChangesPage \/ Speaks
             \/ StaysForFree \/ RaisesLevel \/ MayNotShow \/ GoesOn

-----------------------------------------------------------------------------
(* Window_Message::Update, in its frame or in UpdateInn *)

WindowUpdates == pc = "window" \/ (pc = "inn" /\ IsMessageActive)
EndWindow == pc' = IF inn # "none" THEN "inn" ELSE "foreground"

Animated ==
  LET w == Animate([window EXCEPT !.close_started = FALSE, !.close_finished = FALSE])
  IN [w EXCEPT !.close_finished = IsClosing /\ ~(w.frames > 0 /\ w.closing)]
Ready == Animated.visible /\ Animated.frames = 0

(* The window is closed, opens, closes, or waits. *)
Passes ==
  /\ WindowUpdates /\ (~Ready \/ window.wait > 0)
  /\ window' = [Animated EXCEPT !.wait = IF Ready THEN @ - 1 ELSE @]
  /\ EndWindow /\ UNCHANGED <<who, inn, text, message, speaker, history>>

AtWork == WindowUpdates /\ Ready /\ window.wait = 0

(* The player has not pressed a key, or not one that is of use here. *)
NoKey ==
  /\ AtWork /\ (window.pause \/ window.choosing \/ window.number)
  /\ window' = Animated
  /\ EndWindow /\ UNCHANGED <<who, inn, text, message, speaker, history>>

Types ==
  /\ AtWork /\ ~window.pause /\ ~window.choosing /\ ~window.number
  /\ window' = Animated /\ pc' = "typing"
  /\ UNCHANGED <<who, inn, text, message, speaker, history>>

(* WaitForInput *)
Confirms ==
  /\ AtWork /\ window.pause
  /\ window' = [Animated EXCEPT !.pause = FALSE]
  /\ page' = [page EXCEPT !.read = TRUE]
  /\ pc' = "typing"
  /\ UNCHANGED <<who, inn, text, message, speaker, drawn, answer, outdated>>

(* What InputChoice may return: the choices that are enabled, and cancel.  *)
Results(say) == {i - 1 : i \in {j \in DOMAIN say.choices : say.choices[j]}}
                \cup (IF say.cancel > 0 THEN {say.cancel - 1} ELSE {})

(* ContinuationShowInnStart knows two results. *)
Stored(say, result) == IF say.kind = "inn" /\ result # 0 THEN 1 ELSE result

Chooses ==
  /\ AtWork /\ ~window.pause /\ window.choosing
  /\ speaker[message.asker].at \notin {"new", "gone"}
  /\ \E result \in Results(message.say) :
       LET s == message.asker
           sub == Stored(message.say, result)
       IN /\ speaker' = [speaker EXCEPT ![s].sub = sub]
          /\ answer' = [answer EXCEPT ![s] = sub]
          /\ outdated' = [outdated EXCEPT ![s] = message.former]
          /\ inn' = IF message.say.kind = "inn" /\ result = 0 THEN "foreground" ELSE "none"
  /\ window' = [Animated EXCEPT !.choosing = FALSE]
  /\ page' = [page EXCEPT !.read = TRUE]
  /\ pc' = "typing"
  /\ UNCHANGED <<who, text, message, drawn>>

(* The continuation asks the interpreter for its frame, of which it has    *)
(* none: the assertion of GetFrame.                                        *)
NobodyAsked ==
  /\ AtWork /\ ~window.pause /\ window.choosing
  /\ speaker[message.asker].at \in {"new", "gone"}
  /\ pc' = "crashed"
  /\ UNCHANGED <<who, inn, shown, speaker, answer, outdated>>

(* InputNumber *)
Enters ==
  /\ AtWork /\ ~window.pause /\ window.number
  /\ window' = [Animated EXCEPT !.number = FALSE]
  /\ page' = [page EXCEPT !.read = TRUE]
  /\ pc' = "typing"
  /\ UNCHANGED <<who, inn, text, message, speaker, drawn, answer, outdated>>

-----------------------------------------------------------------------------
(* UpdateMessage: its loop, token by token *)

Stopped == window.wait > 0 \/ window.pause \/ window.choosing \/ window.number
Typing == pc = "typing" /\ ~Stopped
Reads(t) == Typing /\ text # <<>> /\ Head(text) = t
NextToken == text' = Tail(text)
TypingStays == UNCHANGED <<who, inn, message, speaker, answer, outdated>>

StopsTyping ==
  /\ pc = "typing" /\ Stopped
  /\ window' = [window EXCEPT !.wait = IF @ > 0 THEN @ - 1 ELSE @]
  /\ EndWindow /\ TypingStays /\ UNCHANGED <<text, drawn, page>>

(* FinishMessageProcessing: the window begins to close, one frame ahead.   *)
FinishMessageProcessing ==
  /\ Typing /\ text = <<>>
  /\ window' = Animate([window EXCEPT !.pause = FALSE, !.choosing = FALSE,
                          !.kill = FALSE, !.number = FALSE, !.closing = TRUE,
                          !.frames = OpenFrames, !.close_started = TRUE])
  /\ message' = NoMessage
  /\ EndWindow /\ UNCHANGED <<who, inn, text, speaker, history>>

(* A wide glyph is put back once if the one before it did not wait.        *)
PutsBackAgain == Head(text) = "w" /\ window.printable \* mutant of PutsBack
PutsBack == Head(text) = "w" /\ window.printable /\ ~window.waited

DrawGlyph ==
  /\ Typing /\ text # <<>> /\ IsGlyph(Head(text))
  /\ IF PutsBack
     THEN /\ window' = [window EXCEPT !.waited = TRUE, !.wait = 1]
          /\ UNCHANGED <<text, drawn>>
     ELSE /\ \E frames \in Waits :
               window' = [window EXCEPT !.wait = frames, !.waited = frames > 0,
                                        !.printable = TRUE]
          /\ NextToken /\ drawn' = Append(drawn, Head(text))
  /\ TypingStays /\ UNCHANGED <<pc, page>>

(* The codes \! and \^ *)
MessageCode ==
  /\ Reads("!") \/ Reads("^")
  /\ NextToken
  /\ \E frames \in Waits :
       window' = [window EXCEPT !.wait = frames, !.waited = frames > 0,
                    !.printable = FALSE,
                    !.pause = Head(text) = "!", !.kill = @ \/ Head(text) = "^"]
  /\ page' = [page EXCEPT !.killed = @ \/ Head(text) = "^"]
  /\ TypingStays /\ UNCHANGED <<pc, drawn>>

OnFinishPage(w) ==
  LET asks == message.say.choices # <<>>
      number == ~asks /\ message.say.digits > 0
  IN [w EXCEPT !.choosing = asks, !.number = number,
               !.pause = ~asks /\ ~number /\ ~w.kill, !.kill = FALSE]

(* InsertNewLine, and the end of the page *)
NewLine ==
  /\ Reads("n")
  /\ NextToken
  /\ LET end_page == text[2] = "f"
         line == [window EXCEPT !.printable = FALSE, !.waited = TRUE,
                    !.wait = IF window.printable THEN 0 ELSE IF end_page THEN 2 ELSE 1]
     IN window' = IF end_page THEN OnFinishPage(line) ELSE line
  /\ page' = [page EXCEPT !.rows = @ + 1, !.read = FALSE]
  /\ TypingStays /\ UNCHANGED <<pc, drawn>>

PageBreak ==
  /\ Reads("f")
  /\ NextToken
  /\ IF Tail(text) = <<>> THEN UNCHANGED <<window, page>>
     ELSE /\ window' = [InsertNewPage(window, message.say) EXCEPT !.wait = 1]
          /\ page' = NewPage
  /\ TypingStays /\ UNCHANGED <<pc, drawn>>

(* UpdateInn: the night is over when the window is closed, and the frame   *)
(* goes on after the message, or with the interpreter it stopped in.       *)
FinishInn ==
  /\ pc = "inn" /\ ~IsMessageActive
  /\ inn' = "none" /\ pc' = inn
  /\ UNCHANGED <<who, shown, speaker, answer, outdated>>

Window == Passes \/ NoKey \/ Types \/ Confirms \/ Chooses \/ NobodyAsked \/ Enters
Type == StopsTyping \/ FinishMessageProcessing \/ DrawGlyph \/ MessageCode \/ NewLine
        \/ PageBreak

-----------------------------------------------------------------------------
Init ==
  /\ pc = "units" /\ who = 1 /\ inn = "none"
  /\ window = Closed /\ text = <<>> /\ message = NoMessage
  /\ speaker = [s \in Speakers |-> NoCommands("idle")]
  /\ drawn = <<>> /\ page = NewPage
  /\ answer = [s \in Speakers |-> subcommand_sentinel]
  /\ outdated = [s \in Speakers |-> FALSE]

Over == pc = "crashed" /\ UNCHANGED vars

Next == Interpret \/ Window \/ Type \/ FinishInn \/ Over

Spec == Init /\ [][Next]_vars

(* The engine calls the frame for ever; the commands of an event come to a *)
(* wait or an end, and the player answers what he is asked.                *)
PlayerAnswers == Confirms \/ Chooses \/ NobodyAsked \/ Enters
Fairness == WF_vars(Next) /\ SF_vars(Rests) /\ SF_vars(PlayerAnswers)

FairSpec == Spec /\ Fairness

-----------------------------------------------------------------------------
TypeOK ==
  /\ pc \in {"units", "window", "typing", "inn", "foreground", "crashed"}
  /\ who \in 1 .. Len(Parallels) /\ inn \in {"none", "units", "foreground"}
  /\ pc = "inn" => inn # "none"
  /\ window.frames \in 0 .. OpenFrames /\ page.rows \in 0 .. MaxLines
  /\ message.asker \in Speakers \cup {NoOne}
  /\ \A s \in Speakers :
       speaker[s].at \in {"idle", "wants", "waits"}
                         \cup (IF s = Foreground THEN {} ELSE {"new", "gone"})

(* Each glyph of a message is drawn once, in order and on a row of the     *)
(* page; a window that closes or is closed has nothing left to say.        *)
Glyphs(q) ==
  LET upTo[n \in 0 .. Len(q)] ==
        IF n = 0 THEN <<>>
        ELSE IF IsGlyph(q[n]) THEN Append(upTo[n - 1], q[n]) ELSE upTo[n - 1]
  IN upTo[Len(q)]
GlyphsOfLines(lines) ==
  LET upTo[n \in 0 .. Len(lines)] ==
        IF n = 0 THEN <<>> ELSE upTo[n - 1] \o Glyphs(lines[n])
  IN upTo[Len(lines)]
WholeText ==
  /\ drawn \o Glyphs(text) = GlyphsOfLines(LinesOf(message.say)) \/ message.asker = NoOne
  /\ ~IsMessagePending => text = <<>>
  /\ text # <<>> /\ IsGlyph(Head(text)) => page.rows < MaxLines

(* The page is cleared and the message ended only after the player has     *)
(* read it to the end and answered, unless its text says otherwise.        *)
PageRead ==
  Typing /\ (text = <<>> \/ Head(text) = "f") /\ message.asker # NoOne
         /\ IsActive(message.say)
    => page.read \/ page.killed

(* One thing is asked at a time, by a speaker that waits for the answer    *)
(* unless its page has changed.                                            *)
OneQuestion ==
  window.visible =>
    /\ ~(window.pause /\ (window.choosing \/ window.number))
    /\ ~(window.choosing /\ window.number)
    /\ window.choosing \/ window.number =>
         speaker[message.asker].at = "waits" \/ message.former

(* A question is passed with the answer to it, or with none if the inn of  *)
(* a parallel event or a raise in level took the window.                   *)
Answered(s) ==
  LET me == speaker[s] IN
  me.at = "waits" /\ ~Held(s) /\ me.asks # {} /\ ~outdated[s] => me.sub = answer[s]

(* A message that is not finished is replaced by the inn of a parallel     *)
(* event, or by a raise in level before any of it was drawn.               *)
Replaces ==
  Runs /\ Me.at = "wants" /\ Allowed(Now, Me.say) /\ IsMessagePending =>
    \/ Me.say.kind = "inn" /\ Now # Foreground
    \/ Me.say.kind = "level" /\ drawn = <<>>

Conversation ==
  /\ TypeOK /\ WholeText /\ PageRead /\ OneQuestion /\ Replaces
  /\ \A s \in Speakers : Answered(s)

(* Unless pages change again and again, the foreground goes on when its    *)
(* message has been said, and a parallel event does if the window has not  *)
(* passed on to others meanwhile.                                          *)
SpeakersGoOn ==
  []<><<ChangesPage>>_vars \/
  \A s \in Speakers :
    speaker[s].at = "waits" ~>
      \/ speaker[s].at # "waits" \/ pc = "crashed"
      \/ s # Foreground /\ message.asker \notin {s, NoOne}
=============================================================================
