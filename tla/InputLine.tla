------------------------------ MODULE InputLine ------------------------------
(***************************************************************************)
(* The input line of the chat session: InputState with its cursor, its     *)
(* history, the slash palette and the references that stand for pasted     *)
(* blocks, and what of ChatRenderState the keys reach: the scroll mode and *)
(* the exit prompt.                                                        *)
(*                                                                         *)
(* A text is a sequence of characters, an offset the number of characters  *)
(* before it (the code's byte offsets are at character boundaries).  The   *)
(* name of a command keeps as many letters as tell it from the others, and *)
(* a reference is three characters, one of them a space, as the words of   *)
(* "[Pasted text #1 +1 lines]" are separated by spaces.                    *)
(***************************************************************************)
EXTENDS Integers, SequencesExt

CONSTANTS Chars,         \* characters typed
          Pastes,        \* texts pasted, not empty
          CollapseLimit, \* 800 bytes in should_collapse_paste
          Histories,     \* what read_input_history may return
          Offered,       \* bound: commands of the palette that are used
          MaxEdits,    \* bound: characters typed and deleted, texts pasted, commands completed
          MaxHistory     \* bound: entries of the history

Mark == <<"#1]", "#2]", "#3]">>  \* bound: three references

\* help, status, pair, clear, reset-history, disconnect, quit
Commands == <<<<"/", "h">>, <<"/", "s", "t">>, <<"/", "p">>, <<"/", "c">>,
              <<"/", "r">>, <<"/", "d">>, <<"/", "q">>>>

Marks == {"[Pasted"} \cup ToSet(Mark)
Characters == Chars \cup (UNION {ToSet(t) : t \in Pastes}) \cup Marks \cup {" ", "\n"}
              \cup {"/", "h", "s", "t", "p", "c", "r", "d", "q"}
Texts == Seq(Characters)

ASSUME InputAssumption ==
  /\ {CollapseLimit, MaxEdits, MaxHistory} \subseteq Nat
  /\ CollapseLimit > 0
  /\ \A t \in Pastes : t \in Texts /\ t # <<>>
  /\ \A h \in Histories : h \in Seq(Texts) /\ Len(h) <= MaxHistory
  /\ Offered \cap ToSet(Commands) # {}

VARIABLES
  \* InputState; history_index counts from 1 and is 0 for None.  draft_buffer is
  \* kept only while it can be read: Up from None overwrites it.
  buffer, cursor_offset, history, history_index, draft_buffer,
  slash_selection, pasted_blocks, next_paste_id,
  \* What the last key made of it: an InputAction::Submit or nothing.
  submitted,
  \* ChatRenderState; a prompt is there for two seconds after Ctrl-C.
  transcript_scroll_mode, exit_prompted,
  running,
  \* History: the texts pasted so far, the first id of this line, the line as it
  \* was when the walk through the history began, and the number of edits.
  pasted, firstOfLine, walkedFrom, edits

editVars == <<buffer, cursor_offset, history_index, draft_buffer, slash_selection>>
pasteVars == <<pasted_blocks, next_paste_id, pasted>>
lineVars == <<history, firstOfLine>>
screenVars == <<transcript_scroll_mode, exit_prompted, running>>
vars == <<editVars, pasteVars, lineVars, submitted, screenVars, walkedFrom, edits>>

NotSubmitted == [display |-> <<>>, send |-> <<>>]

\* InputState::from_history
Init ==
  /\ buffer = <<>> /\ cursor_offset = 0
  /\ history \in Histories /\ history_index = 0
  /\ draft_buffer = <<>>
  /\ slash_selection = 0
  /\ pasted_blocks = <<>> /\ next_paste_id = 1
  /\ submitted = NotSubmitted
  /\ transcript_scroll_mode = FALSE /\ exit_prompted = FALSE
  /\ running = TRUE
  /\ pasted = <<>> /\ firstOfLine = 1 /\ walkedFrom = <<>> /\ edits = 0

-----------------------------------------------------------------------------
(* Texts *)

IsSpace(c) == c \in {" ", "\n"}

Spaces(text, from, to) == {i \in from .. to : IsSpace(text[i])}
Letters(text, from, to) == (from .. to) \ Spaces(text, from, to)

\* str::trim
Trim(text) ==
  LET solid == Letters(text, 1, Len(text)) IN
  IF solid = {} THEN <<>> ELSE SubSeq(text, Min(solid), Max(solid))

OccursAt(part, text, i) ==
  i + Len(part) - 1 <= Len(text) /\ SubSeq(text, i, i + Len(part) - 1) = part

Occurs(part, text) == \E i \in DOMAIN text : OccursAt(part, text, i)

\* What becomes of the text from each of its places on.
RestsReplaced(text, old, new) ==
  LET from[i \in 1 .. Len(text) + 1] ==
        IF i > Len(text) THEN <<>>
        ELSE IF OccursAt(old, text, i) THEN new \o from[i + Len(old)]
        ELSE <<text[i]>> \o from[i + 1]
  IN from

\* str::replace, from left to right
Replaced(text, old, new) == RestsReplaced(text, old, new)[1]

\* The elements of s that are in a set, as SelectSeq, which no prover unfolds.
Filtered(s, kept) ==
  LET from[i \in 1 .. Len(s) + 1] ==
        IF i > Len(s) THEN <<>>
        ELSE (IF s[i] \in kept THEN <<s[i]>> ELSE <<>>) \o from[i + 1]
  IN from[1]

WordLeft(text, offset) ==
  LET word == Letters(text, 1, offset)
      gaps == Spaces(text, 1, Max(word))
  IN IF word = {} \/ gaps = {} THEN 0 ELSE Max(gaps)

WordRight(text, offset) ==
  LET gaps == Spaces(text, offset + 1, Len(text))
      word == Letters(text, Min(gaps) + 1, Len(text))
  IN IF gaps = {} \/ word = {} THEN Len(text) ELSE Min(word) - 1

LineStart(text, offset) == Max({0} \cup {i \in 1 .. offset : text[i] = "\n"})
LineEnd(text, offset) ==
  Min({Len(text)} \cup {i - 1 : i \in {j \in offset + 1 .. Len(text) : text[j] = "\n"}})

\* Mutant of AtColumn: a column the line does not have.
AtColumnAnyway(start, end, column) == start + column

\* offset_for_column
AtColumn(start, end, column) == Min({start + column, end})

LineUp(text, offset) ==
  LET start == LineStart(text, offset) IN
  IF start = 0 THEN offset
  ELSE AtColumn(LineStart(text, start - 1), start - 1, offset - start)

LineDown(text, offset) ==
  LET end == LineEnd(text, offset) IN
  IF end >= Len(text) THEN offset
  ELSE AtColumn(end + 1, LineEnd(text, end + 1), offset - LineStart(text, offset))

-----------------------------------------------------------------------------
(* Pastes *)

Placeholder(id) == <<"[Pasted", " ", Mark[id]>>

\* normalize_pasted_input: line ends as \n
Normalized(text) == Replaced(Replaced(text, <<"\r", "\n">>, <<"\n">>), <<"\r">>, <<"\n">>)

ShouldCollapse(text) == Len(text) > CollapseLimit \/ Contains(text, "\n")

\* Mutant of ExpandPastedBlocks: only the last paste is put in.
ExpandLastBlock(text, blocks) ==
  IF blocks = <<>> THEN text
  ELSE Replaced(text, Last(blocks).placeholder, Last(blocks).text)

\* expand_pasted_blocks: the text once the blocks from i on are put in, the last
\* one first.
Expansions(text, blocks) ==
  LET from[i \in 1 .. Len(blocks) + 1] ==
        IF i > Len(blocks) THEN text
        ELSE Replaced(from[i + 1], blocks[i].placeholder, blocks[i].text)
  IN from

ExpandPastedBlocks(text, blocks) == Expansions(text, blocks)[1]

-----------------------------------------------------------------------------
(* The slash palette *)

Disconnect == <<"/", "d">>
Quit == <<"/", "q">>
SLASH_COMMANDS == Filtered(Commands, Offered)

StartsWithSlash(text) == IsPrefix(<<"/">>, text)

\* slash_command_matches
SlashMatches(prefix) ==
  LET matches == Filtered(SLASH_COMMANDS,
                          {name \in ToSet(SLASH_COMMANDS) : IsPrefix(Trim(prefix), name)}) IN
  IF ~StartsWithSlash(prefix) THEN <<>>
  ELSE IF matches = <<>> THEN SLASH_COMMANDS ELSE matches

HasSelected == slash_selection + 1 \in DOMAIN SlashMatches(buffer)
Selected == SlashMatches(buffer)[slash_selection + 1]

-----------------------------------------------------------------------------
(* handle_key and the arms of run_chat_session that its answers lead to *)

\* Bounds the edits, and ends them when the history is full.
Bounded ==
  /\ edits < MaxEdits /\ edits' = edits + 1
  /\ Len(history) < MaxHistory

\* An edit that leaves the history and starts the palette afresh.
Edited(text, offset) ==
  /\ buffer' = text /\ cursor_offset' = offset
  /\ history_index' = 0 /\ draft_buffer' = <<>> /\ walkedFrom' = <<>>
  /\ slash_selection' = 0

\* The cursor moves, the text stays.
Moved(offset) ==
  /\ cursor_offset' = offset
  /\ UNCHANGED <<buffer, history_index, draft_buffer, slash_selection, walkedFrom>>

\* InputAction::Redraw
Redraw ==
  /\ submitted' = NotSubmitted
  /\ exit_prompted' = FALSE
  /\ UNCHANGED <<transcript_scroll_mode, running>>

Before == SubSeq(buffer, 1, cursor_offset)
After == SubSeq(buffer, cursor_offset + 1, Len(buffer))

\* insert_str_at_cursor
Insert(text) ==
  /\ Bounded
  /\ Edited(Before \o text \o After, cursor_offset + Len(text))

\* A letter, or Shift+Enter and Option+Enter
Type(c) ==
  /\ running
  /\ Insert(<<c>>)
  /\ Redraw
  /\ UNCHANGED <<pasteVars, lineVars>>

\* InputEvent::Paste, paste_text
Paste(text) ==
  /\ running
  /\ LET normalized == Normalized(text) IN
     IF ShouldCollapse(normalized)
       THEN /\ next_paste_id <= Len(Mark)
            /\ Insert(Placeholder(next_paste_id))
            /\ pasted_blocks' = Append(pasted_blocks,
                 [id |-> next_paste_id, text |-> normalized,
                  placeholder |-> Placeholder(next_paste_id)])
            /\ next_paste_id' = next_paste_id + 1
            /\ pasted' = Append(pasted, normalized)
       ELSE Insert(normalized) /\ UNCHANGED pasteVars
  /\ Redraw /\ UNCHANGED lineVars

\* The selected command replaces the line.
Completed ==
  /\ Bounded
  /\ buffer' = Selected /\ cursor_offset' = Len(Selected)
  /\ Redraw
  /\ UNCHANGED <<history_index, draft_buffer, pasteVars, lineVars, walkedFrom>>

\* Enter in the palette, unless the command is there already.
CompletesOnEnter == StartsWithSlash(buffer) /\ HasSelected /\ Trim(buffer) # Selected

EnterCompletes ==
  /\ running
  /\ CompletesOnEnter
  /\ Completed
  /\ UNCHANGED slash_selection

\* A line equal to the last one is not added.
Remembered(line) ==
  IF history # <<>> /\ Last(history) = line THEN history ELSE Append(history, line)

\* Enter: the line is taken, submitted unless empty; /quit and /disconnect end.
EnterTakes ==
  /\ running
  /\ ~CompletesOnEnter
  /\ LET display == Trim(buffer)
         send == ExpandPastedBlocks(display, pasted_blocks)
     IN IF Trim(send) = <<>>
          THEN submitted' = NotSubmitted /\ UNCHANGED <<history, running>>
          ELSE /\ history' = Remembered(display)
               /\ Len(history') <= MaxHistory
               /\ submitted' = [display |-> display, send |-> send]
               /\ running' = (display \notin {Quit, Disconnect})
  /\ Edited(<<>>, 0)
  /\ pasted_blocks' = <<>>
  /\ firstOfLine' = next_paste_id
  /\ exit_prompted' = FALSE
  /\ UNCHANGED <<next_paste_id, pasted, transcript_scroll_mode, edits>>

\* Backspace over a reference takes the block away,
EndsWithBlock(i) == IsSuffix(pasted_blocks[i].placeholder, Before)

BackspaceBlock ==
  /\ running
  /\ \E i \in DOMAIN pasted_blocks :
       /\ EndsWithBlock(i) /\ \A j \in 1 .. i - 1 : ~EndsWithBlock(j)
       /\ LET start == cursor_offset - Len(pasted_blocks[i].placeholder) IN
          Edited(SubSeq(buffer, 1, start) \o After, start)
       /\ pasted_blocks' = RemoveAt(pasted_blocks, i)
  /\ Bounded /\ Redraw
  /\ UNCHANGED <<next_paste_id, pasted, lineVars>>

\* over anything else a character, or with Alt or Ctrl a word; what is no
\* longer in the line is pruned.
DeleteTo(start) ==
  /\ running
  /\ ~\E i \in DOMAIN pasted_blocks : EndsWithBlock(i)
  /\ Edited(SubSeq(buffer, 1, start) \o After, start)
  /\ pasted_blocks' = IF cursor_offset = 0 THEN pasted_blocks
                      ELSE Filtered(pasted_blocks, {b \in ToSet(pasted_blocks) :
                                                      Occurs(b.placeholder, buffer')})
  /\ Bounded /\ Redraw
  /\ UNCHANGED <<next_paste_id, pasted, lineVars>>

Backspace == DeleteTo(Max({0, cursor_offset - 1}))
WordBackspace == DeleteTo(WordLeft(buffer, cursor_offset))

\* Left, Right, with Alt by words, and Up and Down in a line with newlines.
Move ==
  /\ running
  /\ \/ Moved(Max({0, cursor_offset - 1}))
     \/ Moved(Min({Len(buffer), cursor_offset + 1}))
     \/ Moved(WordLeft(buffer, cursor_offset))
     \/ Moved(WordRight(buffer, cursor_offset))
  /\ Redraw
  /\ UNCHANGED <<pasteVars, lineVars, edits>>

\* Up and Down go to the transcript while it is scrolled, then to the lines
\* of the input, then to the palette, then to the history.
ArrowMoves ==
  /\ running /\ ~transcript_scroll_mode
  /\ Contains(buffer, "\n")
  /\ Moved(LineUp(buffer, cursor_offset)) \/ Moved(LineDown(buffer, cursor_offset))
  /\ Redraw
  /\ UNCHANGED <<pasteVars, lineVars, edits>>

ArrowSelects ==
  /\ running /\ ~transcript_scroll_mode
  /\ ~Contains(buffer, "\n") /\ StartsWithSlash(buffer)
  /\ \/ slash_selection' = Max({0, slash_selection - 1})
     \/ slash_selection' = Min({slash_selection + 1, Len(SlashMatches(buffer)) - 1})
  /\ Redraw
  /\ UNCHANGED <<buffer, cursor_offset, history_index, draft_buffer, pasteVars,
                 lineVars, walkedFrom, edits>>

MayRecall ==
  /\ running /\ ~transcript_scroll_mode
  /\ ~Contains(buffer, "\n") /\ ~StartsWithSlash(buffer)
  /\ pasted_blocks = <<>>

Recalled(index, text) ==
  /\ history_index' = index
  /\ buffer' = text /\ cursor_offset' = Len(text)
  /\ Redraw
  /\ UNCHANGED <<slash_selection, pasteVars, history, firstOfLine, edits>>

\* Mutant of Draft: every step up saves the line.
DraftAlways == buffer

\* What draft_buffer becomes on Up.
Draft == IF history_index = 0 THEN buffer ELSE draft_buffer

Up ==
  /\ MayRecall
  /\ history # <<>>
  /\ LET index == IF history_index = 0 THEN Len(history) ELSE Max({1, history_index - 1}) IN
     Recalled(index, history[index])
  /\ draft_buffer' = Draft
  /\ walkedFrom' = IF history_index = 0 THEN buffer ELSE walkedFrom

Down ==
  /\ MayRecall
  /\ history_index # 0
  /\ IF history_index < Len(history)
       THEN /\ Recalled(history_index + 1, history[history_index + 1])
            /\ UNCHANGED walkedFrom
            /\ UNCHANGED draft_buffer
       ELSE Recalled(0, draft_buffer) /\ draft_buffer' = <<>> /\ walkedFrom' = <<>>

Tab ==
  /\ running
  /\ HasSelected
  /\ Completed
  /\ slash_selection' = 0

\* The line stays as it is.
LineStays ==
  /\ submitted' = NotSubmitted
  /\ UNCHANGED <<editVars, pasteVars, lineVars, walkedFrom, edits>>

\* PageUp, PageDown, Ctrl+Home, the mouse wheel, and the arrows once scrolled.
\* Either direction turns the mode on, the wheel leaves the exit prompt alone.
Scroll ==
  /\ running /\ LineStays
  /\ transcript_scroll_mode' = TRUE
  /\ exit_prompted' \in {FALSE, exit_prompted}
  /\ UNCHANGED running

\* Ctrl+End; and ConnectionState::Reconnecting, which starts ChatRenderState
\* afresh.
ScrollToBottom ==
  /\ running /\ LineStays
  /\ transcript_scroll_mode' = FALSE /\ exit_prompted' = FALSE
  /\ UNCHANGED running

\* register_ctrl_c, for the key and for the signal.
CtrlC ==
  /\ running /\ LineStays
  /\ running' = ~exit_prompted
  /\ exit_prompted' = TRUE
  /\ UNCHANGED transcript_scroll_mode

CtrlD ==
  /\ running /\ LineStays
  /\ running' = FALSE
  /\ UNCHANGED <<transcript_scroll_mode, exit_prompted>>

\* Two seconds have passed.
Tick ==
  /\ running /\ LineStays
  /\ exit_prompted /\ exit_prompted' = FALSE
  /\ UNCHANGED <<transcript_scroll_mode, running>>

Next ==
  \/ \E c \in Chars \cup {"\n"} : Type(c)
  \/ \E text \in Pastes : Paste(text)
  \/ EnterCompletes \/ EnterTakes \/ Tab
  \/ BackspaceBlock \/ Backspace \/ WordBackspace
  \/ Move \/ ArrowMoves \/ ArrowSelects \/ Up \/ Down
  \/ Scroll \/ ScrollToBottom
  \/ CtrlC \/ CtrlD \/ Tick

Spec == Init /\ [][Next]_vars

-----------------------------------------------------------------------------
(* Properties *)

\* The type invariant.  The cursor is in the line and the index in the
\* history: the code would panic otherwise.
TypeOK ==
  /\ buffer \in Texts /\ cursor_offset \in 0 .. Len(buffer)
  /\ history \in Seq(Texts) /\ Len(history) <= MaxHistory
  /\ history_index \in 0 .. Len(history)
  /\ draft_buffer \in Texts /\ walkedFrom \in Texts
  /\ slash_selection \in 0 .. Len(SLASH_COMMANDS) - 1
  /\ next_paste_id \in 1 .. Len(Mark) + 1 /\ Len(pasted) = next_paste_id - 1
  /\ \A b \in ToSet(pasted_blocks) :
       b.id \in DOMAIN pasted /\ b.text = pasted[b.id] /\ b.placeholder = Placeholder(b.id)
  /\ firstOfLine \in 1 .. next_paste_id
  /\ {transcript_scroll_mode, exit_prompted, running} \subseteq BOOLEAN
  /\ submitted.display \in Texts /\ submitted.send \in Texts
  /\ edits \in 0 .. MaxEdits

\* Nothing in the text looks like a reference or a part of one.
Unmarked(text) == ToSet(text) \cap Marks = {}

\* What a reference on the line stands for is what is sent.  A block of the line
\* is sent as it was pasted if its own text is unmarked, whatever the others'
\* texts are, and its reference is not sent if none of the line's is marked.  (A
\* text that holds the reference of a block pasted before it is sent with that one
\* put in: nothing keeps a user from pasting one.)  A reference to a block of
\* an earlier line, recalled, is sent as it stands.  Ids begin again with the
\* process; the histories of earlier ones are without references here.
PastesAreSent ==
  [][submitted' # NotSubmitted =>
       \A id \in DOMAIN pasted :
         Occurs(Placeholder(id), submitted'.display) =>
           /\ (\E b \in ToSet(pasted_blocks) : b.id = id) =>
                /\ Unmarked(pasted[id]) => Occurs(pasted[id], submitted'.send)
                /\ (\A b \in ToSet(pasted_blocks) : Unmarked(b.text)) =>
                     ~Occurs(Placeholder(id), submitted'.send)
           /\ id < firstOfLine => Occurs(Placeholder(id), submitted'.send)]_vars

\* Whatever way the walk through the history takes, it ends at the line it
\* began with.
DraftComesBack ==
  [][history_index # 0 /\ history_index' = 0 /\ Down => buffer' = walkedFrom]_vars

=============================================================================
