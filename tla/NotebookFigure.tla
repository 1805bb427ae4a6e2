---------------------------- MODULE NotebookFigure ----------------------------
(***************************************************************************)
(* A figure of the notebooks in analysis/, which are run with `%matplotlib *)
(* notebook`: the program that is saved with their output shows a figure   *)
(* that lives in the kernel, follows its changes, sends it what the user   *)
(* does, and keeps the picture that the saved notebook will have.          *)
(*                                                                         *)
(* Every handler is one task of the browser.  Between the tasks come the   *)
(* messages of the comm, which has an order in each direction, the end of  *)
(* the loading of an image, and the timers that copy the canvas into the   *)
(* output of the cell.  The kernel's side is matplotlib's and external; it *)
(* does what the program relies on.                                        *)
(*                                                                         *)
(* A picture is abstracted to the version of the figure it shows.          *)
(***************************************************************************)
EXTENDS Integers, Sequences

CONSTANTS
    Sizes,        \* sizes of a figure; the first canvas has Default
    Default,
    Ratios,       \* pixels of the canvas to one of the page
    Keys,
    MaxVersion,   \* bound: how often the figure changes
    MaxEvents     \* bound: what the user does

ASSUME FigureAssumption == /\ Sizes \subseteq Nat \ {0} /\ Default \in Sizes
                           /\ Ratios \subseteq Nat \ {0}
                           /\ MaxVersion \in Nat /\ MaxEvents \in Nat

Blank == 0     \* a canvas that is cleared
Mixed == -1    \* one that shows no version, but parts of some
NoImage == [version |-> Blank, base |-> Blank, full |-> FALSE, size |-> Default]
NoKey == "null"

VARIABLES
    kernel,       \* the figure in the kernel
    toBrowser, toKernel,    \* messages of the comm
    waiting,      \* a draw is asked for and not answered
    image_mode,
    loading,      \* imageObj.src, until its onload
    canvas,       \* its size on the page, and the version it shows
    page,         \* the figure's element: interactive, static or removed
    watched,      \* its "remove" handler is bound
    cell,         \* find_output_cell has found the output, or not
    output,       \* the picture in it
    timers,       \* calls of push_to_output that are set
    key,          \* _key
    pass_mouse_events,
    mpl_ratio,
    events        \* what the user has done so far

(* History.                                                                *)
VARIABLES
    last, late,   \* the last image; and that one was loaded late
    overtaken     \* the last copy was taken before an image was loaded

shown == <<loading, canvas>>
saved == <<cell, output, timers>>
user == <<key, pass_mouse_events, events>>
history == <<last, late, overtaken>>
figure_vars == <<kernel, toBrowser, toKernel, waiting, image_mode, shown, page, watched,
                 saved, user, mpl_ratio, history>>

Msg(t) == [type |-> t]

-----------------------------------------------------------------------------
(* mpl_figure_comm: the constructor, then onopen, then find_output_cell,   *)
(* which may find nothing.  The kernel has sent its size meanwhile.        *)
onopen == <<Msg("supports_binary"), Msg("send_image_mode")>>
              \o (IF mpl_ratio # 1 THEN <<Msg("set_dpi_ratio")>> ELSE <<>>)
              \o <<Msg("refresh")>>

find_output_cell == {"found", "missing"}

figure == /\ waiting = FALSE
          /\ image_mode = "full"
          /\ loading = NoImage
          /\ canvas = [size |-> Default, shows |-> Blank]
          /\ page = "interactive" /\ watched = TRUE
          /\ key = NoKey /\ pass_mouse_events = TRUE

FigureInit == /\ \E s \in Sizes :
                     /\ kernel = [version |-> 1, size |-> s, mode |-> "full", force_full |-> TRUE,
                                  base |-> Blank, open |-> TRUE]
                     /\ toBrowser = <<[type |-> "resize", size |-> s]>>
              /\ mpl_ratio \in Ratios
              /\ figure
              /\ toKernel = onopen
              /\ cell \in find_output_cell /\ output = Blank
              /\ timers = 0 /\ events = 0
              /\ last = NoImage /\ late = FALSE /\ overtaken = FALSE

Send(msgs) == toKernel' = toKernel \o msgs

-----------------------------------------------------------------------------
(* The kernel.  A change is announced, and its image sent when asked for;  *)
(* after a refresh the image is a full one.                                *)
Change == /\ kernel.open /\ kernel.version < MaxVersion
          /\ kernel' = [kernel EXCEPT !.version = @ + 1]
          /\ toBrowser' = Append(toBrowser, Msg("draw"))
          /\ UNCHANGED <<toKernel, waiting, image_mode, shown, page, watched, saved, user,
                         mpl_ratio, history>>

Close == /\ kernel.open
         /\ kernel' = [kernel EXCEPT !.open = FALSE]
         /\ toBrowser' = Append(toBrowser, Msg("close"))
         /\ UNCHANGED <<toKernel, waiting, image_mode, shown, page, watched, saved, user,
                        mpl_ratio, history>>

Mode(full) == IF full THEN "full" ELSE "diff"

Image(full) == [type |-> "image", version |-> kernel.version,
                base |-> IF full THEN Blank ELSE kernel.base,
                full |-> full, size |-> kernel.size]

Answer(m) ==
    CASE m.type = "draw" ->
             \E full \in BOOLEAN :
                 /\ kernel.force_full => full
                 /\ kernel' = [kernel EXCEPT !.force_full = FALSE, !.mode = Mode(full),
                                             !.base = kernel.version]
                 /\ toBrowser' = toBrowser
                        \o (IF Mode(full) = kernel.mode THEN <<>>
                            ELSE <<[type |-> "image_mode", mode |-> Mode(full)]>>)
                        \o <<Image(full)>>
      [] m.type = "refresh" ->
             /\ kernel' = [kernel EXCEPT !.force_full = TRUE]
             /\ toBrowser' = toBrowser \o <<Msg("figure_label"), Msg("draw")>>
      [] m.type = "resize" ->
             /\ kernel' = [kernel EXCEPT !.size = m.size,
                                         !.base = IF m.size = kernel.size THEN @ ELSE Blank]
             /\ toBrowser' = Append(toBrowser, [type |-> "resize", size |-> m.size])
      [] m.type = "send_image_mode" ->
             /\ toBrowser' = Append(toBrowser, [type |-> "image_mode", mode |-> kernel.mode])
             /\ UNCHANGED kernel
      [] m.type = "closing" ->
             kernel' = [kernel EXCEPT !.open = FALSE] /\ UNCHANGED toBrowser
      [] OTHER -> UNCHANGED <<kernel, toBrowser>>

Kernel == /\ toKernel # <<>>
          /\ toKernel' = Tail(toKernel)
          /\ IF kernel.open THEN Answer(Head(toKernel)) ELSE UNCHANGED <<kernel, toBrowser>>
          /\ UNCHANGED <<waiting, image_mode, shown, page, watched, saved, user, mpl_ratio,
                         history>>

-----------------------------------------------------------------------------
(* What the handlers of the messages do.                                   *)

(* An image is acknowledged, and copied to the output in a second.         *)
updated_canvas_event == timers' = timers + 1 /\ Send(<<Msg("ack")>>)

\* Fault: waiting is not reset.
OnImageWaits(m) == /\ loading' = m /\ last' = m
                   /\ updated_canvas_event
                   /\ UNCHANGED <<waiting, image_mode, canvas, page, watched, output, overtaken>>

\* Fault: the canvas is not copied to the output.
OnImageUnsaved(m) == /\ loading' = m /\ last' = m
                     /\ waiting' = FALSE
                     /\ Send(<<Msg("ack")>>)
                     /\ UNCHANGED <<image_mode, canvas, page, watched, timers, output, overtaken>>

(* An image: its loading begins, in the place of one that is not loaded    *)
(* yet; updated_canvas_event; and another draw may be asked for.           *)
OnImage(m) == /\ loading' = m /\ last' = m
              /\ updated_canvas_event
              /\ waiting' = FALSE
              /\ UNCHANGED <<image_mode, canvas, page, watched, output, overtaken>>

send_draw_message == /\ waiting' = TRUE
                     /\ IF waiting THEN UNCHANGED toKernel ELSE Send(<<Msg("draw")>>)
                     /\ UNCHANGED <<image_mode, shown, page, watched, output, timers, last,
                                     overtaken>>

(* A canvas is cleared when its size is set.  What the new size is         *)
(* compared with is the width in pixels.                                   *)
handle_resize(m) ==
    /\ IF m.size # mpl_ratio * canvas.size
       THEN /\ canvas' = [size |-> m.size, shows |-> Blank]
            /\ Send(<<Msg("refresh")>>)
       ELSE UNCHANGED <<canvas, toKernel>>
    /\ UNCHANGED <<waiting, image_mode, loading, page, watched, output, timers, last, overtaken>>

handle_image_mode(m) ==
    /\ image_mode' = m.mode
    /\ UNCHANGED <<toKernel, waiting, shown, page, watched, output, timers, last, overtaken>>

(* The picture on the canvas goes to the output, though an image may be    *)
(* loading that is not drawn yet.                                          *)
push_to_output == output' = canvas.shows /\ overtaken' = (loading # NoImage)

\* Fault: handle_close leaves the message to the handler it has unbound.
CloseUntold ==
    /\ watched' = FALSE
    /\ IF cell = "found" THEN push_to_output /\ page' = "static"
                         ELSE UNCHANGED <<output, overtaken, page>>
    /\ UNCHANGED <<toKernel, waiting, image_mode, shown, timers, last>>

(* The handlers that only write to the page: title, cursor, message and    *)
(* rubber band.                                                            *)
handle_display ==
    UNCHANGED <<toKernel, waiting, image_mode, shown, page, watched, output, timers, last,
                overtaken>>

(* push_to_output fails when there is no cell, and nothing after it is     *)
(* done.                                                                   *)
handle_close ==
    /\ watched' = FALSE
    /\ IF cell = "found"
       THEN /\ push_to_output
            /\ page' = "static"
            /\ Send(<<Msg("closing")>>)
       ELSE UNCHANGED <<output, overtaken, page, toKernel>>
    /\ UNCHANGED <<waiting, image_mode, shown, timers, last>>

OnMessage ==
    /\ toBrowser # <<>>
    /\ toBrowser' = Tail(toBrowser)
    /\ LET m == Head(toBrowser) IN
       CASE m.type = "image" -> OnImage(m)
         [] m.type = "draw" -> send_draw_message
         [] m.type = "resize" -> handle_resize(m)
         [] m.type = "image_mode" -> handle_image_mode(m)
         [] m.type = "close" -> handle_close
         [] OTHER -> handle_display
    /\ late' = (late \/ loading # NoImage)
    /\ UNCHANGED <<kernel, cell, user, mpl_ratio>>

-----------------------------------------------------------------------------
(* A full image is drawn on a cleared canvas; that it is full is looked up *)
(* when it has been loaded.                                                *)
Under(image) == IF image_mode = "full" THEN Blank ELSE canvas.shows

Onload ==
    /\ loading # NoImage
    /\ loading' = NoImage
    /\ canvas' = [canvas EXCEPT !.shows =
                     IF loading.size = canvas.size /\ Under(loading) = loading.base
                     THEN loading.version ELSE Mixed]
    /\ UNCHANGED <<kernel, toBrowser, toKernel, waiting, image_mode, page, watched, saved,
                   user, mpl_ratio, history>>

(* The timer of updated_canvas_event: a second after an image has come, be *)
(* it loaded or not, be the figure live or not.                            *)
Timer == /\ timers > 0
         /\ timers' = timers - 1
         /\ IF cell = "found" THEN push_to_output ELSE UNCHANGED <<output, overtaken>>
         /\ UNCHANGED <<kernel, toBrowser, toKernel, waiting, image_mode, shown, page, watched,
                        cell, user, mpl_ratio, last, late>>

-----------------------------------------------------------------------------
(* The user, as long as the figure is interactive.                         *)
UserDoes(msgs) ==
    /\ page = "interactive" /\ events < MaxEvents
    /\ events' = events + 1
    /\ Send(msgs)
    /\ UNCHANGED <<kernel, toBrowser, waiting, image_mode, shown, saved, mpl_ratio, history>>

key_event == \/ \E k \in Keys :
                    /\ UserDoes(IF key = k THEN <<>> ELSE <<[type |-> "key_press", key |-> k]>>)
                    /\ key' = k
                    /\ UNCHANGED <<pass_mouse_events, page, watched>>
             \/ /\ UserDoes(<<Msg("key_release")>>)
                /\ key' = NoKey
                /\ UNCHANGED <<pass_mouse_events, page, watched>>

mouse_event == /\ UserDoes(IF pass_mouse_events THEN <<Msg("mouse")>> ELSE <<>>)
               /\ UNCHANGED <<key, pass_mouse_events, page, watched>>

(* Every button of the toolbar but the download.                           *)
toolbar_button_onclick == /\ UserDoes(<<Msg("toolbar_button")>>)
                          /\ UNCHANGED <<key, pass_mouse_events, page, watched>>

(* A drag of the corner: its start, and its steps and its end, which ask   *)
(* for a size.                                                             *)
Drag == \/ /\ pass_mouse_events
           /\ UserDoes(<<>>)
           /\ pass_mouse_events' = FALSE
           /\ UNCHANGED <<key, page, watched>>
        \/ \E s \in Sizes, stop \in BOOLEAN :
               /\ ~pass_mouse_events
               /\ UserDoes(<<[type |-> "resize", size |-> s]>>)
               /\ pass_mouse_events' = stop
               /\ UNCHANGED <<key, page, watched>>

(* The button "Stop Interaction".                                          *)
StopInteraction == /\ page = "interactive" /\ events < MaxEvents
                   /\ events' = events + 1
                   /\ handle_close
                   /\ UNCHANGED <<kernel, toBrowser, cell, key, pass_mouse_events, mpl_ratio,
                                  late>>

(* The output is cleared, as when the cell is run again.                   *)
RemoveFigure == /\ UserDoes(IF watched THEN <<Msg("closing")>> ELSE <<>>)
                /\ page' = "removed" /\ watched' = FALSE
                /\ UNCHANGED <<key, pass_mouse_events>>

(* The events that the canvas and the toolbar are bound to.                *)
_init_canvas == key_event \/ mouse_event \/ Drag

_init_toolbar == toolbar_button_onclick \/ StopInteraction

User == _init_canvas \/ _init_toolbar \/ RemoveFigure

FigureNext == Change \/ Close \/ Kernel \/ OnMessage \/ Onload \/ Timer \/ User

(* Messages are delivered and handled, images are loaded, timers go off.   *)
FigureSpec == /\ FigureInit /\ [][FigureNext]_figure_vars
              /\ WF_figure_vars(Kernel) /\ WF_figure_vars(OnMessage)
              /\ WF_figure_vars(Onload) /\ WF_figure_vars(Timer)

-----------------------------------------------------------------------------
(* PROPERTIES *)

AtRest == toBrowser = <<>> /\ toKernel = <<>> /\ loading = NoImage

(* Draws that are announced while one is under way are not asked for       *)
(* (send_draw_message), and yet no change is lost: when nothing is under   *)
(* way the last image is that of the figure as it is.  The canvas has the  *)
(* figure's size, unless a size was taken for the canvas's own that is its *)
(* width in pixels (handle_resize, where the ratio is not 1).  If it has,  *)
(* it shows the last image, provided that was a full one or none was       *)
(* loaded late, after the next message.  (Otherwise a part of an image may *)
(* have been lost, or drawn in the mode of the next.)                      *)
UpdatesShown ==
    AtRest /\ kernel.open =>
        /\ ~waiting
        /\ last.version = kernel.version
        /\ kernel.size \in {canvas.size, mpl_ratio * canvas.size}
        /\ canvas.size = kernel.size /\ (last.full \/ ~late) => canvas.shows = kernel.version

(* The picture in the output of the cell, which is what is saved with the  *)
(* notebook, is in the end the one on the canvas, also of a figure that    *)
(* was closed or removed while images, sizes and timers were under way,    *)
(* with two exceptions: the last image took longer to load than the second *)
(* to its copy, which nothing repeats; or the canvas was cleared for a new *)
(* size when the figure was closed, and the output keeps what it has.      *)
OutputSaved ==
    AtRest /\ timers = 0 /\ cell = "found" /\ ~overtaken =>
        output = canvas.shows \/ (~kernel.open /\ canvas.shows = Blank)

(* A figure that is closed or removed in the browser is closed in the      *)
(* kernel too, if its output was found.                                    *)
KernelTold == page # "interactive" /\ cell = "found" ~> ~kernel.open
=============================================================================
