--------------------------- MODULE KindleDisplay ----------------------------
(***************************************************************************)
(* The panel and what is done to it: internal/kindledisplay/controller.go, *)
(* and the frames of internal/kindle (clock.go, genre.go, story.go), as    *)
(* commands to the device, one at a time.                                  *)
(*                                                                         *)
(* One operation at a time uses the panel, and the frames are painted on a *)
(* display that was started: that is what module Supervisor shows of its   *)
(* callers.  A command is an ssh of its own (commands.go, sshclient).  It   *)
(* may fail, with or without its effect, and where the context or its time *)
(* has ended only the ssh is killed: the effect may come when other        *)
(* commands have been given.                                               *)
(*                                                                         *)
(* The panel holds layers: the text of a frame, which may be several       *)
(* commands, or a picture.                                                 *)
(***************************************************************************)
EXTENDS ImageCache, Layout

CONSTANTS Stories, Genres, Alerts,
          Genre,   \* the genre of each story
          Image,   \* the picture its sources name, or None
          Asset,   \* the picture of each genre, which is the fallback of its stories
          Torn,    \* what a failed upload may leave in a file
          Displays,  \* the sizes a panel may have when it is horizontal
          None, Landed

ASSUME DisplayAssumption ==
  /\ Genre \in [Stories -> Genres]
  /\ Image \in [Stories -> Images \cup {None}]
  /\ Asset \in [Genres -> Images]
  /\ Displays \subseteq [w : Nat, h : Nat]
  /\ \A d \in Displays : d.h \geq 200 /\ 10 * d.w \geq 13 * d.h
  /\ None # Torn /\ None \notin Displays /\ None # Landed
  /\ {None, Torn} \cap (Images \cup Stories \cup Genres \cup Alerts) = {}

VARIABLES
  horizontal,  \* the rotation of the framebuffer
  lit,         \* the front light is on
  panel,       \* the layers on it
  file,        \* remoteStoryImage and remoteGenreImage: the picture, None or Torn
  running,     \* Controller.running
  job,         \* the operation, or the frame it has left for its hold
  todo,        \* the commands it has still to do
  image,       \* of its picture: none, ready (imageReady) or drawn
  size,        \* displayWidth and displayHeight, or None
  late,        \* a failed command whose effect is still to come, or None; Landed when it has
               \* come: there is one such effect, which is the bound of this model
  disturbed    \* such an effect has come since the operation began

device == <<horizontal, lit, panel, file>>
vars == <<cacheVars, device, running, job, todo, image, size, late, disturbed>>

Frames == {"clock", "genre", "story", "alert"}

\* ShowClockOnce and RunClock, ShowGenreScreen, RunStory, Show and Clear, Start and Stop.
Script == [clock |-> <<"rotate", "clear", "light", "size", "text">>,
           genre |-> <<"rotate", "clear", "light", "size", "backdrop", "draw", "remove",
                       "serif", "text">>,
           story |-> <<"rotate", "clear", "light", "size", "image", "fallback", "draw", "remove",
                       "text">>,
           alert |-> <<"clear", "text">>,
           clear |-> <<"clear">>,
           start |-> <<"rotate", "clear", "light">>,
           stop  |-> <<"clear", "dark">>]

Subjects == [clock |-> {None}, genre |-> Genres, story |-> Stories, alert |-> Alerts,
             clear |-> {None}, start |-> {None}, stop |-> {None}]

Idle == [op |-> "idle", of |-> None]
Jobs == UNION {[op : {o}, of : Subjects[o]] : o \in DOMAIN Script}

\* Commands that change the panel and whose failure ends the operation.
Needed == {"rotate", "clear", "light", "dark", "text"}

Text(j, ink) == [what |-> j.op, of |-> j.of, ink |-> ink]
Picture(k) == [what |-> "picture", of |-> k, ink |-> None]

\* The pen: on the picture of a story that was drawn, and always for the label of a genre, the
\* type is white and has no ground of its own.  Elsewhere it is black on a white one.
Ink == IF job.op = "genre" \/ image = "drawn" THEN "white" ELSE "black"

Layers == {Text(j, ink) : j \in Jobs, ink \in {"white", "black"}}
            \cup {Picture(k) : k \in Images \cup {Torn}}

\* What a command does to the device.
Plain(c) == [do |-> c, on |-> None, with |-> None]
Write(f, x) == [do |-> "write", on |-> f, with |-> x]
Add(l) == [do |-> "add", on |-> None, with |-> l]
Paste(f) == [do |-> "paste", on |-> f, with |-> None]

Effects ==
  {Plain(c) : c \in Needed} \cup {Add(l) : l \in Layers} \cup {Paste(f) : f \in {"genre", "story"}}
    \cup {Write(f, x) : f \in {"genre", "story"}, x \in Images \cup {None, Torn}}

DeviceTyped ==
  /\ horizontal \in BOOLEAN /\ lit \in BOOLEAN /\ running \in BOOLEAN /\ disturbed \in BOOLEAN
  /\ panel \subseteq Layers
  /\ file \in [{"genre", "story"} -> Images \cup {None, Torn}]
  /\ job \in Jobs \cup {Idle}
  /\ todo \in Seq(UNION {ToSet(Script[o]) : o \in DOMAIN Script})
  /\ image \in {"none", "ready", "drawn"}
  /\ size \in Displays \cup {None}
  /\ late \in Effects \cup {None, Landed}

TypeOK == CacheTyped /\ DeviceTyped

\* The device is as a former process has left it.
Init ==
  /\ CacheInit
  /\ horizontal \in BOOLEAN /\ lit \in BOOLEAN
  /\ panel \in {{}, {Text([op |-> "clock", of |-> None], "black")}}
  /\ file \in {[f \in {"genre", "story"} |-> x] : x \in {None, Torn}}
  /\ running = FALSE /\ job = Idle /\ todo = <<>> /\ image = "none"
  /\ size = None /\ late = None /\ disturbed = FALSE

-----------------------------------------------------------------------------
(* The operations.                                                          *)

Begin(j) ==
  /\ job' = j /\ todo' = Script[j.op] /\ image' = "none" /\ disturbed' = FALSE
  /\ UNCHANGED <<cacheVars, device, running, size, late>>

\* A display whose light is on is taken to be running as it is.
Start ==
  /\ todo = <<>>
  /\ IF lit
     THEN /\ running' = TRUE /\ job' = Idle
          /\ UNCHANGED <<cacheVars, device, todo, image, size, late, disturbed>>
     ELSE Begin([op |-> "start", of |-> None])

Stop == todo = <<>> /\ Begin([op |-> "stop", of |-> None])

\* A query of the light, which no code of the service makes.
IsRunning ==
  /\ running # lit /\ running' = lit
  /\ UNCHANGED <<cacheVars, device, job, todo, image, size, late, disturbed>>

\* The worker, the alert and its end; the former operation has returned.
Paint ==
  /\ todo = <<>> /\ running
  /\ \E o \in Frames : \E x \in Subjects[o] : Begin([op |-> o, of |-> x])

Clear == todo = <<>> /\ job.op = "alert" /\ Begin([op |-> "clear", of |-> None])

\* The next minute of RunClock.
Tick ==
  /\ todo = <<>> /\ job.op = "clock"
  /\ todo' = <<"text">>
  /\ UNCHANGED <<cacheVars, device, running, job, image, size, late, disturbed>>

-----------------------------------------------------------------------------
(* Commands.                                                                *)

Does(e) ==
  /\ horizontal' = (horizontal \/ e.do = "rotate")
  /\ lit' = (e.do = "light" \/ (lit /\ e.do # "dark"))
  /\ panel' = CASE e.do = "clear" -> {}
                [] e.do = "add" -> panel \cup {e.with}
                [] e.do = "paste" /\ file[e.on] # None -> panel \cup {Picture(file[e.on])}
                [] OTHER -> panel
  /\ file' = IF e.do = "write" THEN [file EXCEPT ![e.on] = e.with] ELSE file

Succeeds(e) == Does(e) /\ UNCHANGED late

\* A command that fails has had its effect, has it later, or never.
Fails(e) ==
  \/ Does(e) /\ UNCHANGED late
  \/ UNCHANGED <<device, late>>
  \/ late = None /\ late' = e /\ UNCHANGED device

Late ==
  /\ late \notin {None, Landed} /\ Does(late)
  /\ late' = Landed /\ disturbed' = TRUE
  /\ UNCHANGED <<cacheVars, running, job, todo, image, size>>

At(c) ==
  /\ todo # <<>> /\ Head(todo) = c
  /\ UNCHANGED disturbed

Effect(c) == IF c = "text" THEN Add(Text(job, Ink)) ELSE Plain(c)

\* What the controller remembers when the last command has succeeded.
Remembered ==
  IF Tail(todo) = <<>> /\ job.op \in {"start", "stop"} THEN job.op = "start" ELSE running

Command ==
  \E c \in Needed :
    /\ At(c) /\ Succeeds(Effect(c))
    /\ running' = Remembered /\ todo' = Tail(todo)
    /\ UNCHANGED <<cacheVars, job, image, size>>

\* It fails, or the context ends: the operation returns an error.
GivesUp ==
  /\ todo' = <<>> /\ job' = Idle /\ image' = "none"
  /\ UNCHANGED <<cacheVars, running, size>>

CommandFails == \E c \in Needed : At(c) /\ Fails(Effect(c)) /\ GivesUp

Cancelled ==
  /\ todo # <<>> /\ Head(todo) \notin Needed
  /\ GivesUp /\ UNCHANGED <<device, late, disturbed>>

\* The size is asked for until it is known, and never again.  What cannot be read is an error.
DisplaySize ==
  /\ At("size") /\ todo' = Tail(todo)
  /\ IF size = None THEN size' \in Displays ELSE UNCHANGED size
  /\ UNCHANGED <<cacheVars, device, running, job, image, late>>

\* The label of a genre in the first of its two fonts: the second is for when it fails.
Serif ==
  /\ At("serif")
  /\ \/ Succeeds(Effect("text")) /\ todo' = <<>>
     \/ Fails(Effect("text")) /\ todo' = Tail(todo)
  /\ UNCHANGED <<cacheVars, running, job, image, size>>

-----------------------------------------------------------------------------
(* Pictures.                                                                *)

Skip == UNCHANGED <<cacheVars, device, image, late>>

Next1(c) == At(c) /\ todo' = Tail(todo) /\ UNCHANGED <<running, job, size>>

\* A failed upload leaves anything in the file.
Upload(k) ==
  \/ Succeeds(Write(job.op, k)) /\ image' = "ready"
  \/ UNCHANGED image /\ \E x \in {Torn, k} : Fails(Write(job.op, x))

\* From the cache, or fetched, prepared and put into it, which may fail.
Offer(k) ==
  \/ k \in preparedImages /\ Promote(k) /\ Upload(k)
  \/ k \notin preparedImages /\ Put(k) /\ Upload(k)
  \/ k \notin preparedImages /\ Skip

StoryImage ==
  /\ Next1("image")
  /\ IF Image[job.of] = None THEN Skip ELSE Offer(Image[job.of])

\* The asset of the genre may be unavailable.
StoryFallback ==
  /\ Next1("fallback")
  /\ \/ Skip
     \/ image = "none" /\ Offer(Asset[Genre[job.of]])

\* The backdrop of a genre screen is prepared every time.
Backdrop ==
  /\ Next1("backdrop")
  /\ \/ Skip
     \/ Upload(Asset[job.of]) /\ UNCHANGED cacheVars

\* The picture is drawn when its upload has succeeded.
Uploaded_Bug == file[job.op] # None
Uploaded == image = "ready"

Draw ==
  /\ Next1("draw") /\ UNCHANGED cacheVars
  /\ \/ Uploaded /\ file[job.op] # None /\ Succeeds(Paste(job.op)) /\ image' = "drawn"
     \/ Uploaded /\ Fails(Paste(job.op)) /\ UNCHANGED image
     \/ ~Uploaded /\ UNCHANGED <<device, image, late>>

RemoveFile ==
  /\ Next1("remove") /\ UNCHANGED <<cacheVars, image>>
  /\ IF image = "none" THEN UNCHANGED <<device, late>>
     ELSE Succeeds(Write(job.op, None)) \/ Fails(Write(job.op, None))

-----------------------------------------------------------------------------
Next ==
  \/ Start \/ Stop \/ IsRunning \/ Paint \/ Clear \/ Tick
  \/ Command \/ CommandFails \/ Cancelled \/ Late
  \/ DisplaySize \/ Serif
  \/ StoryImage \/ StoryFallback \/ Backdrop \/ Draw \/ RemoveFile

Spec == Init /\ [][Next]_vars

-----------------------------------------------------------------------------
(* Safety.                                                                  *)

Own(j) ==
  CASE j.op = "story" -> {Image[j.of], Asset[Genre[j.of]]}
    [] j.op = "genre" -> {Asset[j.of]}
    [] OTHER -> {}

\* What an operation promises when it has ended well and the effect of no former command came
\* in between, whatever was left on the panel and in the files.  A frame is on the panel, with
\* its own picture if any and with nothing of another; the white type of a story is on a
\* picture; and but for an alert, whose Show sets neither, it is horizontal and lit.  After a
\* Stop the panel is blank and dark.
WholeFrame ==
  todo = <<>> /\ ~disturbed =>
    /\ job.op \in Frames =>
         /\ \E ink \in {"white", "black"} : Text(job, ink) \in panel
         /\ \A l \in panel : \/ l.what = job.op /\ l.of = job.of
                            \/ l \in {Picture(k) : k \in Own(job) \ {None}}
         /\ Text(job, "white") \in panel /\ job.op = "story" => \E l \in panel : l.what = "picture"
         /\ job.op # "alert" => horizontal /\ lit
    /\ job.op = "stop" => panel = {} /\ ~lit

\* Every frame is laid out for the size that was asked for once.  FBInk refuses a region of a
\* pixel, for which a text ends its frame and a rule is left out, and regions that overlap wipe
\* each other: on no display does that happen.
Fitting ==
  {d \in Displays : /\ DashboardFits(d.w, d.h) /\ ClockFits(d.w, d.h)
                    /\ StoryFits(d.w, d.h) /\ LabelsFit(d.w, d.h)}
RegionsFit == size \in Fitting \cup {None}

=============================================================================
