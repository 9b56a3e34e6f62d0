# JxTools in TLA+

JxTools is an Android application for recording, converting and transcribing
media.  Its own logic sits in a few places: native players and a native RTMP
pusher that run several threads over shared memory, a Java front end that runs
the FFmpeg command line tool inside the process, a pipeline of threads that
makes MP3, a C routine that rearranges MP4 files, a GIF encoder, and a dialog
that has voice files turned into text by a service.  This directory holds TLA+
models of eight of them, the TLC configurations that check the models, and
proofs about each: the media player, the live pusher, the FFmpeg commands, fast
start, the MP3 converter, the audio player, the GIF encoder and the voice-to-text
dialog.

## Inventory

| Component | State | Operations | Talks to | Modelled by |
|---|---|---|---|---|
| Media player, `media_player.cpp`, `packet_queue.cpp` (module `ffmpeg`) | two rings of packet buffers with a read and a write index, one mutex, one condition variable, `start_time` | `setup`, `play`, `release`; threads `write_packet_to_queue` and two of `decode_func` | Java `MediaPlayer`, which calls `play` on a thread of its own | `MediaPlayer`, `PacketQueue`, `SlotQueue` |
| Live pusher, `RtmpPusher.cpp`, `safe_queue.h`, `LivePusherNew.java`, `AudioStream.java`, `VideoStream.java` (module `Live`) | `isStart`, `readyPushing`, `pid` without a lock; the packet queue and its `work` flag; `isLiving` of both streams | `startPush`, `stopPush`, `release`, `pushVideo`, `pushAudio`, `errorFromNative`; the worker `start` | camera callbacks, the `AudioTask` executor, the RTMP server, the listener | `RtmpPusher`, `SafeQueue` |
| FFmpeg commands, `FFmpegHandler.java`, `FFmpegCmd.java`, `ThreadPoolUtil.kt`, `ffmpeg_cmd.c`, `ffmpeg.c` | the executor's queue, the static `mProgressListener`, the process-wide `cancel_execute`, the Handler's messages | `executeFFmpegCmd`, `executeFFmpegCmds`, `executeFFprobeCmd`, `execute`, `executeSync`, `cancelExecute` | activities, by messages and listeners | `FFmpegTask` |
| Fast start, `fast_start.c` | sizes found by the scan, the moov atom in memory, two files | `fastStart` | called through `FFmpegCmd.fastStart` | `FastStart` |
| MP3 converter, `Mp3Converter.kt` (module `libmp3`) | two blocking queues, two flags, one array for all MP3 data | `convertToMp3`; threads for decoding, encoding, writing | MediaCodec, LAME | `Mp3Converter` |
| Audio player with filters, `audio_player.cpp`, `EqualizerActivity.kt` | the filter's description and the flags `filter_again` and `filter_release`, plain globals | `play` on a thread of the activity; `again` and `release` on the main thread | the equalizer's activity | `AudioFilter` |
| GIF encoder, `LZWEncoder` in `BeautyGifEncoder.java` | a hash table of strings, the bits and bytes not yet written | `encode` with `compress`, `output`, `cl_block`, `char_out`, `flush_char` | any reader of the file | `GifLzw`, `GifReader` |
| Voice to text of the app, `AudioToTextDialog.kt`, `AudioManager.kt`, `OSSManager.kt` | one stored `task_id` for all dialogs; `isTasking` and the timer of each | the dialog's buttons, the upload, `getResult`, `getTextResult`, the callbacks | the service, the object store, `MMKV` | `TransTask` |
| Video filter player, `video_filter.c`; video player, `video_player.cpp` | flags without a lock | `play`, `again`, `release` | Java callers | not modelled: the loop of the audio player once more, around a surface of the platform's; one flag |
| OpenSL ES player, `openSL_audio_player.cpp` | one output buffer, the enqueued buffers | `play`, `stop`, the buffer queue callback | OpenSL's thread | not modelled: no class of the repository calls it, so nothing says on which threads it would run |
| FFmpeg pusher, `ffmpeg_pusher.cpp` | local | `pushStream` | RTMP server | not modelled: sequential copying |
| Visualizer, `visualizer/` | analysis buffers | signal processing | | not modelled: numeric, and `block_queue.c` is not used |
| Speech recognition, `AsrManager.kt` | connection state, a latch | `doTask`, socket callbacks | websocket server | not modelled: its only call is commented out |
| Payment, `PayManager.kt`, `PayActivity.kt` | the order, which is the server's | one request and one callback each | server, payment SDKs | not modelled: no state between calls |
| `EasyVideoPlayer.java` (module `player`) | prepared, playing, source and surface flags | player methods, platform callbacks | Android's MediaPlayer | not modelled: a third-party widget, copied |
| App screens, database, IM, HTTP and utility classes; GIF from video, lyrics and preview tools; Camera2 | | | | not modelled: presentation, thin wrappers, file and string helpers |
| FFmpeg tool, librtmp, SoX, magicfilter, x264 and FAAC headers, kefu-easeui | | | | not modelled: vendored (of `ffmpeg.c`, the repository's cancel flag and progress callback are) |

What is hard here is nearly always sharing without a lock.  The places, line by
line, are the `hazards` of `PROJECT.json`; the properties below are aimed at
them.  The only state that outlives the process is the stored `task_id` of the
voice-to-text dialog, and `TransTask` has the death of the process as an action.
Elsewhere a crash (a failure nobody catches, a use of freed memory) is an end
without further steps.

### What makes each component correct

* **Media player.**  The demuxer writes packets into ring buffers, and decoders
  read and free them, *outside* the mutex; only the indexes are inside.  So the
  indexes must keep the demuxer away from a packet whose turn it is; no wake-up on
  the shared condition variable may be lost; no packet may be decoded twice, or
  used again after it was released.
* **Live pusher.**  One worker pushes at a time, a stop ends it, every packet
  has one owner and is freed once.
* **FFmpeg commands.**  Progress goes to the right listener, a cancel hits the
  right task, the progress layout goes away in the end.
* **Fast start.**  Chunk offsets follow the chunks, no media is lost, the sizes
  computed before writing are those written, the moov atom that is loaded is the moov atom,
  the scan ends.
* **MP3 converter.**  Pieces are written once, in order, with their own
  content; the pipeline drains and every thread ends.
* **Audio player.**  A filter asked for is the filter in force, although flag and
  description are two globals written and read one after the other; a release
  ends the playing, however early it is made.
* **GIF encoder.**  A reader gets the pixels back: both sides change the width of
  codes and start the table afresh at the same code; no string is lost in the
  hash table, and probing ends.
* **Voice to text.**  The text announced is of the dialog's own task or a newer
  one, also after a restart; the timer asks only while somebody waits.

## Modules

Labels in `pc`-like variables name places between two accesses to shared state;
one action is the code from one such place to the next.  A section under a mutex
is one action.  Variables commented *history* record what the code does not keep
and appear in properties only.

**`PacketQueue`** has the index arithmetic of `queue_push` and `queue_pop`.
**`MediaPlayer`** extends it: `Create`/`Join` are `play()`; `ReadFrame`,
`PushWaits`, `Push`, `Fill`, `EndOfFile` are `write_packet_to_queue`;
`PopWaits`, `Pop`, `Decode`, `FrameDue`/`FrameEarly`/`FrameSpins`, `Unref` are
`decode_func` with `decode_video`, `decode_audio` and `player_wait_for_frame`.
`Push` moves the index and `Fill` copies the packet, as in the code, so a decoder
can come between them.  A packet is its ordinal in its stream.  The clock is
abstracted to the outcomes of one turn of `player_wait_for_frame`: due (or late,
with the broadcast), early, and the turn in which the computed nanoseconds reach
10^9, `pthread_cond_timedwait` fails and the loop goes on with the mutex held
(`FrameSpins`; `mutex` exists for this case).  The copy of an `AVPacket` and a
decode call are taken as atomic.  **`SlotQueue`** is the abstract specification:
a bounded FIFO that hands buffers from one writer to one reader.

**`SafeQueue`** is `safe_queue.h` with its pthread mutex and condition variable
and, for each packet, how often it was freed.  **`RtmpPusher`** extends it with
three kinds of thread: the UI thread (`NativeStart`, `StartVideo`, `StartAudio`,
`CallStop`, `StopVideo` ... `JoinUI`, `ReleasePusher`, `PushVideo`), the executor
of `AudioTask` (`BeginTask`, `PushAudio`, `EndTask`) and the workers, each of
which runs `start()` from `Connect` to `ClearQueue`.  `throwErrToJava` calls
`errorFromNative`, which calls `stopPush`, so the stop actions take the thread as
a parameter; a worker that joins itself gets an error at once.

**`FFmpegTask`**: the UI thread (`Execute`, `SetListener`, `Submit`,
`CancelExecute`, `HandleMessage`) and the executor (`TakeTask`, `Begin`,
`Handle`, `LoopEnds`/`Cancelled`, `Close`, `NextOfList`, `NextOfDubbing`,
`DubbingGivesUp`, `End`, `ForgetListener`).  `execute` is two steps, because the
executor may end a task between them.

**`FastStart`** is sequential: `Scan` per top-level atom, `Load`, `Patch` per
chunk offset table, `UpgradeBegins`/`Upgrade`/`UpgradeEnds`, `Write`, `Copy` per
buffer.  The input is part of the initial state.  Sizes count units of 4 bytes,
so an atom header is 2 units and an offset is one (stco) or two (co64); an stco
entry is a number modulo `Max32 + 1`.

**`Mp3Converter`** has one group of actions per thread.  A queue is how many
buffers, or which pieces, are in it; `put` and `take` throw
`InterruptedException` only when they would wait, as `LinkedBlockingDeque` does.
`mp3buf` holds the piece last made, whatever piece a queued reference is for.

**`AudioFilter`**: `OnCreate`, `Again`/`AgainDesc`, `OnDestroy` are the main
thread; `again()` is two steps, the flag and the description, because the
playing thread may look between them.  A session is one `play()`: `Enter`,
`Open`, then per packet `ReadFrame`, `KeepFilter` or `TakeAgain` and `Rebuild`,
`PlayPacket`, and `ResetAgain`, `ResetRelease` behind the loop.  `graph` is the
description a session's graph was built from, or `NoGraph`, since
`init_equalizer`'s failure is an error in the loop and none before it.

**`GifLzw`** is sequential: `Compress` is what precedes the loop of `compress`,
`Extend` and `PutOut` are its two turns, `Finish` what follows it.  `output`,
`char_out`, `flush_char` and `cl_block` are operators with the names they have in
the class, on a record of the fields they work on.  `Slot` and `Probe` are the
search with the secondary hash.  The exclusive or of the hash is a constant
operator, `xor`, so that the module can be proved about; `MCGifLzw` gives it the
value of `Bitwise`.  `GifReader` is the other side: `Decode` is defined from the GIF
format (GIF89a, appendix F) and from nothing in the encoder.  The reader goes from
state to state: `ReadBlock` joins the data of the sub-blocks, one a step, then
`ReadCode` takes codes from them, and `After` is its state some steps on.  No
operator is recursive, so that this side can be proved about too.

**`TransTask`**: the user (`Show`, `Convert`, `Close`), the upload on its thread
(`UploadIsLost`, `Refused`, `Created`), the answers on the main thread
(`OnSuccess`, `OnFailed`, `TextSaved`, `TextFailed`), the timer (`OnTick`,
`OnFinish`), the queries, any number at once (`NoResult`, `SaveStumbles`,
`SaveText`, `NoText`), the service (`Serve`) and `ProcessDies`, after which only
the store, the files and the service are as they were.  A text file is named for
the millisecond it is saved in (`AudioManager.kt:276`), so `SaveText` takes any of
the names, one in use too, and then writes over that file.  `SaveStumbles` is
`saveFile` where it reports a failure and goes on (`FileUtil.java:333-345`): its
query may bring both an `onFailed` and an `onSuccess`.

`MC...` modules instantiate these for TLC.  Definitions that a comment calls a
*mutated form* are not used by any specification: they are the plausible bugs
with which each property has been seen to fail (`mutants` in `PROJECT.json`).

## Runs

`tlc -config X.cfg MC....tla`.  All passing runs but `trans_task`, in which the
process can always die, have `CHECK_DEADLOCK FALSE`: each of these programs may
stop (the file ends, the app makes no further call, the conversion returns), and
the media player may stop for the bad reason that a decoder has ended with its
ring full, which is a hazard and not a claim of the code.  What must not stop is
stated as liveness.

| Run | Checks | Shows |
|---|---|---|
| `media_player` | `TypeOK`, `OnlyAnEarlyDecoderMeetsTheDemuxer`, `NoMissedWakeup`, `DecodedAtMostOnce`, `ReleasedPacketsAreNotUsed`, `FindsItsPacketOrOneOfAnEarlierLap`, refinement `VideoHandOver` | Indexes and one spare buffer keep the demuxer away from a decoder that has the packet of its turn; no wake-up is missed; what an early decoder can find is nothing or a packet whole laps old, and none is decoded twice or used after its release |
| `media_player_live` | `EveryPacketIsTaken`, `RoomIsMade` | Everyone waiting for everyone resolves, unless a decoder has given up |
| `media_player_early` | `ReadsThePacketNextToRead` *violated* | a decoder may take a buffer that is published and not yet filled (`media_player.cpp:402`) |
| `rtmp_pusher` | `TypeOK`, `OneWorkerPushes`, `EachPacketHasOneOwner`, `QueueIsDrained`, `NoMissedWakeup`, `StoppedMeansStopped`, `StopOfARunningPushCompletes` | Restarts that meet the epilogue of the last worker, stops and failures neither make two workers push nor lose or double-free a packet; a stop after the start ends the push |
| `rtmp_pusher_lost` | `StopPushStops` *violated* | a stop while connecting is undone, and the UI thread waits (`RtmpPusher.cpp:110`) |
| `ffmpeg_task` | `TypeOK`, `NoProgressAfterTheEnd`, `LayoutIsHiddenInTheEnd`, `CancelIsTaken` | Overwriting and clearing the static listener never sends progress to a finished task; removing messages does not leave the layout up; an endless input can be cancelled |
| `ffmpeg_cancel` | `CancelStopsTheRunningTask` *violated* | a cancel requested while a task transcodes stops the next one, if the task's loop is over or left by an error before it looks at the flag again (`ffmpeg.c:4713`, `4952`) |
| `fast_start` | `TypeOK`, `OffsetsFollowChunks`, `NoMediaIsLost`, `UpgradeIsAsLongAsComputed`, `LoadsTheMoovAtTheEnd`, `Terminates` | Wrapped 32-bit sums are undone by the upgrade; the copy loses no media; sizes agree; a moov atom behind the media is found with any number of free atoms behind it; the scan ends on every atom |
| `mp3_converter` | `TypeOK`, `PiecesAreWrittenInOrder`, `MP3BufRunsAheadByAQueue`, `ConversionEnds` | At most one piece is lost, to the interrupt that means the end; the shared array runs at most a queue ahead; flags and interrupts end every thread |
| `gif_lzw` | `TypeOK`, `DecodesToItsPixels`, `EveryCodeIsFoundAgain` | What is written decodes to the pixels given, over every width, full tables, several clear codes, packets of every length; colliding entries of the hash table are found again and the search ends |
| `audio_filter` | `TypeOK`, `GraphIsTheDescription`, `ReleaseEndsTheSession` | Taking the flag before reading the description never loses a request for good except in one window; a session that is told to end does, also when told before it has begun |
| `trans_task` | `TypeOK`, `TellsItsOwnTextOrALaterOne`, `TimerRunsWhileWaiting` | One stored id for all dialogs may give a dialog another one's newer text, never an older one, not after a restart either, and the file has that text unless two queries of a millisecond shared it; late callbacks do not start the timer of a closed dialog |

Some properties have exceptions in them, each for a behaviour the code does have
and which is listed as a hazard: a decoder that has given up, the stop before
`readyPushing`, a dubbing whose extraction failed, a file with both kinds of
table, a moov atom with media between it and a free atom at the end, a piece
whose `put` was interrupted, a failing MediaCodec or writer, a graph rebuilt
between the two steps of `again()` (`blind`), two activities whose sessions
overlap (`shared`), a dialog that announces the text of a later one, a text file
that two queries of one millisecond wrote to, a decoder that came before its
packet was copied, a cancel requested while nothing transcodes.  The
exceptions are in the formula and not in the model, which has the behaviour.

Behaviour met while modelling that no run is about: two failures of
`RtmpPusher::start` reach nobody (`RtmpPusher.cpp:82-91` returns without calling
Java); progress of a running command goes to the listener of the next one, as
soon as that is submitted (`FFmpegCmd.java:55`); a free atom at the very end of a
file makes a moov atom in front of the media pass for the last atom, and what is
loaded as moov is not (`fast_start.c:515`).

### Bounds

* `media_player`: rings of 3 buffers, 4 video and 2 audio packets.  Four packets
  go once round the ring and into the buffer filled first, so a decoder that came
  early finds a packet of an earlier lap; the other ring can be empty, partly full
  and full at the same time.  `media_player_live`: rings of 2 (one usable
  buffer), 2 packets each, the smallest in which the demuxer waits for each
  decoder and they for it.
* `rtmp_pusher`: two workers, since only the last epilogue and the next start
  meet; two packets of the encoders and one audio tag per worker: one packet can
  be in the queue, one with the worker and one being made.  `tasks` is capped at
  the number of workers.  The violation runs need one worker.
* `ffmpeg_task`: three tasks (one running, one queued, one being submitted), two
  commands in a list (the first, and the last).  `ffmpeg_cancel` needs two: the
  task whose cancel is not taken, and the one that takes it.
* `fast_start`: up to four atoms with every order of moov, mdat, free and an
  unknown atom, one or two tables of up to two offsets, `Max32 = 24` so that of
  the offsets 3 and 21 one wraps, a copy buffer of 16, which does and does not
  divide what is copied.
* `mp3_converter`: queues of one buffer, two input buffers, five samples: both
  queues full, every thread with one in hand, and one to come.
* `gif_lzw`: pixels of 2 bits and codes of at most 4, so that ten entries fill the
  table and every width there is (3 and 4) is used; a table of 17 slots, a prime
  just above the 16 codes, as 5003 is above 4096, so that pairs collide; packets of
  3 bytes.  The frames are all those of four pixels, all of 1, 2 and 11 pixels
  over two colours (long strings), and those that fill the table with 11 pixels
  and go on with up to 7 more over three colours in every way, or fill it three
  times.  `DecodesToItsPixels` runs the whole reader in the last state of each
  frame, which these lengths allow.
* `audio_filter`: two activities, one after the other or overlapping, and three
  descriptions, so that a session can be two requests behind.
* `trans_task`: two dialogs, which is what it takes for one's task to replace
  the other's, and a timer of two ticks, so that two queries of a dialog are under
  way; two names of files, so that two queries may save in two files or in
  one.  Dialogs are interchangeable, names too, hence the symmetry; no liveness
  is checked in this run.

The proofs remove the bounds for their theorems.

### Fairness

* `media_player_live`: every thread that keeps being able to take a step in the
  end takes it, and one that keeps finding the mutex free gets it (strong
  fairness: the mutex is released and taken by others in between.  POSIX does not
  promise it; the code relies on it, having no other turn-taking).  A frame's
  time comes, because the clock runs while its thread waits or spins.  Spurious
  wake-ups are possible and never assumed.
* `rtmp_pusher`: weak fairness of what a thread does once it has begun; none for
  the app's calls, the camera, the microphone or spurious wake-ups.
* `ffmpeg_task`: weak fairness of the UI thread and the executor; *none* for the
  end of transcode()'s loop, as the input may be a live stream.
* `audio_filter`: weak fairness of each session's thread; reading, decoding and
  writing a packet come to an end.  None for the activities.
* `fast_start`: weak fairness of the routine.  `mp3_converter`: weak fairness of
  each thread, and MediaCodec puts out what it was given.

## Proofs

`MediaPlayerProofs` proves, for every ring size of at least 2 and every number
of packets (assumptions `SizeAssumption`, `ThreadAssumption`,
`BoundAssumption`):

* `TypeCorrect`: `Spec => []TypeOK`;
* `WakeupsReachSleepers`: `Spec => []NoMissedWakeup`;
* `OnlyEarlyDecodersMeet`: `Spec => []OnlyAnEarlyDecoderMeetsTheDemuxer`;
* `NothingIsDecodedTwice`: `Spec => []DecodedAtMostOnce`;
* `ReleasedIsGone`: `Spec => []ReleasedPacketsAreNotUsed`;
* `FindsWholeLaps`: `Spec => []FindsItsPacketOrOneOfAnEarlierLap`.

`OnlyAnEarlyDecoderMeetsTheDemuxer` compares a buffer being filled with one being
decoded and says nothing of the ring's indexes, so it is not inductive.  `IInv` adds
where each party stands: the write index is `pushed - popped` places ahead of the
read index and less than a lap (`Ahead`), the buffer being filled is the one
behind the write index (`FillsBehindWriteIndex`), the buffer in use the one
behind the read index (`UsesBehindReadIndex`).  Two buffers at the same place
then mean that both indexes are, hence `pushed = popped` (lemmas `SamePlace`,
`SharedBuffer`): the decoder came for the very packet the demuxer is about to copy.
That it has not got it is the part of `PacketsInPlace` below that says a packet in a
buffer has been copied.  What such a decoder has instead may be a packet of an
earlier lap, and the copy goes over it while it is being decoded; the model has
this, and it is the harm behind `ReadsThePacketNextToRead`.
`NoMissedWakeup` is inductive with `TypeOK` and `CreatedOnce`: a thread is
created once, so it is never asleep and at its first label.  The step is proved
action by action (`TypeStep`, `CreatedOnceStep`, `WakeStep`, `PositionStep`);
`PositionStep` rests on lemmas about `queue_next` and `Along` in which the modulo
is resolved by cases.

What a decoder finds depends on what is in *every* buffer, not only in the two in
use.  `IInvOfContents` adds it: the indexes and the buffers in hand are where the
counts of pushes and pops say, so the n-th packet goes to the n-th place along the
ring (`CountsAlong`, `LapsTo`, `ReadsInOrder`); a buffer that is not blank holds a
packet whose copy is over, in the place of that packet (`PacketsInPlace`,
`Copied`); and a packet that has been decoded is in no buffer, but for the one
about to be unreferenced (`DecodedAreGone`, `HasDecoded`), and one that has been
released is in none (`FreedAreGone`).  These are why nothing is decoded twice or
used after its release although a decoder may come before the copy: what it finds
then is left over from an earlier lap and has been neither decoded nor released.

The last part of the module proves, from the same `IInv` and assumptions, that the
rings implement `SlotQueue`:

* `VideoRingImplements`: `Spec => VideoHandOver`.

The lemmas are about either ring; the audio ring is the same by definition, so
nothing is stated of it again.

The mapping takes the ring's places from the read index up to the write index as
the queue, and the buffer in the decoder's hands as what is held.  To a ring,
`queue_push` is `Put` (`PushPuts`), `queue_pop` is `Take` (`PopTakes`),
`av_packet_unref` gives the buffer back (`UnrefGivesBack`), and every other step,
those of the other ring among them, is a stutter (`RingStep`).  `Ahead` turns
the modulo of the mapping into a walk along the ring, on which a push adds the
last place and a pop takes the first (`OneMoreWaits`, `OneLessWaits`); that `Put`
gives no buffer that waits or is in use is where the spare buffer is needed.

`FFmpegTaskProofs` proves, for any number of tasks and of commands in a list
(assumption `BoundAssumption`):

* `TypeCorrect`: `Spec => []TypeOK`;
* `FinishedTasksHearNoProgress`: `Spec => []NoProgressAfterTheEnd`;
* `LayoutEndsHidden`: `Spec => []LayoutIsHiddenInTheEnd`.

`NoProgressAfterTheEnd` looks at a task in its loop and at the listener; a step
into a loop keeps it only if no listener of an earlier task is left by then.
`IInv` therefore follows the task whose listener is kept: it is being submitted,
or queued, or runs (`ListenerOfATaskToEnd`).  Tasks are numbered and run in the
order of submission (`Consecutive`), so such a task is not before the running
one.  The hard step is `ForgetListener`: it clears whatever listener there is,
not only its own, which costs a queued task its progress but leaves nothing
behind.  `IInv` has also been checked with TLC, under `MCFFmpegTask.cfg`'s
bounds.

`LayoutIsHiddenInTheEnd` speaks of the end only.  `IInvOfLayout` says it of every
moment: if the layout will be shown when all messages sent so far have been
handled (`Showing`, which looks at the last message only), a task that posts its
`MSG_FINISH` is still being submitted, queued or run (`FinishIsToCome`).  So it is
harmless that `executeFFmpegCmd` removes messages of earlier tasks: it does so
while it submits a task of its own.

`FastStartProofs` proves, for any files, any tables and any size of the copy
buffer:

* `TypeCorrect`: `Spec => []TypeOK`;
* `OffsetsPointToChunks`: `Spec => []OffsetsFollowChunks`;
* `MediaIsCopied`: `Spec => []NoMediaIsLost`;
* `UpgradeFillsTheMoov`: `Spec => []UpgradeIsAsLongAsComputed`;
* `FindsTheMoov`: `Spec => []LoadsTheMoovAtTheEnd`.

Its assumptions are on the input: one moov atom, `ftyp` first or behind moov
(`FilesAssumption`), stco entries of 32 bits and a moov atom whose size fits in a
32-bit header (`MoovsAssumption`).  A moov atom beyond that would not be seen to
overflow, as `UINT_MAX - moov_atom_size` wraps (`fast_start.c:191`); no recording
comes near 4 GB of tables.

The result is about the output, the reasons are in the scan.  `ScanInv` and
`FreeInv` say that, as long as nothing has ended the scan, the size kept for moov
is moov's and the free atoms counted are all there is behind it, or less if
something else is there; so counting back from the end finds moov exactly if
only free atoms are behind it (`MoovAtTheEnd`).  The same condition is what makes
`start_offset` the length of `ftyp` (`FtypInv`), without which no offset would be
right: the two facts are one invariant over the scan.  From the load on,
`PatchInv`, `UpgradeInv` and `OutputInv` give every table of `moov_atom` in terms
of the input's, and `SizeInv` which of the two sizes is the new one.
`OffsetComesBack` then settles the arithmetic: a size added modulo
`Max32 + 1` and taken off again leaves the offset, wrapped or not.
`UpgradedMovedSize` and `UpgradedSum` do it for the sizes.

Sums over all atoms and all tables need induction.  The library's theorems for it
take an operator, so the induction is done on a *set* of numbers that has 0 and
with every number the next (`InductionOnSets`), which follows from
`WFMin` of `WellFoundedInduction`; the sums themselves exist by the same argument
(`SumsExist`, `SumsAgree`).

`RtmpPusherProofs` proves, for any number of pushes and of packets (assumption
`WorkerAssumption`, which only names the threads and bounds the packets made):

* `TypeCorrect`: `Spec => []TypeOK`;
* `OneWorker`: `Spec => []OneWorkerPushes`;
* `StopsForGood`: `Spec => []StoppedMeansStopped`;
* `NoWakeupIsMissed`: `Spec => []NoMissedWakeup`;
* `Drained`: `Spec => []QueueIsDrained`;
* `OneOwner`: `Spec => []EachPacketHasOneOwner`.

The argument is one inductive invariant.  `WorkerInv`: workers are created in
order, `pid` is the last, and a worker holds a packet in three places only.
`QueueInv`: who is asleep is in `pop`; as long as the queue is at work there is a
worker that has yet to stop it, and as long as it holds packets there is one that
has yet to clear it.  This is what an invariant about the queue alone lacks: a
packet queued during the epilogue of the last worker is left to that worker's
`clear`, or to the next worker's.  `OwnerInv`: a packet is at most once in the
queue, at most with one worker, not both, and freed exactly when it is with
neither (`OwnerPush`, `OwnerPop`, `OwnerDrop`, `OwnerClear`).  `StepKinds` sorts
the steps by what they touch, so that each part is proved against the few kinds
that can disturb it; lemmas `SignalIsEnough` and `QueueKept` settle the others.

`Mp3ConverterProofs` proves, for any length of the queues, any number of input
buffers and any length of the input (`SizeAssumption`, `ThreadAssumption`):

* `TypeCorrect`: `Spec => []TypeOK`, the bounds of both queues included;
* `PiecesInOrder`: `Spec => []PiecesAreWrittenInOrder`;
* `BufferRunsAheadByAQueue`: `Spec => []MP3BufRunsAheadByAQueue`.

`PiecesAreWrittenInOrder` speaks of the end only.  `OrderInv` says it of every
moment: what was written, what the writer has in hand, what is queued and what is
being put are in this order all the pieces made, but for what was lost.
`LossInv` is why that is one piece at most: the decoder interrupts the encoder
once, as its last step, and the loss consumes the interrupt.  `EndInv` takes the
end down the pipeline: no thread says that it is done before the one ahead of it
is and its queue is empty.  With these, `AheadInv` follows from counting the
pieces that can be between the one being written and the one being encoded: a
full queue, the one in the encoder's hands, and the one that may have been lost.

`AudioFilterProofs` proves, for any number of activities and of descriptions
(assumption `ConstantAssumption`):

* `TypeCorrect`: `Spec => []TypeOK`;
* `FilterIsInForce`: `Spec => []GraphIsTheDescription`.

`GraphIsTheDescription` says nothing of the time between the two steps of
`again()`, when the description is not yet the one asked for.  `LoopIsSettled`
says that a session in its loop with the flag down is not in that time at all,
unless it was blind; `FlagIsSeenLater`, that before its loop it still has the
flag to find; `Alone`, that nobody else takes the flag.

`TransTaskProofs` proves, for any number of dialogs and any length of the timer
(assumption `ConstantAssumption`):

* `TypeCorrect`: `Spec => []TypeOK`;
* `AnnouncedTextsAreRecent`: `Spec => []TellsItsOwnTextOrALaterOne`;
* `TimerStops`: `Spec => []TimerRunsWhileWaiting`.

`StoreInv` follows the id from the store to the text: once a dialog's own id was
stored, what is stored is it or a later one, and a query takes what is stored.
A file holds the text last written, and a second query that writes to it marks it as
shared.  `OrderInv` and `ScreenInv` say why a query is never made sooner: the timer runs
only after the upload's answer, and an answer reaches a dialog on the screen
only.

`GifLzwProofs` proves, for any frames, pixels of 2 to 8 bits, codes of up to 12
bits, packets of up to 255 bytes and a hash table of any prime size above the
number of codes:

* `TypeCorrect`: `Spec => []TypeOK`;
* `CodesAreFoundAgain`: `Spec => []EveryCodeIsFoundAgain`;
* `ReadersGetThePixels`: `Spec => []DecodesToItsPixels`.

`SizeAssumption` says this of the sizes; 5003, 4096, 8 and 254 of the source
satisfy it.  Of the exclusive or, `XorAssumption` says no more than that two codes
give a number of the same width: what is proved holds of any such hash.

Two things are behind `CodesAreFoundAgain`.  A search goes through the table in
steps of one length (`ProbeSteps`); a prime divides no product of two smaller
numbers (`PrimeDividesNoProduct`, by the least counterexample and its remainder), so no two
of its steps meet, and what is injective on a finite set visits all of it
(`ProbesVisitAll`).  With fewer entries than slots (`Cardinality(used)` is the number
of codes given, at most `maxmaxcode`, and `HSize` is more) every search ends
(`SearchesEnd`).  And `Reached` is what `EveryCodeIsFoundAgain` lacks to be
inductive: before a pair's slot its search passes only slots in use that hold other
pairs.  An entry is made in an empty slot, which is on no such path (`EntryKeeps`),
and only a clear code empties slots, all of them (`EmptyTable`).  Moreover the
string that is held never has the code of a clear or an end: otherwise `output()`
would write a flush in the middle of the image.

`WriterInv` is the invariant of `output()`: the limit of the width is that of
`n_bits`, `maxmaxcode` at the last one, so that a width beyond `MaxBits` is never
taken (`WidenKeeps`); less than a byte is left over between two codes
(`BytesToPut`, `ShiftOutBytes`), and a packet always has room (`CharOut`).  TLC has
checked `WriterInv` and `TableInv` on the frames of the run.

`ReadersGetThePixels` says that the reader of the format undoes the encoder, and has
an invariant of its own beside `IInv`.  The reader starts when all the bytes are
there; the encoder knows only those it has written.  So `ReadInv` is about every way the bytes can go on:
whatever data begins with the bits written so far (`Follows`), the reader comes
through them to one state, which `ReadSoFar` relates to the encoder's (`ReadsTo`,
`Read`).  The relation is:

* the bytes put out so far and the packet begun are the data of sub-blocks
  (`HasBlocks`, `Payload`), and `cur_accum` has the bits that come next;
* the reader is one entry behind: it makes an entry of its last string and of the
  first pixel of the next, which the encoder made when it put out the last
  (`Linked`); this is why a code may be used right after it was entered;
* the hash table means what the reader's dictionary does (`Means`): the string of a
  code is the string of its prefix and its pixel;
* what the reader has, and the string the encoder holds behind it, are the pixels
  taken so far (`Shown`).

A code put out keeps all that.  `CodeGiven` is about the bits: the code is found at
the place where the bits had ended, whatever follows, over two or three bytes
(`Window`, `CodeComesBack`, with powers of two and remainders).  `BlockAdded` is
about the bytes, a sub-block more; `StringRead` and `ClearRead` about the reader's
dictionary and about the widths, which change at the same code on both sides
(`WidthFor` on the one, `Widen` on the other); `EndRead` about the end, where the
bits left over, the last packet and the terminator complete the data, so that the
reader ends with exactly the pixels of the frame.  Each action of `GifLzw` then has a
lemma (`CompressReads`, `ExtendReads`, `PutOutReads`, `FinishReads`).

The steps of the reader are counted, and `After` is a recursive function: that one
more step is a step from the state before (`AfterNext`) needs induction.  The
library's induction theorems take an operator; `InductionOnSets` says the same of a
set, by its least counterexample (`WFMin`), which the provers can use.  `ReadInv`
speaks of all data, so TLC cannot evaluate it; what it is for, `DecodesToItsPixels`,
TLC has checked on the frames of the run.

Only model-checked: all liveness (it needs fairness and ENABLED).  The inductive
invariants of `MediaPlayer`, `FFmpegTask`, `FastStart` and `GifLzw`, except
`ReadInv`, have themselves been checked with TLC under the bounds of the runs.

## Plan

Order of the work, most important first.

1. (done) `MediaPlayer`, its abstract specification, three theorems.
2. (done) `RtmpPusher` and the proof of all its safety properties; `FFmpegTask`
   and `NoProgressAfterTheEnd`; `FastStart`; `Mp3Converter`.
3. (done) `AudioFilter` and `TransTask` with their proofs; `GifLzw`.
4. (done) The proofs of `Mp3Converter` and of the refinement of `SlotQueue`.
5. (done) `DecodedAtMostOnce`, `ReleasedPacketsAreNotUsed` and
   `FindsItsPacketOrOneOfAnEarlierLap`, `LayoutIsHiddenInTheEnd`, and all safety properties of `FastStart` as theorems.
6. (done) `EveryCodeIsFoundAgain` of `GifLzw` as a theorem, with the reference
   decoder in a module of its own and the exclusive or without `Bitwise`.
7. (done) `DecodesToItsPixels` as a theorem, with the reader as a machine of steps
   instead of a recursive operator.  Every safety property of a passing run is now
   proved.

## Not modelled, and why

`release()` of the media player frees what running threads use: undefined from
the first step on.  Time stamps of the pusher, bit rates, formats and the bytes
of packets: no property is about them.  The nesting of atoms between moov and its
tables: the code recurses through it without state of its own.  `ftyp` behind
other atoms: the code then drops what is before it, which no writer of MP4 files
produces; `FastStart`'s inputs have it only behind moov and media.  Concurrent
`executeSync` from `HighQualityGif`: two threads in code with process-wide
globals.  Mono input of the MP3 converter: it ends the process at the first
buffer (`buffer.pcm!!`).

Of the FFmpeg front end: `isContinue` (`FFmpegHandler.java:78-82`, `124-128`), with
which a task posts `MSG_CONTINUE` in place of `MSG_FINISH`; no caller in the
repository sets it.  Of the voice-to-text dialog: an activity that is destroyed or
made anew under it, which cancels no timer; the timer of such a dialog goes on
without a screen, which `TimerRunsWhileWaiting` does not cover.

Of the audio player: a file without an audio stream (`audio_player.cpp:232`, the
index -1 is used as it is), and the visualizer object that two overlapping
sessions would both create and free (line 288), undefined from the first step
on.  Its decoding is the media player's without the queues.  Of the GIF encoder:
the neural network that quantises colours, dithering and the blocks around the
image.  Of the app's managers: everything but voice to text, which keeps no
state between two calls.

The video filter player repeats the audio player's loop, with a window the
platform owns.  The speech recognition session and the OpenSL ES player are never
called by the program, so a model would have to invent who calls them and when.
Payments are one request and one callback each; what must not go wrong in them,
one order being paid once, is in the hands of the server, whose answer the app
asks for and drops (`PayManager.kt:263`, with the cases below it commented out:
success is announced on the word of the payment SDK).  The visualizer's `block_queue.c`
is not used and the rest of it is signal processing.  Camera2, the screens,
lyrics, previews and the database hold no state of the repository's own beyond
the platform's.  By far the largest part of the C code is vendored: the FFmpeg
tool with its headers, librtmp, SoX and the codecs' headers.  The repository's
own changes to it are modelled and the rest is another project's program.
