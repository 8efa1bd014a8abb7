------------------------------ MODULE MCLimine ------------------------------
(***************************************************************************)
(* Model-checking instance of Limine.  bios-install: devices with an MBR,  *)
(* with a GPT, and ISOHYBRID images, sound and unsound, and the options    *)
(* that make a difference to them.  enroll-config: a signature that begins *)
(* and ends alike, as the real one does, and every file that starts with   *)
(* six or eight cells over its two characters, long enough for two         *)
(* signatures that overlap.                                                *)
(***************************************************************************)
EXTENDS Limine, TLC

Blank == [c \in Cells |-> 0]

With(f, cell, v) == (cell :> v) @@ f

(* An MBR entry in row p. *)
Entry(f, p, flag, lba, count) ==
  (<<p, "active">> :> flag) @@ (<<p, "type">> :> 11)
    @@ (<<p, "lba">> :> lba) @@ (<<p, "count">> :> count) @@ f

Stamped == With(With(Blank, <<0, "stamp">>, 12), <<0, "id">>, 13)

MbrDisk(cells) ==
  [cells |-> cells, lb |-> 1, alt |-> 0, entrysize |-> 128, entrylba |-> 2,
   entries |-> <<>>, iso |-> FALSE, size |-> 150]

OneActive == Entry(Stamped, 1, 128, 63, 20)
NoActive  == Entry(Entry(Stamped, 1, 0, 70, 10), 3, 0, 63, 7)
BadFlags  == Entry(Entry(Stamped, 2, 1, 90, 10), 4, 129, 63, 20)

MbrDisks == {
  MbrDisk(OneActive), MbrDisk(NoActive), MbrDisk(BadFlags),
  MbrDisk(Entry(OneActive, 2, 0, 62, 1)),
  MbrDisk(Entry(OneActive, 4, 0, 40, 20)),
  MbrDisk(With(OneActive, <<0, "at3">>, Ntfs)),
  MbrDisk(With(With(NoActive, <<0, "at3">>, Fat32), <<0, "at82">>, Fat)),
  MbrDisk(With(With(OneActive, <<0, "at54">>, Fat), <<0, "at1080">>, Ext)) }

GptCells == With(With(Entry(Stamped, 1, 0, 1, 149), <<0, "gpt1">>, EfiPart), <<0, "gpt2">>, EfiPart)

GptOn(cells, lb, entries, iso) ==
  [cells |-> cells, lb |-> lb, alt |-> 499, entrysize |-> 128, entrylba |-> 2,
   entries |-> entries, iso |-> iso, size |-> 500 * lb]

GptDisk(lb, entries, iso) == GptOn(GptCells, lb, entries, iso)

Data(from, to) == [used |-> TRUE, type |-> "data", start |-> from, end |-> to]
Bios(from, to) == [used |-> TRUE, type |-> "bios", start |-> from, end |-> to]
Unused == [used |-> FALSE, type |-> "none", start |-> 0, end |-> 0]

GptDisks == {
  GptDisk(1, <<Data(100, 120), Bios(34, 97)>>, FALSE),
  GptDisk(1, <<Bios(34, 96), Data(100, 120)>>, FALSE),
  GptDisk(1, <<Unused, Bios(40, 39)>>, FALSE),
  GptDisk(1, <<Data(34, 100), Unused>>, FALSE),
  GptDisk(8, <<Data(20, 40), Bios(6, 13)>>, FALSE),
  GptOn(With(GptCells, <<5, "at1080">>, Ext), 1, <<Bios(34, 97)>>, FALSE),
  GptOn(With(GptCells, <<5, "at3">>, Ntfs), 1, <<Bios(34, 97)>>, FALSE),
  GptOn(With(GptCells, <<0, "gpt2">>, 0), 1, <<Bios(34, 97)>>, FALSE),
  [GptDisk(1, <<Bios(34, 97)>>, FALSE) EXCEPT !.entrysize = 64],
  [GptDisk(8, <<Bios(34, 97)>>, FALSE) EXCEPT !.alt = WORD \div 8],
  GptDisk(8, <<Bios(WORD \div 8, WORD \div 8 + 70)>>, FALSE) }

IsoDisks == {
  GptDisk(8, <<Data(64, 190)>>, TRUE),
  GptDisk(1, <<Data(64, 99), Unused, Data(100, 166)>>, TRUE),
  GptDisk(1, <<Data(63, 62)>>, TRUE),
  GptDisk(1, <<Unused, Unused>>, TRUE),
  GptDisk(1, <<Data(80, 70)>>, TRUE),
  GptDisk(1, <<Data(50, 119)>>, TRUE),
  GptDisk(1, <<Data(0, UINT32_MAX)>>, TRUE),
  GptDisk(1, <<Data(150, UINT32_MAX + 1), Bios(70, 140)>>, TRUE),
  GptDisk(1, <<Data(80, 81), Data(82, 83), Data(84, 85), Data(86, 87)>>, TRUE),
  GptDisk(1, <<Data(80, 81), Data(82, 83), Data(84, 85), Data(86, 87), Bios(90, 160)>>, TRUE),
  [GptDisk(1, <<Data(64, 99)>>, TRUE) EXCEPT !.alt = 31],
  [GptDisk(1, <<Data(64, 130), Data(140, 166)>>, TRUE) EXCEPT !.entrysize = 512 * WORD] }

AllDisks == MbrDisks \cup GptDisks \cup IsoDisks

BiosArgvs == {
  <<"1">>, <<"--force", "1">>, <<"1", "--no-conversion">>, <<"1", "2">>, <<"1", "0">>,
  <<"1", "--force", "1">>, <<"1", "--force", "--no-conversion", "1">>,
  <<"1", "--uninstall", "--uninstall-data-file">>, <<"--force">>, <<"2">>, <<"--help">> }

----------------------------------------------------------------------------
MCSignature == <<"+", "+", "c", "+", "+">>

Starts == UNION {[1 .. n -> {"+", "c"}] : n \in {6, 8}}
Ends   == {<<>>, <<"c">>, <<"c", "c", "c", "c", "c", "c">>}
AllFiles == {f \o e : f \in Starts, e \in Ends}

MCChars == [good |-> <<"c", "0">>, sig |-> <<"c", "c">>, bad |-> <<"c", "+">>, short |-> <<"c">>]

EnrollArgvs ==
  {<<"--help">>, <<"exe", "--quiet">>, <<"--quiet", "exe", "--reset">>}
    \cup {<<"exe", d>> : d \in DOMAIN MCChars}

CommandLines ==
  {<<>>, <<"help">>, <<"version">>, <<"no-command">>}
    \cup {<<"bios-install">> \o a : a \in BiosArgvs}
    \cup {<<"enroll-config">> \o a : a \in EnrollArgvs}

AllRests == {Rest(a) : a \in CommandLines}

=============================================================================
