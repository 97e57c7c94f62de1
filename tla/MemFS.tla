-------------------------------- MODULE MemFS --------------------------------
(***************************************************************************)
(* The file system of the WebAssembly build (sk_mem_utils.ts) and the      *)
(* flags files are opened with (sk_types.ts, sk_posix.ts).  The engine     *)
(* appends the changes of a subscription to a file, and the file tells its *)
(* observer of them when it is closed.  Nobody reads these files: their    *)
(* contents, which only grow, are left out.                                *)
(***************************************************************************)
LOCAL INSTANCE Integers
LOCAL INSTANCE Sequences

\* The bits of 1, 2, 100, 200, 1000 and 4000: the last four have some in common.
O_WRONLY == {0}
O_RDWR == {1}
O_CREAT == {2, 5, 6}
O_EXCL == {3, 6, 7}
O_TRUNC == {3, 5, 6, 7, 8, 9}
O_APPEND == {5, 7, 8, 9, 10, 11}

\* Options are the set of those that are true.
toFlags(options) ==
  IF {"read", "write"} \cap options = {} THEN 0..31
  ELSE UNION {IF {"read", "write"} \subseteq options THEN O_RDWR
              ELSE IF "write" \in options THEN O_WRONLY ELSE {},
              IF "append" \in options THEN O_APPEND ELSE {},
              IF "truncate" \in options THEN O_TRUNC ELSE {},
              IF "create" \in options THEN O_CREAT ELSE {},
              IF "create_new" \in options THEN O_EXCL ELSE {}}

fromFlags(flags) ==
  {o \in {"read", "write", "append", "truncate", "create", "create_new"} :
     CASE o = "read" -> ~(O_WRONLY \subseteq flags)
       [] o = "write" -> O_WRONLY \subseteq flags \/ O_RDWR \subseteq flags
       [] o = "append" -> O_APPEND \subseteq flags
       [] o = "truncate" -> O_TRUNC \subseteq flags
       [] o = "create" -> O_CREAT \subseteq flags
       [] o = "create_new" -> O_EXCL \subseteq flags}
-----------------------------------------------------------------------------
(* A file: what was written since it was opened, and who hears of it. *)

Nobody == 0
NewFile(options, observer) ==
  [changes |-> <<>>, options |-> options, withChange |-> FALSE, onChange |-> observer]
Open(file, options) == NewFile(options, file.onChange)

\* A file that is not open for writing refuses.  Only the last write counts for
\* withChange.
Write(file, text) ==
  IF "write" \notin file.options THEN file
  ELSE [file EXCEPT !.changes = @ \o text, !.withChange = (text # <<>>)]
Close(file) == [changes |-> <<>>, options |-> {}, withChange |-> file.withChange, onChange |-> file.onChange]

-----------------------------------------------------------------------------
(* The file system: descriptors by name, files by descriptor. *)

Empty == [fileDescrs |-> <<>>, files |-> <<>>]
exists(fs, name) == name \in DOMAIN fs.fileDescrs

\* The descriptors once a file is added.
Described(fs, name) ==
  [n \in DOMAIN fs.fileDescrs \cup {name} |-> IF n = name THEN Len(fs.files) + 1 ELSE fs.fileDescrs[n]]

\* A watched file is a new one, also when there is one of that name.
watchFile(fs, name, observer) ==
  [fileDescrs |-> Described(fs, name),
   files |-> Append(fs.files, NewFile({}, observer))]

\* Context.notifySub opens a subscription's file through SKIP_js_open, which turns
\* flags into options again.
OpenFlags(options) == toFlags(options)
UpdateOptions == fromFlags(OpenFlags({"write", "append", "create"}))

\* openFile refuses only create together with create_new on a file that exists.
openFile(fs, name) ==
  IF exists(fs, name)
  THEN [fs EXCEPT !.files[fs.fileDescrs[name]] = Open(@, UpdateOptions)]
  ELSE [fileDescrs |-> Described(fs, name),
        files |-> Append(fs.files, NewFile(UpdateOptions, Nobody))]
js_write(fs, name, text) == [fs EXCEPT !.files[fs.fileDescrs[name]] = Write(@, text)]

\* What the observer hears when the file is closed.
Tells(fs, name) ==
  LET file == fs.files[fs.fileDescrs[name]]
  IN IF file.withChange /\ file.onChange # Nobody THEN file.changes ELSE <<>>
closeFile(fs, name) == [fs EXCEPT !.files[fs.fileDescrs[name]] = Close(@)]

\* notifySub: the rows that changed, and a checkpoint.
Written(fs, name, rows, checkpoint) ==
  js_write(js_write(openFile(fs, name), name, rows), name, checkpoint)
=============================================================================
