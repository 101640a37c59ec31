-------------------------------- MODULE RamFs --------------------------------
(* The in-memory file system (src/fs/ramfs.rs) and the shell commands that   *)
(* work on it (src/shell/mod.rs).  A file is a sequence of characters; a word *)
(* of a command line is a valid name or, like "a/b", one that is not.  The   *)
(* lock around the map is taken and released inside one call and only the    *)
(* shell calls it, so an operation is one step.                              *)
EXTENDS Sequences, FiniteSets, Integers

CONSTANTS
    Names,      \* words that are valid file names
    BadName,    \* a word with a slash in it
    Letters,    \* the characters a file can hold besides the newline
    NL,         \* the newline character
    Contents    \* the contents the write command can be given

VARIABLE files  \* RAMFS.files

Words == Names \cup {BadName}

\* RAMFS starts empty.
InitFiles == files = [f \in {} |-> <<>>]

\* RamFs::normalize and is_valid_filename agree on the words a line can hold:
\* a word has no blanks, and a line is too short for a name of 256 characters.
Valid(path) == path \in Names

Stored(path) == Valid(path) /\ path \in DOMAIN files

write(path, data) ==
    files' = IF Valid(path)
             THEN [f \in DOMAIN files \cup {path} |-> IF f = path THEN data ELSE files[f]]
             ELSE files

delete(fs, path) == [f \in DOMAIN fs \ {path} |-> fs[f]]

\* touch: create refuses a name that exists.
cmd_touch(path) ==
    IF Stored(path) THEN UNCHANGED files ELSE write(path, <<>>)

cmd_write(path, content) == write(path, content)

\* cat prints and changes nothing.
cmd_cat(path) == UNCHANGED files

cmd_rm(path) == files' = IF Stored(path) THEN delete(files, path) ELSE files

cmd_cp(src, dst) ==
    IF Stored(src) /\ Valid(dst) THEN write(dst, files[src]) ELSE UNCHANGED files

\* Mutant: mv deletes the source although the destination is refused.
cmd_mv_unchecked(src, dst) ==
    files' = IF Stored(src)
             THEN delete([f \in DOMAIN files \cup ({dst} \cap Names) |->
                              IF f = dst THEN files[src] ELSE files[f]], src)
             ELSE files

\* mv reads, writes the destination and then deletes the source, whatever the
\* two names are: moving a file onto itself deletes it.
cmd_mv(src, dst) ==
    files' = IF Stored(src) /\ Valid(dst)
             THEN delete([f \in DOMAIN files \cup {dst} |->
                              IF f = dst THEN files[src] ELSE files[f]], src)
             ELSE files

Commands ==
    [op : {"touch", "cat", "rm", "edit"}, src : Words]
        \cup [op : {"write"}, src : Words, content : Contents]
        \cup [op : {"cp", "mv"}, src : Words, dst : Words]

\* The arms of dispatch that work on files; "edit" opens the editor.
dispatch(c) ==
    \/ c.op = "touch" /\ cmd_touch(c.src)
    \/ c.op = "write" /\ cmd_write(c.src, c.content)
    \/ c.op = "cat" /\ cmd_cat(c.src)
    \/ c.op = "rm" /\ cmd_rm(c.src)
    \/ c.op = "cp" /\ cmd_cp(c.src, c.dst)
    \/ c.op = "mv" /\ cmd_mv(c.src, c.dst)

=============================================================================
