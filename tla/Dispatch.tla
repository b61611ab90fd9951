-------------------------------- MODULE Dispatch -------------------------------
(***************************************************************************)
(* Which handler an ioctl reaches: __ext4_ioctl with its default, which is *)
(* __ext4_evfs_ioctl, and ext4_compat_ioctl, which a 32-bit program comes  *)
(* through.  The number of a command contains the size of its argument, so *)
(* some commands have one number for each width of program.                *)
(***************************************************************************)
EXTENDS Naturals

CONSTANTS
  MountFeatures,  \* sets of features that a file system may have
  OtherNames,     \* commands that this code does not know
  ArgSizes        \* sizes of arguments, in bytes

VARIABLES features,  \* of the mounted file system
          request,   \* the number asked for and the width of the program
          reply      \* the handler that ran or the error, and the bytes it copied
dispatchVars == <<features, request, reply>>

Encryption ==
  {"SET_ENCRYPTION_POLICY", "GET_ENCRYPTION_POLICY", "GET_ENCRYPTION_POLICY_EX",
   "ADD_ENCRYPTION_KEY", "REMOVE_ENCRYPTION_KEY", "REMOVE_ENCRYPTION_KEY_ALL_USERS",
   "GET_ENCRYPTION_KEY_STATUS", "GET_ENCRYPTION_NONCE"}
Verity == {"ENABLE_VERITY", "MEASURE_VERITY", "READ_VERITY_METADATA"}

(* The commands that need a feature; the salt of encryption is not one.    *)
Needs(cmd) ==
  IF cmd \in Encryption THEN {"encrypt"} ELSE IF cmd \in Verity THEN {"verity"} ELSE {}

(* Those declared with a long, and with an int for 32-bit programs.        *)
Long ==
  {"GETVERSION", "SETVERSION", "GETVERSION_OLD", "SETVERSION_OLD", "GETRSVSZ",
   "SETRSVSZ", "GROUP_EXTEND"}

SameNumber ==
  {"MOVE_EXT", "RESIZE_FS", "FITRIM", "PRECACHE_EXTENTS", "GET_ENCRYPTION_PWSALT",
   "SHUTDOWN", "GETFSMAP", "CLEAR_ES_CACHE", "GETSTATE", "GET_ES_CACHE", "CHECKPOINT",
   "GETFSLABEL", "SETFSLABEL", "GETFSUUID", "SETFSUUID"} \cup Encryption \cup Verity

NotFor32 == {"MIGRATE", "ALLOC_DA_BLKS", "SWAP_BOOT"}
Evfs == {"PRINTHELLO", "FLIP_BLOCK_BIT"}

(* GETRSVSZ and SETRSVSZ have numbers, but nothing handles them.           *)
Handled == (Long \ {"GETRSVSZ", "SETRSVSZ"}) \cup {"GROUP_ADD"} \cup SameNumber \cup NotFor32
Commands == Long \cup {"GROUP_ADD"} \cup SameNumber \cup NotFor32 \cup Evfs

ASSUME DispatchAssumption == OtherNames \cap Commands = {} /\ ArgSizes \subseteq Nat

(* The numbers: a size matters only where it differs, and is 0 elsewhere.  *)
EXT4_IOC(cmd) ==
  [name |-> cmd,
   size |-> IF cmd \in Long THEN 8 ELSE IF cmd = "GROUP_ADD" THEN 40 ELSE 0]
EXT4_IOC32(cmd) ==
  [name |-> cmd,
   size |-> IF cmd \in Long THEN 4 ELSE IF cmd = "GROUP_ADD" THEN 36 ELSE 0]
AnyNumber == [name : Commands \cup OtherNames, size : ArgSizes]

Ran(handler, bytes) == [ran |-> handler, copied |-> bytes]
Refused(error) == Ran(error, 0)

(* The handler of a command and the bytes it copies from or to the         *)
(* program: an int for a long; for GROUP_ADD struct ext4_new_group_data,   *)
(* which is longer than what the program has there.                        *)
Handler(cmd) ==
  CASE cmd = "GETVERSION_OLD" -> "GETVERSION"
    [] cmd = "SETVERSION_OLD" -> "SETVERSION"
    [] OTHER -> cmd
Copies(cmd) == IF cmd \in Long THEN 4 ELSE IF cmd = "GROUP_ADD" THEN 48 ELSE 0

evfs_ioctl(num) ==
  IF \E c \in Evfs : num = EXT4_IOC(c) THEN Ran(num.name, 0) ELSE Refused("ENOTTY")

ext4_ioctl(num) ==
  IF num.name \notin Handled \/ num # EXT4_IOC(num.name) THEN evfs_ioctl(num)
  ELSE IF Needs(num.name) \subseteq features
       THEN Ran(Handler(num.name), Copies(num.name))
  ELSE Refused("EOPNOTSUPP")

(* The structure of GROUP_ADD is taken apart here, field by field.         *)
Group_add32 == Ran("GROUP_ADD", 4 + 8 + 8 + 8 + 4 + 2)

(* One case for each of the numbers that differ.                           *)
MispairedNumber(num) ==
  IF num = EXT4_IOC32("SETVERSION") THEN EXT4_IOC("GETVERSION") ELSE EXT4_IOC(num.name)
Translated(num) ==
  CASE num = EXT4_IOC32("GETVERSION") -> EXT4_IOC("GETVERSION")
    [] num = EXT4_IOC32("SETVERSION") -> EXT4_IOC("SETVERSION")
    [] num = EXT4_IOC32("GROUP_EXTEND") -> EXT4_IOC("GROUP_EXTEND")
    [] num = EXT4_IOC32("GETVERSION_OLD") -> EXT4_IOC("GETVERSION_OLD")
    [] num = EXT4_IOC32("SETVERSION_OLD") -> EXT4_IOC("SETVERSION_OLD")
    [] num = EXT4_IOC32("GETRSVSZ") -> EXT4_IOC("GETRSVSZ")
    [] num = EXT4_IOC32("SETRSVSZ") -> EXT4_IOC("SETRSVSZ")

ext4_compat_ioctl(num) ==
  IF num = EXT4_IOC32("GROUP_ADD") THEN Group_add32
  ELSE IF \E c \in Long : num = EXT4_IOC32(c) THEN ext4_ioctl(Translated(num))
  ELSE IF \E c \in SameNumber : num = EXT4_IOC(c) THEN ext4_ioctl(num)
  ELSE Refused("ENOIOCTLCMD")

NoRequest == [num |-> [name |-> "none", size |-> 0], bits |-> 64]

DispatchInit == features = {} /\ request = NoRequest /\ reply = Refused("none")

MountWith ==
  /\ request = NoRequest
  /\ features' \in MountFeatures
  /\ UNCHANGED <<request, reply>>

Ioctl ==
  /\ request' \in [num : AnyNumber, bits : {32, 64}]
  /\ reply' = IF request'.bits = 64 THEN ext4_ioctl(request'.num)
              ELSE ext4_compat_ioctl(request'.num)
  /\ UNCHANGED features

DispatchNext == MountWith \/ Ioctl

DispatchSpec == DispatchInit /\ [][DispatchNext]_dispatchVars

(* A 32-bit program that uses its own number of a command reaches the      *)
(* handler, or meets the error, that a 64-bit program does with its own;   *)
(* the commands of which only 64-bit programs know, the flip of a block    *)
(* bit among them, are the exception.  The number of the other width       *)
(* reaches no handler. And no handler copies more than the number it was   *)
(* reached by declares, but for GROUP_ADD of a 64-bit program.             *)
OwnNumber(cmd, bits) == IF bits = 64 THEN EXT4_IOC(cmd) ELSE EXT4_IOC32(cmd)
Only64(cmd) == cmd \in NotFor32 \cup Evfs

CompatAgrees ==
  LET cmd == request.num.name IN
  request # NoRequest =>
    /\ request = [num |-> EXT4_IOC32(cmd), bits |-> 32] /\ cmd \in Commands =>
         reply.ran = IF Only64(cmd) THEN "ENOIOCTLCMD" ELSE ext4_ioctl(EXT4_IOC(cmd)).ran
    /\ request.num # OwnNumber(cmd, request.bits) \/ cmd \in OtherNames =>
         reply.ran \in {"ENOTTY", "ENOIOCTLCMD"}
    /\ reply.copied > request.num.size =>
         request = [num |-> EXT4_IOC("GROUP_ADD"), bits |-> 64]
=============================================================================
