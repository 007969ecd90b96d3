---------------------------- MODULE SyscallEntry ----------------------------
(***************************************************************************)
(* How a system call's number and arguments get from the user's registers  *)
(* to rust_syscall_handler (src/src/syscall.rs): the entry stub pushes     *)
(* registers on the kernel stack, and safe_parse reads them back.          *)
(*                                                                         *)
(* Memory is an array of 8-byte slots, 2^Width of them; an address is a    *)
(* slot number, negative as an isize from 2^(Width-1) on.  A register's    *)
(* value is its own name, so that it shows which one was read; RAX holds   *)
(* the name of a system call.                                              *)
(***************************************************************************)
EXTENDS Integers, Sequences

CONSTANTS
    Width,          \* log2 of the number of slots (61 in the code)
    KernelBase,     \* the slot of 0xFFFF_8000_0000_0000, in the negative half
    Supported,      \* the numbers validate_syscall_number accepts
    Unsupported     \* other numbers

Slots == 0 .. 2^Width - 1

\* slot as isize, and the slot n places from it
Signed(slot) == IF slot < 2^(Width-1) THEN slot ELSE slot - 2^Width
Offset(slot, n) == (slot + n) % 2^Width

VARIABLES
    rax,            \* the number the process asks for
    kernel_stack,   \* CPU_DATA.kernel_stack_top
    memory,         \* the slots written since the entry: slot -> value
    stack_ptr,      \* the handler's argument
    result          \* what has come of the call

vars == <<rax, kernel_stack, memory, stack_ptr, result>>

\* What a read of a slot may give: a slot the stub skips or never wrote holds
\* whatever an earlier call left there.
Skipped == "skipped"
Values(slot) ==
    IF slot \in DOMAIN memory /\ memory[slot] # Skipped
    THEN {memory[slot]}
    ELSE Supported \cup Unsupported

\* The stack after pushing the values of s, the last one lowest.
Pushed(top, s) ==
    [slot \in {Offset(top, -i) : i \in DOMAIN s} |->
        s[CHOOSE i \in DOMAIN s : Offset(top, -i) = slot]]

-----------------------------------------------------------------------------
\* The stacks are byte arrays of the kernel image: their tops may be anywhere with
\* room for what the stub pushes.
Init ==
    /\ rax \in Supported \cup Unsupported
    /\ kernel_stack \in {top \in Slots : top >= 4}
    /\ memory = << >>
    /\ stack_ptr = 0
    /\ result = "user"

\* asm_syscall_handler: r11 and rcx, eight bytes, and the call.
SyscallInstruction ==
    /\ result = "user"
    /\ memory' = Pushed(kernel_stack, <<"r11", "rcx", Skipped, "return address">>)
    /\ stack_ptr' = Offset(kernel_stack, -3)
    /\ result' = "entered"
    /\ UNCHANGED <<rax, kernel_stack>>

\* int 0x80: its gate is left at privilege level 0, so the instruction faults in
\* user mode; the general protection fault has no handler and becomes a double
\* fault, which panics.  syscall_interrupt_handler is not reached.
Int80 ==
    /\ result = "user"
    /\ result' = "panicked"
    /\ UNCHANGED <<rax, kernel_stack, memory, stack_ptr>>

Panicked == result = "panicked" /\ UNCHANGED vars

\* In its range, and 16-byte aligned.
ValidateStackPointer(ptr) == ptr >= KernelBase /\ ptr % 2 = 0

\* The address, as an isize, must not be negative.
SafeReadable(ptr, n) == Signed(ptr) + n \in 0 .. 2^(Width-1) - 1

ValidateSyscallNumber(number) == number \in Supported

\* safe_parse: the number one slot below the pointer, the arguments above it.
ArgumentSlots == <<2, 4, 5, 6, 7, 8>>
Parses(number) ==
    /\ ValidateStackPointer(stack_ptr)
    /\ SafeReadable(stack_ptr, -1)
    /\ \A i \in DOMAIN ArgumentSlots : SafeReadable(stack_ptr, ArgumentSlots[i])
    /\ ValidateSyscallNumber(number)

\* rust_syscall_handler: the call dispatched on, or -1.
RustSyscallHandler ==
    /\ result = "entered"
    /\ \E number \in Values(Offset(stack_ptr, -1)) :
        result' = IF Parses(number) THEN number ELSE "refused"
    /\ UNCHANGED <<rax, kernel_stack, memory, stack_ptr>>

\* The stub returns to user mode, which calls again.
ReturnToUser ==
    /\ result \notin {"user", "entered", "panicked"}
    /\ rax' \in Supported \cup Unsupported
    /\ memory' = << >>
    /\ result' = "user"
    /\ UNCHANGED <<kernel_stack, stack_ptr>>

Next == SyscallInstruction \/ Int80 \/ Panicked \/ RustSyscallHandler \/ ReturnToUser

Spec == Init /\ [][Next]_vars

-----------------------------------------------------------------------------
\* A call made with a supported number in RAX, on a kernel stack that
\* validate_stack_pointer accepts, is dispatched on that number.
SupportedCallsDispatched ==
    (result \notin {"user", "entered", "panicked"} /\ rax \in Supported
        /\ ValidateStackPointer(stack_ptr))
    => result = rax
=============================================================================
