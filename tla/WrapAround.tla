------------------------------ MODULE WrapAround ------------------------------
(* util/type/WrapAround.h: a number of an integer type that wraps within its   *)
(* own limits.                                                                 *)
EXTENDS Integers

CONSTANTS
    TypeMin, TypeMax,   \* std::numeric_limits of the type T
    MinValue, MaxValue  \* the limits the number is given

(* A result stored in a variable of type T (modulo 2^width, for an unsigned    *)
(* type and for one narrower than int)                                         *)
Native(v) == TypeMin + ((v - TypeMin) % (TypeMax - TypeMin + 1))

(* wrap(value): with the limits of the type nothing is tested. *)
Wrap(v) ==
    IF MinValue = TypeMin /\ MaxValue = TypeMax THEN v
    ELSE IF v < MinValue THEN MaxValue
    ELSE IF v > MaxValue THEN MinValue
    ELSE v

Default      == MinValue
Construct(v) == Wrap(v)

(* wrap(++m_value) and wrap(--m_value) *)
Increment(v) == Wrap(Native(v + 1))
Decrement(v) == Wrap(Native(v - 1))

Equal(v, w) == v = w
Less(v, w)  == v < w
=============================================================================
